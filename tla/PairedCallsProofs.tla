--------------------------- MODULE PairedCallsProofs ---------------------------
(***************************************************************************)
(* Theorems about PairedCalls: the bookkeeping of require-paired-calls     *)
(* follows the walk, every leak of a regular function is warned of, and a  *)
(* warning of a regular function without early exits is justified.         *)
(***************************************************************************)
EXTENDS PairedCalls, FiniteSetTheorems, SequenceTheorems, WellFoundedInduction, TLAPS

Kinds == {"function", "if", "loop", "switch", "try"}
Parts == {"body", "then", "else", "between", "case", "block", "catch", "finally"}
PartsOf(kind) ==
  CASE kind = "if" -> {"then", "else"}
    [] kind = "switch" -> {"between", "case"}
    [] kind = "try" -> {"block", "catch", "finally"}
    [] OTHER -> {"body"}
Branching == {"if", "switch", "try"}
Executions == [open : SUBSET Calls, to : 0..Throw]
Contexts == [inFinally : BOOLEAN]
SyntaxNode ==
  [id : 1..MaxNodes, kind : Kinds, part : Parts, depth : Nat,
   saved : SUBSET Executions, stack : SUBSET Calls, out : SUBSET Executions,
   thrown : SUBSET Executions, leaks : BOOLEAN,
   catch : BOOLEAN, finally : BOOLEAN, default : BOOLEAN, cases : Nat]

Typed ==
  /\ path \in Seq(SyntaxNode) /\ nodes \in 0..MaxNodes
  /\ live \in SUBSET Executions
  /\ account \in Seq(SUBSET (Marks \ {"leaked"})) /\ verdict \in SUBSET Marks
  /\ openerStack \in SUBSET Calls /\ functionStacks \in Seq(SUBSET Calls)
  /\ loopStack \in Seq(1..MaxNodes) /\ contextStack \in Seq(Contexts)
  /\ stackIndexCounter \in 0..MaxOpeners
  /\ stackSnapshots \in [DOMAIN stackSnapshots -> SUBSET Calls]
  /\ branchStacks \in [DOMAIN branchStacks -> Seq(SUBSET Calls)]
  /\ yieldingAutoClosed \in BOOLEAN /\ yieldingReportedFirst \in BOOLEAN

(* How many functions are open; the nodes around a place of a path, the    *)
(* i-th node included, in the same function; the ids of some nodes.        *)
Place == Len(account)
Around(p, i) == {j \in 1..i : p[j].depth = p[i].depth}
IdsIn(p, kinds) == {p[i].id : i \in {j \in 1..Len(p) : p[j].kind \in kinds}}

-----------------------------------------------------------------------------
(* The nodes that are open: functions within functions; a finally block    *)
(* holds no try statement; the cases of a switch are entered one by one.   *)
NodeShape(r) ==
  /\ r.part \in PartsOf(r.kind)
  /\ r.kind = "try" =>
       /\ r.catch \/ r.finally
       /\ r.part = "catch" => r.catch
       /\ r.part = "finally" => r.finally
  /\ r.default => r.cases > 0
  /\ r.part = "case" => r.cases > 0
NodePlace(p, i) ==
  /\ p[i].kind = "function" => p[i].depth = IF i = 1 THEN 1 ELSE p[i - 1].depth + 1
  /\ p[i].kind # "function" => i > 1 /\ p[i].depth = p[i - 1].depth
  /\ \E f \in Around(p, i) : p[f].kind = "function"
Before(r, s) ==
  /\ r.id < s.id /\ r.part # "between"
  /\ r.depth <= s.depth
  /\ s.kind = "function" => r.depth < s.depth
  /\ s.kind = "try" /\ r.depth = s.depth => r.part # "finally"
Syntax(p, d, n) ==
  /\ d = IF p = <<>> THEN 0 ELSE p[Len(p)].depth
  /\ \A i \in 1..Len(p) : NodeShape(p[i]) /\ NodePlace(p, i) /\ p[i].id <= n
  /\ \A i, j \in 1..Len(p) : i < j => Before(p[i], p[j])

(* The rule's bookkeeping, for a path p.                                   *)
Finalizes(p, i) == \E j \in Around(p, i) : p[j].part = "finally"
ContextsFollow(p, cs) ==
  /\ Len(cs) = Len(p)
  /\ \A i \in 1..Len(p) : cs[i].inFinally <=> Finalizes(p, i)
LoopsFollow(p, ls) ==
  /\ ToSet(ls) = IdsIn(p, {"loop"})
  /\ \A i, j \in 1..Len(ls) : i < j => ls[i] < ls[j]
StacksFollow(p, d, fs, snaps, s) ==
  /\ Len(fs) = d
  /\ DOMAIN snaps = IdsIn(p, Branching)
  /\ \A i \in 1..Len(p) :
       /\ p[i].kind = "function" => fs[p[i].depth] = p[i].stack
       /\ p[i].kind \in Branching => snaps[p[i].id] = p[i].stack
       /\ p[i].part = "between" => s = p[i].stack
BranchesAt(brs, id) == IF id \in DOMAIN brs THEN brs[id] ELSE <<>>
BranchCount(r, k) ==
  /\ r.part \in {"then", "block"} => k = 0
  /\ r.part \in {"else", "catch"} => k = 1
  /\ r.part = "between" => k = r.cases
  /\ r.part = "case" => k + 1 = r.cases
BranchesFollow(p, brs) ==
  /\ DOMAIN brs \subseteq IdsIn(p, Branching)
  /\ \A i \in 1..Len(p) : BranchCount(p[i], Len(BranchesAt(brs, p[i].id)))

(* Calls have an index of their own; loops are those opened before.        *)
Numbered(calls, k, n) == \A c \in calls : c.index < k /\ c.loops \subseteq 1..n
Sound(xs, k) ==
  \A x \in xs :
    /\ IsFiniteSet(x.open) /\ \A c \in x.open : c.index < k
    /\ \A c, d \in x.open : c.index = d.index => c = d
NodeKnown(r, k) ==
  Numbered(r.stack, k, r.id - 1) /\ Sound(r.saved, k) /\ Sound(r.out, k) /\ Sound(r.thrown, k)
CallsKnown(p, xs, s, k, n) ==
  /\ Numbered(s, k, n) /\ Sound(xs, k)
  /\ \A i \in 1..Len(p) : NodeKnown(p[i], k)

Walk(p, d, n, cs, ls, fs, snaps, brs, s, xs, k) ==
  /\ Syntax(p, d, n) /\ ContextsFollow(p, cs) /\ LoopsFollow(p, ls) /\ StacksFollow(p, d, fs, snaps, s)
  /\ BranchesFollow(p, brs) /\ CallsKnown(p, xs, s, k, n)
WalkInv ==
  /\ Typed
  /\ Walk(path, Place, nodes, contextStack, loopStack, functionStacks, stackSnapshots, branchStacks,
          openerStack, live, stackIndexCounter)

-----------------------------------------------------------------------------
(* Leaks.                                                                  *)
Regular(m) == "irregular" \notin m
Silent(m) == Regular(m) /\ "warned" \notin m /\ ~AllowConditionalClosers

Traced(p, i, s) ==
  \A j \in Around(p, i) : p[j].kind = "loop" => \A c \in s : p[j].id \notin c.loops => c \in p[j].stack
Kept(p, i, s) ==
  \A j \in Around(p, i) : p[j].kind = "loop" => p[j].stack \subseteq s

LeavesFunction(p, t, x) ==
  x.to = Throw \/ \E f \in Around(p, t) : p[f].kind = "function" /\ x.to = p[f].id
(* An execution that leaves the i-th node with calls c of that place.      *)
Outwards(p, t, x) ==
  \/ LeavesFunction(p, t, x) /\ x.open \cap p[t].stack = {}
  \/ \E q \in Around(p, t) \ {t} :
       p[q].kind = "loop" /\ x.to = p[q].id /\ x.open \cap p[t].stack \subseteq p[q].stack
Fits(p, i, x, s) ==
  /\ x.open \subseteq s
  /\ x.to # Here => \E t \in Around(p, i) : p[t].part = "finally" /\ Outwards(p, t, x)

(* Warnings.                                                               *)
Tame(m) == m \cap {"irregular", "beyond", "wrong"} = {}
Stay(xs) == \A x \in xs : x.to = Here
Over(xs, s) == \E x \in xs : s \subseteq x.open
Under(xs, s) == \E x \in xs : x.open \subseteq s
Level(xs, s) == Over(xs, s) /\ Under(xs, s)
Uneven(xs) == \E x, y \in xs : Cardinality(x.open) # Cardinality(y.open)

(* A place: what holds there of the executions xs and the stack s, m being *)
(* the marks of the function.                                              *)
PlaceInv(p, i, xs, s, m) ==
  /\ Traced(p, i, s)
  /\ Silent(m) => Kept(p, i, s) /\ \A x \in xs : Fits(p, i, x, s)
  /\ Tame(m) => Stay(xs)

InBranch(x, bs) == \E b \in 1..Len(bs) : x.open \subseteq bs[b]
BranchInv(p, i, s, m) ==
  /\ Traced(p, i, s)
  /\ Silent(m) => Kept(p, i, s)
  /\ Regular(m) /\ p[i].kind \in {"switch", "try"} => s \subseteq p[i].stack
  /\ Tame(m) /\ p[i].part \notin {"finally", "between"} => Level(p[i].out, s)

(* What may be in out, and in thrown, of the i-th node.                    *)
OutFit(p, i, bs, x) ==
  /\ p[i].kind = "loop" => x.to = Here /\ x.open \subseteq p[i].stack
  /\ p[i].part # "then"
  /\ p[i].part = "else" => Fits(p, i, x, bs[1])
  /\ p[i].kind = "switch" => x.to = Here
  /\ p[i].part \in {"block", "catch"} =>
       /\ x.open \subseteq p[i].stack
       /\ x.to # Here => p[i].finally /\ Outwards(p, i, x)
       /\ ~ p[i].finally => InBranch(x, bs)
ThrownFit(r, x) == r.part = "block" => x.to = Here /\ x.open \subseteq r.stack
OutFits(p, i, bs) ==
  /\ p[i].kind = "function" => ~ p[i].leaks
  /\ \A x \in p[i].out : OutFit(p, i, bs, x)
  /\ \A x \in p[i].thrown : ThrownFit(p[i], x)
OutStays(r) ==
  /\ Stay(r.out) /\ Stay(r.thrown)
  /\ r.part = "block" /\ r.catch => Level(r.thrown, r.stack)
NodeInv(p, i, bs, m) ==
  /\ \A b \in 1..Len(bs) : BranchInv(p, i, bs[b], m)
  /\ Silent(m) => OutFits(p, i, bs)
  /\ Tame(m) => OutStays(p[i])

(* A node r that the i-th one holds: what was before it.                   *)
SavedInv(p, i, r, bs, m) ==
  /\ PlaceInv(p, i, r.saved, r.stack, m)
  /\ Tame(m) => Level(r.saved, r.stack)
  /\ Silent(m) /\ p[i].kind = "switch" => \A x \in p[i].out : InBranch(x, bs)
(* A switch whose case was left by a break, and one between its cases.     *)
TopInv(r, bs, xs, s, m) ==
  /\ Silent(m) /\ r.kind = "switch" => \A x \in r.out :
       InBranch(x, bs) \/ (r.part = "case" /\ xs = {} /\ x.open \subseteq s)
  /\ Silent(m) /\ r.part = "between" => \A x \in xs : InBranch(x, bs)
  /\ Tame(m) /\ r.part = "between" => \A b \in 1..Len(bs) : Level(r.out \cup xs, bs[b])
  /\ Tame(m) /\ r.part # "between" =>
       Level(xs, s) \/ (r.part = "case" /\ xs = {} /\ Level(r.out, s))

NodesFlow(p, brs, a) ==
  \A i \in 1..Len(p) : NodeInv(p, i, BranchesAt(brs, p[i].id), a[p[i].depth])
SavedFlow(p, brs, a) ==
  \A i, j \in 1..Len(p) : j = i + 1 => SavedInv(p, i, p[j], BranchesAt(brs, p[i].id), a[p[i].depth])
TopFlow(p, brs, a, xs, s) ==
  p # <<>> =>
    /\ PlaceInv(p, Len(p), xs, s, a[p[Len(p)].depth])
    /\ TopInv(p[Len(p)], BranchesAt(brs, p[Len(p)].id), xs, s, a[p[Len(p)].depth])
FlowInv ==
  /\ NodesFlow(path, branchStacks, account)
  /\ SavedFlow(path, branchStacks, account)
  /\ TopFlow(path, branchStacks, account, live, openerStack)

(* Where the rule has warned of a tame function, two executions differ in  *)
(* the number of their open calls, and will to the end.                    *)
UnevenAt(p, xs, d) ==
  \/ p[Len(p)].depth = d /\ Uneven(xs)
  \/ /\ p[Len(p)].depth = d /\ p[Len(p)].part = "between" /\ p[Len(p)].cases = 0
     /\ Uneven(p[Len(p)].saved)
  \/ \E i, j \in 1..Len(p) : j = i + 1 /\ p[j].kind = "function" /\ p[i].depth = d /\ Uneven(p[j].saved)
  \/ \E i \in 1..Len(p) : p[i].kind # "function" /\ p[i].part # "finally" /\ p[i].depth = d /\ Uneven(p[i].out)
WarnedInv == \A d \in 1..Place : Tame(account[d]) /\ "warned" \in account[d] => UnevenAt(path, live, d)

IInv == WalkInv /\ FlowInv /\ WarnedInv

-----------------------------------------------------------------------------
(* Sequences and maps.                                                     *)
LEMMA FrontIs ==
  ASSUME NEW S, NEW s \in Seq(S), s # <<>>
  PROVE  /\ Front(s) \in Seq(S) /\ Len(s) \in Nat \ {0} /\ Len(Front(s)) = Len(s) - 1
         /\ \A i \in 1..Len(s) - 1 : Front(s)[i] = s[i]
         /\ Last(s) = s[Len(s)] /\ Last(s) \in S
<1>1. Len(s) \in Nat \ {0}
  BY EmptySeq
<1> DEFINE n == Len(s) - 1
           f == SubSeq(s, 1, n)
<1>2. n \in Nat /\ Len(s) = n + 1
  BY <1>1
<1> HIDE DEF n
<1>3. \A i \in 1..n : s[i] \in S
  BY <1>2, ElementOfSeq
<1>4. f \in Seq(S) /\ Len(f) = (IF 1 <= n THEN n - 1 + 1 ELSE 0) /\ \A i \in 1..n - 1 + 1 : f[i] = s[1 + i - 1]
  BY <1>2, <1>3, SubSeqProperties
<1> HIDE DEF f
<1>5. Len(f) = n /\ \A i \in 1..n : f[i] = s[i]
  BY <1>2, <1>4
<1>6. s[Len(s)] \in S
  BY <1>1, ElementOfSeq
<1>7. Front(s) = f
  BY Zenon DEF Front, f, n
<1> QED BY <1>1, <1>2, <1>4, <1>5, <1>6, <1>7 DEF Last, n

LEMMA AppendIs ==
  ASSUME NEW S, NEW s \in Seq(S), NEW e \in S
  PROVE  /\ Append(s, e) \in Seq(S) /\ Append(s, e) # <<>>
         /\ Len(s) \in Nat /\ Len(Append(s, e)) = Len(s) + 1
         /\ \A i \in 1..Len(s) : Append(s, e)[i] = s[i]
         /\ Append(s, e)[Len(s) + 1] = e
  BY AppendProperties, LenProperties

LEMMA MapTypes ==
  ASSUME NEW T, NEW map, map \in [DOMAIN map -> T], NEW id, NEW value \in T
  PROVE  /\ With(map, id, value) \in [DOMAIN With(map, id, value) -> T]
         /\ Without(map, id) \in [DOMAIN Without(map, id) -> T]
  BY DEF With, Without

LEMMA ElementsOf ==
  ASSUME NEW S, NEW s \in Seq(S)
  PROVE  ToSet(s) = {s[i] : i \in 1..Len(s)} /\ Len(s) \in Nat
  BY LenProperties DEF ToSet

-----------------------------------------------------------------------------
(* Nodes of two paths that differ in the executions only that jumped to    *)
(* them, and in the part of the last one.                                  *)
Alike(r, s) ==
  /\ s.id = r.id /\ s.kind = r.kind /\ s.depth = r.depth /\ s.saved = r.saved /\ s.stack = r.stack
  /\ s.catch = r.catch /\ s.finally = r.finally
SamePart(r, s) == s.part = r.part /\ s.default = r.default /\ s.cases = r.cases
SameOut(r, s) == s.out = r.out /\ s.thrown = r.thrown /\ s.leaks = r.leaks
Follows(p, q) ==
  /\ p \in Seq(SyntaxNode) /\ q \in Seq(SyntaxNode) /\ Len(q) = Len(p)
  /\ \A i \in 1..Len(p) : Alike(p[i], q[i])
  /\ \A i \in 1..Len(p) : i < Len(p) => SamePart(p[i], q[i])

(* A path of which the last node is another one of the same kind.          *)
LEMMA TopReplaced ==
  ASSUME NEW p \in Seq(SyntaxNode), p # <<>>, NEW r \in SyntaxNode, Alike(p[Len(p)], r)
  PROVE  LET q == [p EXCEPT ![Len(p)] = r]
         IN  /\ Follows(p, q) /\ q # <<>> /\ q[Len(p)] = r /\ Len(p) \in Nat \ {0}
             /\ \A i \in 1..Len(p) : i < Len(p) => q[i] = p[i]
<1> DEFINE q == [p EXCEPT ![Len(p)] = r]
<1>1. Len(p) \in Nat \ {0}
  BY EmptySeq
<1>2. /\ q \in Seq(SyntaxNode) /\ Len(q) = Len(p)
      /\ \A j \in 1..Len(p) : q[j] = IF j = Len(p) THEN r ELSE p[j]
  BY <1>1, ExceptSeq
<1> HIDE DEF q
<1>3. q # <<>>
  BY <1>1, <1>2, EmptySeq
<1>4. \A i \in 1..Len(p) : Alike(p[i], q[i])
  BY <1>2 DEF Alike
<1>5. \A i \in 1..Len(p) : i < Len(p) => SamePart(p[i], q[i])
  BY <1>2 DEF SamePart
<1>6. Follows(p, q)
  BY <1>2, <1>4, <1>5 DEF Follows
<1>7. q[Len(p)] = r /\ \A i \in 1..Len(p) : i < Len(p) => q[i] = p[i]
  BY <1>1, <1>2
<1> QED BY <1>1, <1>3, <1>6, <1>7, Zenon DEF q

LEMMA AroundStays ==
  ASSUME NEW p, NEW q, Follows(p, q), NEW i \in 1..Len(p)
  PROVE  Around(q, i) = Around(p, i)
  BY LenProperties DEF Around, Follows, Alike

LEMMA IdsStay ==
  ASSUME NEW p, NEW q, Follows(p, q), NEW kinds
  PROVE  IdsIn(q, kinds) = IdsIn(p, kinds)
  BY DEF IdsIn, Follows, Alike

(* The shape of a path, when its last node changes, when a node is entered *)
(* and when one is left.                                                   *)
LEMMA SyntaxStays ==
  ASSUME NEW p, NEW q, NEW d, NEW n, Syntax(p, d, n), Follows(p, q), p # <<>>, NodeShape(q[Len(q)])
  PROVE  Syntax(q, d, n)
<1>1. Len(p) \in Nat \ {0} /\ Len(q) = Len(p) /\ q # <<>>
  BY EmptySeq DEF Follows
<1>2. d = q[Len(q)].depth
  BY <1>1 DEF Syntax, Follows, Alike
<1>3. ASSUME NEW i \in 1..Len(p)
      PROVE  NodeShape(q[i])
  <2>1. CASE i < Len(p)
    BY <2>1 DEF Syntax, Follows, Alike, SamePart, NodeShape
  <2>2. CASE i = Len(p)
    BY <2>2, <1>1
  <2> QED BY <2>1, <2>2, <1>1
<1>4. ASSUME NEW i \in 1..Len(p)
      PROVE  NodePlace(q, i) /\ q[i].id <= n
  <2>1. Around(q, i) = Around(p, i)
    BY AroundStays
  <2>2. NodePlace(p, i) /\ p[i].id <= n
    BY DEF Syntax
  <2>3. \A f \in Around(p, i) : f \in 1..Len(p)
    BY <1>1 DEF Around
  <2>4. \A j \in 1..Len(p) : Alike(p[j], q[j])
    BY DEF Follows
  <2>5. i = 1 \/ i - 1 \in 1..Len(p)
    BY <1>1
  <2> QED BY <2>1, <2>2, <2>3, <2>4, <2>5 DEF NodePlace, Alike
<1>5. ASSUME NEW i \in 1..Len(p), NEW j \in 1..Len(p), i < j
      PROVE  Before(q[i], q[j])
  <2>1. Before(p[i], p[j]) /\ Alike(p[i], q[i]) /\ Alike(p[j], q[j])
    BY <1>5 DEF Syntax, Follows
  <2>2. SamePart(p[i], q[i])
    BY <1>5, <1>1 DEF Follows
  <2> QED BY <2>1, <2>2 DEF Before, Alike, SamePart
<1> QED BY <1>1, <1>2, <1>3, <1>4, <1>5 DEF Syntax

(* Where a node may be entered.                                            *)
Enterable(p, d, r, n) ==
  /\ r \in SyntaxNode /\ r.id = n + 1 /\ NodeShape(r)
  /\ p # <<>> => p[Len(p)].part # "between"
  /\ r.kind = "function" => r.depth = d + 1
  /\ r.kind # "function" => p # <<>> /\ r.depth = d
  /\ r.kind = "try" => ~ Finalizes(p, Len(p))

LEMMA AroundPush ==
  ASSUME NEW p \in Seq(SyntaxNode), NEW r \in SyntaxNode
  PROVE  /\ \A i \in 1..Len(p) : Around(Append(p, r), i) = Around(p, i)
         /\ p # <<>> /\ r.depth = p[Len(p)].depth =>
              Around(Append(p, r), Len(p) + 1) = Around(p, Len(p)) \cup {Len(p) + 1}
<1>1. /\ Len(p) \in Nat
      /\ \A i \in 1..Len(p) : Append(p, r)[i] = p[i]
      /\ Append(p, r)[Len(p) + 1] = r
  BY AppendIs
<1>2. p # <<>> => Len(p) \in 1..Len(p)
  BY <1>1, EmptySeq
<1> HIDE DEF Around
<1>3. ASSUME NEW i \in 1..Len(p)
      PROVE  Around(Append(p, r), i) = Around(p, i)
  BY <1>1 DEF Around
<1>4. ASSUME p # <<>>, r.depth = p[Len(p)].depth
      PROVE  Around(Append(p, r), Len(p) + 1) = Around(p, Len(p)) \cup {Len(p) + 1}
  BY <1>1, <1>2, <1>4 DEF Around
<1> QED BY <1>3, <1>4

LEMMA SyntaxPush ==
  ASSUME NEW p \in Seq(SyntaxNode), NEW d, NEW n \in Nat, NEW r, Syntax(p, d, n), Enterable(p, d, r, n)
  PROVE  Syntax(Append(p, r), r.depth, n + 1)
<1> DEFINE q == Append(p, r)
<1>1. /\ q \in Seq(SyntaxNode) /\ q # <<>> /\ Len(p) \in Nat /\ Len(q) = Len(p) + 1 /\ r \in SyntaxNode
      /\ \A i \in 1..Len(p) : q[i] = p[i]
      /\ q[Len(p) + 1] = r
  BY AppendIs DEF Enterable
<1>2. \A i \in 1..Len(p) : p[i] \in SyntaxNode
  BY ElementOfSeq
<1>3. p # <<>> => Len(p) \in 1..Len(p) /\ d = p[Len(p)].depth
  BY <1>1, EmptySeq DEF Syntax
<1>4. /\ \A i \in 1..Len(p) : Around(q, i) = Around(p, i)
      /\ p # <<>> /\ r.depth = p[Len(p)].depth =>
           Around(q, Len(p) + 1) = Around(p, Len(p)) \cup {Len(p) + 1}
  BY <1>1, AroundPush
<1> HIDE DEF q
<1>5. ASSUME NEW i \in 1..Len(p)
      PROVE  NodeShape(q[i]) /\ NodePlace(q, i) /\ q[i].id <= n + 1
  <2>1. NodeShape(p[i]) /\ NodePlace(p, i) /\ p[i].id <= n
    BY DEF Syntax
  <2>2. \A f \in Around(p, i) : f \in 1..Len(p)
    BY <1>1 DEF Around
  <2>3. i = 1 \/ i - 1 \in 1..Len(p)
    BY <1>1
  <2>5. p[i].id \in Nat
    BY <1>2 DEF SyntaxNode
  <2>4. p[i].id \in Nat /\ p[i].id <= n + 1
    BY <2>1, <2>5
  <2>6. /\ q[i] = p[i] /\ Around(q, i) = Around(p, i) /\ (i # 1 => q[i - 1] = p[i - 1])
        /\ \A f \in Around(p, i) : q[f] = p[f]
    BY <1>1, <1>4, <2>2, <2>3
  <2>7. NodePlace(q, i)
    BY <2>1, <2>3, <2>6 DEF NodePlace
  <2> QED BY <2>1, <2>4, <2>6, <2>7
<1>6. NodeShape(r) /\ r.id <= n + 1
  BY DEF Enterable
<1>7. NodePlace(q, Len(p) + 1)
  <2>1. CASE r.kind = "function"
    <3>1. Len(p) + 1 \in Around(q, Len(p) + 1)
      BY <1>1 DEF Around
    <3>2. p = <<>> => Len(p) = 0 /\ d = 0
      BY EmptySeq DEF Syntax
    <3>3. q[Len(p) + 1].depth = d + 1
      BY <2>1, <1>1 DEF Enterable
    <3>4. CASE p = <<>>
      BY <3>1, <3>2, <3>3, <3>4, <2>1, <1>1 DEF NodePlace
    <3>5. CASE p # <<>>
      BY <3>1, <3>3, <3>5, <2>1, <1>1, <1>3 DEF NodePlace
    <3> QED BY <3>4, <3>5
  <2>2. CASE r.kind # "function"
    <3>1. p # <<>> /\ r.depth = p[Len(p)].depth /\ Len(p) \in 1..Len(p)
      BY <2>2, <1>3 DEF Enterable
    <3>2. PICK f \in Around(p, Len(p)) : p[f].kind = "function"
      BY <3>1 DEF Syntax, NodePlace
    <3>3. f \in Around(q, Len(p) + 1) /\ q[f].kind = "function"
      BY <3>1, <3>2, <1>1, <1>4 DEF Around
    <3> QED BY <3>1, <3>3, <2>2, <1>1 DEF NodePlace
  <2> QED BY <2>1, <2>2
<1>8. ASSUME NEW i \in 1..Len(p), NEW j \in 1..Len(p), i < j
      PROVE  Before(q[i], q[j])
  BY <1>8, <1>1 DEF Syntax
<1>9. ASSUME NEW i \in 1..Len(p)
      PROVE  Before(q[i], q[Len(p) + 1])
  <2>1. Len(p) \in 1..Len(p) /\ p # <<>>
    BY <1>1, EmptySeq
  <2>11. p[i] \in SyntaxNode /\ p[Len(p)] \in SyntaxNode /\ p[i].id <= n
    BY <1>2, <2>1 DEF Syntax
  <2>12. p[i].id \in 1..MaxNodes /\ p[i].depth \in Nat /\ p[Len(p)].depth \in Nat
    BY Zenon, <2>11 DEF SyntaxNode
  <2>2. p[i].id <= n /\ p[i].id \in Nat /\ p[i].depth \in Nat /\ p[Len(p)].depth \in Nat
    BY <2>11, <2>12
  <2>3. i = Len(p) \/ Before(p[i], p[Len(p)])
    BY <2>1, <1>1 DEF Syntax
  <2>4. p[i].depth <= p[Len(p)].depth /\ p[i].part # "between"
    BY <2>1, <2>2, <2>3 DEF Enterable, Before
  <2>10. r.depth = d \/ r.depth = d + 1
    BY DEF Enterable
  <2>5. r.id = n + 1 /\ r.depth \in Nat /\ p[Len(p)].depth <= r.depth
    BY <1>3, <2>1, <2>2, <2>10 DEF Enterable
  <2>6. r.kind = "function" => p[i].depth < r.depth
    BY <1>3, <2>1, <2>2, <2>4 DEF Enterable
  <2>7. ASSUME r.kind = "try", p[i].depth = r.depth
        PROVE  p[i].part # "finally"
    <3>1. r.depth = p[Len(p)].depth
      BY <2>7, <1>3, <2>1 DEF Enterable
    <3>2. i \in Around(p, Len(p))
      BY <2>1, <2>7, <3>1, <1>1 DEF Around
    <3> QED BY <3>2, <2>7 DEF Enterable, Finalizes
  <2>8. p[i].id < r.id /\ p[i].depth <= r.depth
    BY <2>2, <2>4, <2>5
  <2> QED BY <2>4, <2>6, <2>7, <2>8, <1>1 DEF Before
<1>10. \A i \in 1..Len(q) : i \in 1..Len(p) \/ i = Len(p) + 1
  BY <1>1
<1>11. \A i, j \in 1..Len(q) : i < j => Before(q[i], q[j])
  BY <1>1, <1>8, <1>9, <1>10
<1>12. \A i \in 1..Len(q) : NodeShape(q[i]) /\ NodePlace(q, i) /\ q[i].id <= n + 1
  BY <1>1, <1>5, <1>6, <1>7, <1>10
<1>13. q[Len(q)] = r
  BY <1>1
<1> QED BY <1>1, <1>11, <1>12, <1>13 DEF Syntax, q

LEMMA AroundPop ==
  ASSUME NEW p \in Seq(SyntaxNode), p # <<>>
  PROVE  \A i \in 1..Len(p) - 1 : Around(Front(p), i) = Around(p, i)
<1>1. \A i \in 1..Len(p) - 1 : Front(p)[i] = p[i]
  BY FrontIs
<1>2. Len(p) \in Nat
  BY FrontIs
<1> QED BY <1>1, <1>2 DEF Around

LEMMA SyntaxPop ==
  ASSUME NEW p \in Seq(SyntaxNode), p # <<>>, NEW d, NEW n, Syntax(p, d, n)
  PROVE  Syntax(Front(p), IF p[Len(p)].kind = "function" THEN d - 1 ELSE d, n)
<1> DEFINE q == Front(p)
           e == IF p[Len(p)].kind = "function" THEN d - 1 ELSE d
<1>1. /\ q \in Seq(SyntaxNode) /\ Len(p) \in Nat \ {0} /\ Len(q) = Len(p) - 1
      /\ \A i \in 1..Len(p) - 1 : q[i] = p[i]
  BY FrontIs
<1>2. \A i \in 1..Len(p) - 1 : Around(q, i) = Around(p, i)
  BY AroundPop
<1>3. d = p[Len(p)].depth /\ NodePlace(p, Len(p))
  BY <1>1 DEF Syntax
<1>4. \A i \in 1..Len(p) : p[i] \in SyntaxNode
  BY ElementOfSeq
<1> HIDE DEF q
<1>5. e = IF q = <<>> THEN 0 ELSE q[Len(q)].depth
  <2>1. CASE Len(p) = 1
    <3>1. q = <<>>
      BY <2>1, <1>1, EmptySeq
    <3>2. p[1].kind = "function" /\ p[1].depth = 1
      BY <2>1, <1>3 DEF NodePlace
    <3> QED BY <3>1, <3>2, <2>1, <1>3
  <2>2. CASE Len(p) # 1
    <3>1. q # <<>> /\ Len(q) \in 1..Len(p) /\ Len(q) = Len(p) - 1
      BY <2>2, <1>1, EmptySeq
    <3>5. Len(p) - 1 \in 1..Len(p) - 1 /\ Len(p) - 1 \in 1..Len(p)
      BY <2>2, <1>1
    <3>6. p[Len(p) - 1] \in SyntaxNode
      BY <3>5, <1>4
    <3>2. q[Len(q)] = p[Len(p) - 1] /\ p[Len(p) - 1].depth \in Nat
      BY <3>1, <3>5, <3>6, <1>1 DEF SyntaxNode
    <3>3. p[Len(p)].kind = "function" => d = p[Len(p) - 1].depth + 1
      BY <2>2, <1>3 DEF NodePlace
    <3>4. p[Len(p)].kind # "function" => d = p[Len(p) - 1].depth
      BY <1>3 DEF NodePlace
    <3> QED BY <3>1, <3>2, <3>3, <3>4
  <2> QED BY <2>1, <2>2
<1>6. ASSUME NEW i \in 1..Len(q)
      PROVE  NodeShape(q[i]) /\ NodePlace(q, i) /\ q[i].id <= n
  <2>1. i \in 1..Len(p) /\ i \in 1..Len(p) - 1
    BY <1>1
  <2>2. NodeShape(p[i]) /\ NodePlace(p, i) /\ p[i].id <= n
    BY <2>1 DEF Syntax
  <2>3. \A f \in Around(p, i) : f \in 1..Len(p) - 1
    BY <1>1, <2>1 DEF Around
  <2>4. i = 1 \/ i - 1 \in 1..Len(p) - 1
    BY <1>1
  <2>5. /\ q[i] = p[i] /\ Around(q, i) = Around(p, i) /\ (i # 1 => q[i - 1] = p[i - 1])
        /\ \A f \in Around(p, i) : q[f] = p[f]
    BY <1>1, <1>2, <2>1, <2>3, <2>4
  <2>6. NodePlace(q, i)
    BY <2>2, <2>4, <2>5 DEF NodePlace
  <2> QED BY <2>2, <2>5, <2>6
<1>7. ASSUME NEW i \in 1..Len(q), NEW j \in 1..Len(q), i < j
      PROVE  Before(q[i], q[j])
  <2>1. i \in 1..Len(p) /\ i \in 1..Len(p) - 1 /\ j \in 1..Len(p) /\ j \in 1..Len(p) - 1
    BY <1>1
  <2> QED BY <2>1, <1>1, <1>7 DEF Syntax
<1> QED BY <1>5, <1>6, <1>7 DEF Syntax, q

-----------------------------------------------------------------------------
(* Ids, contexts and loops.                                                *)
LEMMA IdsDiffer ==
  ASSUME NEW p \in Seq(SyntaxNode), NEW d, NEW n, Syntax(p, d, n), NEW i \in 1..Len(p), NEW j \in 1..Len(p)
  PROVE  /\ p[i].id \in 1..MaxNodes
         /\ i < j => p[i].id < p[j].id
         /\ i # j => p[i].id # p[j].id
<1>1. p[i] \in SyntaxNode /\ p[j] \in SyntaxNode /\ Len(p) \in Nat
  BY ElementOfSeq, LenProperties
<1>2. p[i].id \in 1..MaxNodes /\ p[j].id \in 1..MaxNodes /\ MaxNodes \in Nat
  BY <1>1, PairedCallsAssumption DEF SyntaxNode
<1>3. (i < j => p[i].id < p[j].id) /\ (j < i => p[j].id < p[i].id)
  BY DEF Syntax, Before
<1>4. i < j \/ j < i \/ i = j
  BY <1>1
<1> QED BY <1>2, <1>3, <1>4

LEMMA IdsPush ==
  ASSUME NEW p \in Seq(SyntaxNode), NEW r \in SyntaxNode, NEW kinds
  PROVE  IdsIn(Append(p, r), kinds) = IdsIn(p, kinds) \cup (IF r.kind \in kinds THEN {r.id} ELSE {})
<1> DEFINE q == Append(p, r)
<1>1. /\ Len(p) \in Nat /\ Len(q) = Len(p) + 1 /\ \A i \in 1..Len(p) : q[i] = p[i]
      /\ q[Len(p) + 1] = r
  BY AppendIs
<1> HIDE DEF q
<1>2. 1..Len(q) = 1..Len(p) \cup {Len(p) + 1}
  BY <1>1
<1>3. IdsIn(q, kinds) \subseteq IdsIn(p, kinds) \cup (IF r.kind \in kinds THEN {r.id} ELSE {})
  BY <1>1, <1>2 DEF IdsIn
<1>4. IdsIn(p, kinds) \subseteq IdsIn(q, kinds)
  BY <1>1, <1>2 DEF IdsIn
<1>5. r.kind \in kinds => r.id \in IdsIn(q, kinds)
  BY <1>1, <1>2 DEF IdsIn
<1> QED BY <1>3, <1>4, <1>5 DEF q

LEMMA IdsPop ==
  ASSUME NEW p \in Seq(SyntaxNode), p # <<>>, NEW d, NEW n, Syntax(p, d, n), NEW kinds
  PROVE  IdsIn(Front(p), kinds) = IdsIn(p, kinds) \ (IF p[Len(p)].kind \in kinds THEN {p[Len(p)].id} ELSE {})
<1> DEFINE q == Front(p)
<1>1. Len(p) \in Nat \ {0} /\ Len(q) = Len(p) - 1 /\ \A i \in 1..Len(p) - 1 : q[i] = p[i]
  BY FrontIs
<1> HIDE DEF q
<1>2. 1..Len(p) = 1..Len(q) \cup {Len(p)} /\ \A i \in 1..Len(q) : i \in 1..Len(p) - 1 /\ i # Len(p)
  BY <1>1
<1>3. \A i \in 1..Len(q) : p[i].id # p[Len(p)].id
  BY <1>2, IdsDiffer
<1>4. IdsIn(q, kinds) \subseteq IdsIn(p, kinds) \ {p[Len(p)].id}
  BY <1>1, <1>2, <1>3 DEF IdsIn
<1>5. IdsIn(p, kinds) \subseteq IdsIn(q, kinds) \cup (IF p[Len(p)].kind \in kinds THEN {p[Len(p)].id} ELSE {})
  BY <1>1, <1>2 DEF IdsIn
<1> QED BY <1>4, <1>5 DEF q

LEMMA IdsKnown ==
  ASSUME NEW p \in Seq(SyntaxNode), NEW d, NEW n, Syntax(p, d, n), NEW kinds, NEW id \in IdsIn(p, kinds)
  PROVE  id <= n /\ id \in Nat /\ \E i \in 1..Len(p) : id = p[i].id /\ p[i].kind \in kinds
<1>1. PICK i \in 1..Len(p) : id = p[i].id /\ p[i].kind \in kinds
  BY DEF IdsIn
<1>2. p[i].id <= n /\ p[i].id \in 1..MaxNodes
  BY IdsDiffer DEF Syntax
<1> QED BY <1>1, <1>2, PairedCallsAssumption

(* In the part of a path that holds the i-th node a finally block remains  *)
(* one; entered and left nodes are none.                                   *)
LEMMA ContextsStay ==
  ASSUME NEW p, NEW q, NEW cs, Follows(p, q), p # <<>>, ContextsFollow(p, cs),
         q[Len(q)].part = "finally" <=> p[Len(p)].part = "finally"
  PROVE  ContextsFollow(q, cs)
<1>1. Len(p) \in Nat \ {0} /\ Len(q) = Len(p)
  BY EmptySeq DEF Follows
<1>2. ASSUME NEW i \in 1..Len(p)
      PROVE  Finalizes(q, i) <=> Finalizes(p, i)
  <2>1. Around(q, i) = Around(p, i)
    BY AroundStays
  <2>2. ASSUME NEW j \in Around(p, i)
        PROVE  q[j].part = "finally" <=> p[j].part = "finally"
    <3>1. j \in 1..Len(p) /\ (j < Len(p) \/ j = Len(p))
      BY <1>1 DEF Around
    <3> QED BY <3>1, <1>1 DEF Follows, SamePart
  <2> QED BY <2>1, <2>2 DEF Finalizes
<1> QED BY <1>1, <1>2 DEF ContextsFollow

LEMMA FinalizesPush ==
  ASSUME NEW p \in Seq(SyntaxNode), NEW r \in SyntaxNode, NEW d, NEW n, Syntax(p, d, n),
         Syntax(Append(p, r), r.depth, n + 1), r.part # "finally", r.kind # "function" => r.depth = d
  PROVE  /\ \A i \in 1..Len(p) : Finalizes(Append(p, r), i) <=> Finalizes(p, i)
         /\ r.kind = "function" => ~ Finalizes(Append(p, r), Len(p) + 1)
         /\ r.kind # "function" => (p # <<>> /\ (Finalizes(Append(p, r), Len(p) + 1) <=> Finalizes(p, Len(p))))
<1> DEFINE q == Append(p, r)
<1>1. /\ Len(p) \in Nat /\ Len(q) = Len(p) + 1 /\ \A i \in 1..Len(p) : q[i] = p[i]
      /\ q[Len(p) + 1] = r
  BY AppendIs
<1>2. /\ \A i \in 1..Len(p) : Around(q, i) = Around(p, i)
      /\ p # <<>> /\ r.depth = p[Len(p)].depth => Around(q, Len(p) + 1) = Around(p, Len(p)) \cup {Len(p) + 1}
  BY AroundPush
<1>3. Syntax(q, r.depth, n + 1)
  BY DEF q
<1> HIDE DEF q
<1>4. ASSUME NEW i \in 1..Len(p)
      PROVE  /\ Finalizes(q, i) <=> Finalizes(p, i)
             /\ \A j \in Around(p, i) : q[j] = p[j]
  <2>1. \A j \in Around(p, i) : q[j] = p[j]
    BY <1>1 DEF Around
  <2> QED BY <2>1, <1>2 DEF Finalizes
<1>5. ASSUME r.kind = "function"
      PROVE  ~ Finalizes(q, Len(p) + 1)
  <2>1. \A j \in 1..Len(p) : Before(q[j], r)
    BY <1>1, <1>3 DEF Syntax
  <2>2. \A j \in 1..Len(p) : q[j].depth < r.depth
    BY <2>1, <1>5 DEF Before
  <2>3. r.depth \in Nat
    BY DEF SyntaxNode
  <2>4. \A j \in Around(q, Len(p) + 1) : j = Len(p) + 1
    BY <2>2, <2>3, <1>1 DEF Around
  <2> QED BY <2>4, <1>1 DEF Finalizes
<1>6. ASSUME r.kind # "function"
      PROVE  p # <<>> /\ (Finalizes(q, Len(p) + 1) <=> Finalizes(p, Len(p)))
  <2>1. NodePlace(q, Len(p) + 1)
    BY <1>1, <1>3 DEF Syntax
  <2>2. Len(p) >= 1
    BY <2>1, <1>1, <1>6 DEF NodePlace
  <2>3. p # <<>> /\ Len(p) \in 1..Len(p)
    BY <2>2, <1>1, EmptySeq
  <2>4. d = p[Len(p)].depth
    BY <2>3 DEF Syntax
  <2> QED BY <2>3, <2>4, <1>1, <1>2, <1>4, <1>6 DEF Finalizes
<1> QED BY <1>4, <1>5, <1>6 DEF q

LEMMA ContextsPush ==
  ASSUME NEW p \in Seq(SyntaxNode), NEW r \in SyntaxNode, NEW cs \in Seq(Contexts), NEW c \in Contexts,
         ContextsFollow(p, cs),
         \A i \in 1..Len(p) : Finalizes(Append(p, r), i) <=> Finalizes(p, i),
         c.inFinally <=> Finalizes(Append(p, r), Len(p) + 1)
  PROVE  ContextsFollow(Append(p, r), Append(cs, c))
<1> DEFINE q == Append(p, r)
           ds == Append(cs, c)
<1>1. Len(p) \in Nat /\ Len(q) = Len(p) + 1
  BY AppendIs
<1>2. /\ Len(cs) = Len(p) /\ Len(ds) = Len(cs) + 1 /\ \A i \in 1..Len(cs) : ds[i] = cs[i]
      /\ ds[Len(cs) + 1] = c
  BY AppendIs DEF ContextsFollow
<1>3. /\ \A i \in 1..Len(p) : Finalizes(q, i) <=> cs[i].inFinally
      /\ c.inFinally <=> Finalizes(q, Len(p) + 1)
  BY DEF ContextsFollow
<1> HIDE DEF q, ds
<1>4. \A i \in 1..Len(q) : i \in 1..Len(p) \/ i = Len(p) + 1
  BY <1>1
<1>5. \A i \in 1..Len(q) : ds[i].inFinally <=> Finalizes(q, i)
  BY <1>1, <1>2, <1>3, <1>4
<1> QED BY <1>1, <1>2, <1>5 DEF ContextsFollow, q, ds

LEMMA ContextsPop ==
  ASSUME NEW p \in Seq(SyntaxNode), p # <<>>, NEW cs \in Seq(Contexts), ContextsFollow(p, cs)
  PROVE  ContextsFollow(Front(p), Front(cs)) /\ Front(cs) \in Seq(Contexts) /\ cs # <<>>
<1> DEFINE q == Front(p)
           ds == Front(cs)
<1>1. Len(p) \in Nat \ {0} /\ Len(q) = Len(p) - 1 /\ \A i \in 1..Len(p) - 1 : q[i] = p[i]
  BY FrontIs
<1>2. Len(cs) = Len(p) /\ cs # <<>>
  BY <1>1, EmptySeq DEF ContextsFollow
<1>3. ds \in Seq(Contexts) /\ Len(ds) = Len(cs) - 1 /\ \A i \in 1..Len(cs) - 1 : ds[i] = cs[i]
  BY <1>2, FrontIs
<1>4. \A i \in 1..Len(p) - 1 : Around(q, i) = Around(p, i)
  BY AroundPop
<1> HIDE DEF q, ds
<1>5. ASSUME NEW i \in 1..Len(q)
      PROVE  ds[i].inFinally <=> Finalizes(q, i)
  <2>1. i \in 1..Len(p) - 1 /\ i \in 1..Len(p)
    BY <1>1
  <2>2. \A j \in Around(p, i) : q[j] = p[j]
    BY <2>1, <1>1 DEF Around
  <2>3. cs[i].inFinally <=> Finalizes(p, i)
    BY <2>1 DEF ContextsFollow
  <2> QED BY <2>1, <2>2, <2>3, <1>2, <1>3, <1>4 DEF Finalizes
<1> QED BY <1>1, <1>2, <1>3, <1>5 DEF ContextsFollow, q, ds

(* The parts of a try statement.                                           *)
LEMMA ContextsTurn ==
  ASSUME NEW p, NEW q, NEW d, NEW n, Syntax(p, d, n), Follows(p, q), p # <<>>, p[Len(p)].kind = "try",
         NEW cs \in Seq(Contexts), ContextsFollow(p, cs), NEW b \in BOOLEAN, b <=> q[Len(q)].part = "finally"
  PROVE  LET ds == [cs EXCEPT ![Len(cs)].inFinally = b]
         IN  ds \in Seq(Contexts) /\ ContextsFollow(q, ds)
<1>1. Len(p) \in Nat \ {0} /\ Len(q) = Len(p) /\ Len(cs) = Len(p)
  BY EmptySeq DEF Follows, ContextsFollow
<1>2. cs[Len(cs)] \in Contexts
  BY <1>1, ElementOfSeq
<1> DEFINE c == [cs[Len(cs)] EXCEPT !.inFinally = b]
           ds == [cs EXCEPT ![Len(cs)] = c]
<1>3. c \in Contexts /\ c.inFinally = b
  BY <1>2 DEF Contexts
<1> HIDE DEF c
<1>4. /\ ds \in Seq(Contexts) /\ Len(ds) = Len(cs)
      /\ \A i \in 1..Len(cs) : ds[i] = IF i = Len(cs) THEN c ELSE cs[i]
  BY <1>1, <1>3, ExceptSeq
<1>5. ds = [cs EXCEPT ![Len(cs)].inFinally = b]
  BY DEF c
<1> HIDE DEF ds
<1>6. ASSUME NEW i \in 1..Len(p)
      PROVE  ds[i].inFinally <=> Finalizes(q, i)
  <2>1. Around(q, i) = Around(p, i)
    BY AroundStays
  <2>2. \A j \in Around(p, i) : j \in 1..Len(p) /\ j <= i
    BY <1>1 DEF Around
  <2>3. CASE i < Len(p)
    <3>1. \A j \in Around(p, i) : q[j].part = p[j].part
      BY <2>2, <2>3, <1>1 DEF Follows, SamePart
    <3>2. cs[i].inFinally <=> Finalizes(p, i)
      BY DEF ContextsFollow
    <3>3. ds[i] = cs[i]
      BY <2>3, <1>1, <1>4
    <3> QED BY <3>1, <3>2, <3>3, <2>1 DEF Finalizes
  <2>4. CASE i = Len(p)
    <3>1. ASSUME NEW j \in Around(p, i), j # i
          PROVE  q[j].part # "finally"
      <4>1. j \in 1..Len(p) /\ j < i /\ p[j].depth = p[i].depth
        BY <2>2, <3>1, <1>1 DEF Around
      <4>2. p[j].part # "finally"
        BY <4>1, <2>4 DEF Syntax, Before
      <4> QED BY <4>1, <4>2, <2>4, <1>1 DEF Follows, SamePart
    <3>2. i \in Around(p, i)
      BY <1>1 DEF Around
    <3>3. ds[i].inFinally = b
      BY <2>4, <1>1, <1>3, <1>4
    <3> QED BY <3>1, <3>2, <3>3, <2>1, <2>4, <1>1 DEF Finalizes
  <2> QED BY <2>3, <2>4, <1>1
<1>7. ContextsFollow(q, ds)
  BY <1>1, <1>4, <1>6 DEF ContextsFollow
<1> QED BY <1>4, <1>5, <1>7

LEMMA LoopsStay ==
  ASSUME NEW p, NEW q, NEW ls, Follows(p, q), LoopsFollow(p, ls)
  PROVE  LoopsFollow(q, ls)
  BY IdsStay DEF LoopsFollow

LEMMA LoopsPush ==
  ASSUME NEW p \in Seq(SyntaxNode), NEW r \in SyntaxNode, NEW d, NEW n \in Nat, Syntax(p, d, n),
         r.id = n + 1, NEW ls \in Seq(1..MaxNodes), LoopsFollow(p, ls)
  PROVE  /\ r.kind # "loop" => LoopsFollow(Append(p, r), ls)
         /\ r.kind = "loop" => LoopsFollow(Append(p, r), Append(ls, n + 1)) /\ Append(ls, n + 1) \in Seq(1..MaxNodes)
<1>1. IdsIn(Append(p, r), {"loop"}) = IdsIn(p, {"loop"}) \cup (IF r.kind \in {"loop"} THEN {r.id} ELSE {})
  BY IdsPush
<1>2. CASE r.kind # "loop"
  BY <1>1, <1>2 DEF LoopsFollow
<1>3. CASE r.kind = "loop"
  <2> DEFINE ms == Append(ls, n + 1)
  <2>1. n + 1 \in 1..MaxNodes
    BY DEF SyntaxNode
  <2>2. /\ ms \in Seq(1..MaxNodes) /\ Len(ls) \in Nat /\ Len(ms) = Len(ls) + 1
        /\ \A i \in 1..Len(ls) : ms[i] = ls[i]
        /\ ms[Len(ls) + 1] = n + 1
    BY <2>1, AppendIs
  <2> HIDE DEF ms
  <2>3. 1..Len(ms) = 1..Len(ls) \cup {Len(ls) + 1}
    BY <2>2
  <2>4. ToSet(ls) = {ls[i] : i \in 1..Len(ls)} /\ ToSet(ms) = {ms[i] : i \in 1..Len(ms)}
    BY <2>2, ElementsOf
  <2>5. ToSet(ms) = ToSet(ls) \cup {n + 1}
    BY <2>2, <2>3, <2>4
  <2>6. ToSet(ms) = IdsIn(Append(p, r), {"loop"})
    BY <2>5, <1>1, <1>3 DEF LoopsFollow
  <2>7. \A i \in 1..Len(ls) : ls[i] \in IdsIn(p, {"loop"})
    BY <2>4 DEF LoopsFollow
  <2>8. \A i \in 1..Len(ls) : ls[i] < n + 1
    BY <2>7, IdsKnown
  <2>9. ASSUME NEW i \in 1..Len(ms), NEW j \in 1..Len(ms), i < j
        PROVE  ms[i] < ms[j]
    <3>1. i \in 1..Len(ls)
      BY <2>2, <2>9
    <3>2. j \in 1..Len(ls) \/ j = Len(ls) + 1
      BY <2>3
    <3> QED BY <3>1, <3>2, <2>2, <2>8, <2>9 DEF LoopsFollow
  <2> QED BY <2>2, <2>6, <2>9, <1>3 DEF LoopsFollow, ms
<1> QED BY <1>2, <1>3

LEMMA LoopsPop ==
  ASSUME NEW p \in Seq(SyntaxNode), p # <<>>, NEW d, NEW n, Syntax(p, d, n),
         NEW ls \in Seq(1..MaxNodes), LoopsFollow(p, ls)
  PROVE  /\ p[Len(p)].kind # "loop" => LoopsFollow(Front(p), ls)
         /\ p[Len(p)].kind = "loop" => LoopsFollow(Front(p), Front(ls)) /\ Front(ls) \in Seq(1..MaxNodes)
<1>1. IdsIn(Front(p), {"loop"}) = IdsIn(p, {"loop"}) \ (IF p[Len(p)].kind \in {"loop"} THEN {p[Len(p)].id} ELSE {})
  BY IdsPop
<1>2. CASE p[Len(p)].kind # "loop"
  BY <1>1, <1>2 DEF LoopsFollow
<1>3. CASE p[Len(p)].kind = "loop"
  <2> DEFINE ms == Front(ls)
             top == p[Len(p)].id
  <2>1. Len(p) \in 1..Len(p) /\ Len(p) \in Nat \ {0}
    BY EmptySeq
  <2>2. top \in IdsIn(p, {"loop"})
    BY <2>1, <1>3 DEF IdsIn
  <2>3. ToSet(ls) = {ls[i] : i \in 1..Len(ls)} /\ ToSet(ls) = IdsIn(p, {"loop"}) /\ Len(ls) \in Nat
    BY ElementsOf DEF LoopsFollow
  <2>4. PICK k \in 1..Len(ls) : ls[k] = top
    BY <2>2, <2>3
  <2>5. ls # <<>> /\ Len(ls) \in 1..Len(ls) /\ Len(ls) >= 1
    BY <2>3, <2>4, EmptySeq
  <2>6. /\ ms \in Seq(1..MaxNodes) /\ Len(ms) = Len(ls) - 1
        /\ \A i \in 1..Len(ls) - 1 : ms[i] = ls[i]
    BY <2>5, FrontIs
  <2>7. \A i \in 1..Len(ls) : ls[i] \in 1..MaxNodes
    BY ElementOfSeq
  <2> HIDE DEF ms
  <2>8. ls[Len(ls)] <= top
    <3>1. ls[Len(ls)] \in IdsIn(p, {"loop"})
      BY <2>3, <2>5
    <3>2. PICK i \in 1..Len(p) : ls[Len(ls)] = p[i].id
      BY <3>1 DEF IdsIn
    <3>3. i = Len(p) \/ i < Len(p)
      BY <2>1
    <3>4. p[i].id < top \/ p[i].id = top
      BY <3>3, <2>1, IdsDiffer
    <3>5. top \in 1..MaxNodes
      BY <2>1, IdsDiffer
    <3> QED BY <3>2, <3>4, <3>5, PairedCallsAssumption
  <2>9. k = Len(ls)
    <3>1. k < Len(ls) => ls[k] < ls[Len(ls)]
      BY <2>5 DEF LoopsFollow
    <3>2. ls[k] \in Nat /\ ls[Len(ls)] \in Nat
      BY <2>5, <2>7, PairedCallsAssumption
    <3> QED BY <3>1, <3>2, <2>4, <2>8, <2>3
  <2>10. \A i \in 1..Len(ms) : i \in 1..Len(ls) - 1 /\ i \in 1..Len(ls) /\ i < Len(ls)
    BY <2>3, <2>5, <2>6
  <2>11. \A i \in 1..Len(ms) : ms[i] = ls[i] /\ ls[i] # top
    <3>1. \A i \in 1..Len(ms) : ls[i] < ls[Len(ls)]
      BY <2>5, <2>10 DEF LoopsFollow
    <3>2. ls[Len(ls)] = top /\ top \in Nat
      BY <2>4, <2>5, <2>7, <2>9, PairedCallsAssumption
    <3> QED BY <3>1, <3>2, <2>6, <2>10
  <2>12. ToSet(ms) = {ms[i] : i \in 1..Len(ms)}
    BY <2>6, ElementsOf
  <2>13. \A i \in 1..Len(ls) : i = Len(ls) \/ i \in 1..Len(ms)
    BY <2>6, <2>3
  <2>14. ToSet(ms) = ToSet(ls) \ {top}
    BY <2>3, <2>4, <2>9, <2>10, <2>11, <2>12, <2>13
  <2>15. ToSet(ms) = IdsIn(Front(p), {"loop"})
    BY <2>3, <2>14, <1>1, <1>3
  <2>16. \A i, j \in 1..Len(ms) : i < j => ms[i] < ms[j]
    BY <2>10, <2>11 DEF LoopsFollow
  <2> QED BY <2>6, <2>15, <2>16, <1>3 DEF LoopsFollow, ms
<1> QED BY <1>2, <1>3

-----------------------------------------------------------------------------
(* Stacks, snapshots and branches.                                         *)
LEMMA StacksStay ==
  ASSUME NEW p, NEW q, NEW d, NEW n, Syntax(p, d, n), Follows(p, q), p # <<>>,
         NEW fs, NEW snaps, NEW s, StacksFollow(p, d, fs, snaps, s),
         NEW t, q[Len(q)].part = "between" => t = q[Len(q)].stack
  PROVE  StacksFollow(q, d, fs, snaps, t)
<1>1. Len(p) \in Nat \ {0} /\ Len(q) = Len(p)
  BY EmptySeq DEF Follows
<1>2. IdsIn(q, Branching) = IdsIn(p, Branching)
  BY IdsStay
<1>3. ASSUME NEW i \in 1..Len(p)
      PROVE  /\ q[i].kind = "function" => fs[q[i].depth] = q[i].stack
             /\ q[i].kind \in Branching => snaps[q[i].id] = q[i].stack
  BY DEF StacksFollow, Follows, Alike
<1>4. ASSUME NEW i \in 1..Len(p), q[i].part = "between"
      PROVE  t = q[i].stack
  <2>1. CASE i = Len(p)
    BY <2>1, <1>1, <1>4
  <2>2. CASE i < Len(p)
    <3>1. Before(p[i], p[Len(p)])
      BY <2>2, <1>1 DEF Syntax
    <3>2. q[i].part = p[i].part
      BY <2>2 DEF Follows, SamePart
    <3> QED BY <3>1, <3>2, <1>4 DEF Before
  <2> QED BY <2>1, <2>2, <1>1
<1> QED BY <1>1, <1>2, <1>3, <1>4 DEF StacksFollow

LEMMA StacksPush ==
  ASSUME NEW p \in Seq(SyntaxNode), NEW r \in SyntaxNode, NEW d \in Nat, NEW n \in Nat, Syntax(p, d, n),
         Enterable(p, d, r, n),
         NEW fs \in Seq(SUBSET Calls), NEW snaps, NEW s \in SUBSET Calls, StacksFollow(p, d, fs, snaps, s),
         r.stack = s, NEW t, r.part = "between" => t = s,
         NEW gs, gs = (IF r.kind = "function" THEN Append(fs, s) ELSE fs),
         NEW map, map = (IF r.kind \in Branching THEN With(snaps, n + 1, s) ELSE snaps)
  PROVE  StacksFollow(Append(p, r), r.depth, gs, map, t)
<1> DEFINE q == Append(p, r)
<1>1. /\ Len(p) \in Nat /\ Len(q) = Len(p) + 1 /\ \A i \in 1..Len(p) : q[i] = p[i]
      /\ q[Len(p) + 1] = r
  BY AppendIs
<1>2. IdsIn(q, Branching) = IdsIn(p, Branching) \cup (IF r.kind \in Branching THEN {r.id} ELSE {})
  BY IdsPush
<1> HIDE DEF q
<1>3. r.id = n + 1 /\ Len(fs) = d
  BY DEF Enterable, StacksFollow
<1>4. Len(gs) = r.depth /\ \A e \in 1..d : gs[e] = fs[e]
  <2>1. CASE r.kind = "function"
    <3>1. Len(Append(fs, s)) = Len(fs) + 1 /\ \A i \in 1..Len(fs) : Append(fs, s)[i] = fs[i]
      BY AppendIs
    <3> QED BY <2>1, <3>1, <1>3 DEF Enterable
  <2>2. CASE r.kind # "function"
    BY <2>2, <1>3 DEF Enterable
  <2> QED BY <2>1, <2>2
<1>5. r.kind = "function" => gs[r.depth] = s
  <2>1. Append(fs, s)[Len(fs) + 1] = s
    BY AppendIs
  <2> QED BY <2>1, <1>3 DEF Enterable
<1> DEFINE new == With(snaps, n + 1, s)
<1>11. /\ DOMAIN new = DOMAIN snaps \cup {n + 1} /\ new[n + 1] = s
       /\ \A k \in DOMAIN snaps : k # n + 1 => new[k] = snaps[k]
  BY DEF With
<1>12. DOMAIN snaps = IdsIn(p, Branching) /\ map = IF r.kind \in Branching THEN new ELSE snaps
  BY DEF StacksFollow
<1> HIDE DEF new
<1>6. DOMAIN map = IdsIn(q, Branching)
  <2>1. CASE r.kind \in Branching
    BY <2>1, <1>2, <1>3, <1>11, <1>12
  <2>2. CASE r.kind \notin Branching
    BY <2>2, <1>2, <1>12
  <2> QED BY <2>1, <2>2
<1>7. r.kind \in Branching => map[r.id] = s
  BY <1>3, <1>11, <1>12
<1>8. ASSUME NEW i \in 1..Len(p)
      PROVE  /\ p[i].kind = "function" => gs[p[i].depth] = p[i].stack
             /\ p[i].kind \in Branching => map[p[i].id] = p[i].stack
             /\ p[i].part # "between"
  <2>1. p[i].depth \in 1..d \/ p[i].kind # "function"
    <3>5. Len(p) \in 1..Len(p)
      BY <1>1
    <3>6. p[i] \in SyntaxNode /\ p[Len(p)] \in SyntaxNode
      BY <3>5, ElementOfSeq
    <3>1. p[i].depth \in Nat /\ p[Len(p)].depth \in Nat /\ Len(p) \in 1..Len(p)
      BY <3>5, <3>6 DEF SyntaxNode
    <3>2. p[i].kind = "function" => p[i].depth >= 1
      <4>1. p[i].kind = "function" => p[i].depth = IF i = 1 THEN 1 ELSE p[i - 1].depth + 1
        BY DEF Syntax, NodePlace
      <4>2. i # 1 => i - 1 \in 1..Len(p)
        BY <1>1
      <4>4. i # 1 => p[i - 1] \in SyntaxNode
        BY <4>2, ElementOfSeq
      <4>3. i # 1 => p[i - 1].depth \in Nat
        BY <4>4 DEF SyntaxNode
      <4> QED BY <4>1, <4>3, <3>1
    <3>3. d = p[Len(p)].depth
      BY <3>1, EmptySeq DEF Syntax
    <3>4. i = Len(p) \/ p[i].depth <= p[Len(p)].depth
      BY <3>1, <1>1 DEF Syntax, Before
    <3> QED BY <3>1, <3>2, <3>3, <3>4
  <2>8. p[i].id \in 1..MaxNodes /\ p[i].id <= n
    BY IdsDiffer DEF Syntax
  <2>2. p[i].id <= n /\ p[i].id \in Nat
    BY <2>8, PairedCallsAssumption
  <2>3. p[i].id # n + 1
    BY <2>2
  <2>4. p[i].kind \in Branching => p[i].id \in DOMAIN snaps
    BY DEF StacksFollow, IdsIn
  <2>5. p[i].kind \in Branching => map[p[i].id] = snaps[p[i].id]
    BY <2>3, <2>4, <1>11, <1>12
  <2>6. p[i].part # "between"
    <3>1. Len(p) \in 1..Len(p)
      BY <1>1
    <3>2. i = Len(p) \/ Before(p[i], p[Len(p)])
      BY <3>1, <1>1 DEF Syntax
    <3>3. p # <<>>
      BY <3>1, EmptySeq
    <3> QED BY <3>2, <3>3 DEF Before, Enterable
  <2> QED BY <2>1, <2>5, <2>6, <1>4 DEF StacksFollow
<1>9. \A i \in 1..Len(q) : i \in 1..Len(p) \/ i = Len(p) + 1
  BY <1>1
<1>10. ASSUME NEW i \in 1..Len(q)
       PROVE  /\ q[i].kind = "function" => gs[q[i].depth] = q[i].stack
              /\ q[i].kind \in Branching => map[q[i].id] = q[i].stack
              /\ q[i].part = "between" => t = q[i].stack
  BY <1>1, <1>5, <1>7, <1>8, <1>9
<1> QED BY <1>4, <1>6, <1>10 DEF StacksFollow, q

LEMMA StacksPop ==
  ASSUME NEW p \in Seq(SyntaxNode), p # <<>>, NEW d \in Nat, NEW n, Syntax(p, d, n),
         NEW fs \in Seq(SUBSET Calls), NEW snaps, NEW s, StacksFollow(p, d, fs, snaps, s), NEW t,
         NEW e, e = (IF p[Len(p)].kind = "function" THEN d - 1 ELSE d),
         NEW gs, gs = (IF p[Len(p)].kind = "function" THEN Front(fs) ELSE fs),
         NEW map, map = (IF p[Len(p)].kind \in Branching THEN Without(snaps, p[Len(p)].id) ELSE snaps)
  PROVE  StacksFollow(Front(p), e, gs, map, t) /\ gs \in Seq(SUBSET Calls)
<1> DEFINE q == Front(p)
           top == p[Len(p)]
<1>1. Len(p) \in Nat \ {0} /\ Len(q) = Len(p) - 1 /\ \A i \in 1..Len(p) - 1 : q[i] = p[i]
  BY FrontIs
<1>2. IdsIn(q, Branching) = IdsIn(p, Branching) \ (IF top.kind \in Branching THEN {top.id} ELSE {})
  BY IdsPop
<1>3. Len(fs) = d /\ DOMAIN snaps = IdsIn(p, Branching)
  BY DEF StacksFollow
<1>4. top.kind = "function" => d > 0 /\ fs # <<>>
  <2>1. NodePlace(p, Len(p)) /\ d = top.depth
    BY <1>1 DEF Syntax
  <2>2. Len(p) # 1 => p[Len(p) - 1] \in SyntaxNode
    BY <1>1, ElementOfSeq
  <2>3. Len(p) # 1 => p[Len(p) - 1].depth \in Nat
    BY <2>2 DEF SyntaxNode
  <2>4. top.kind = "function" => d > 0
    BY <2>1, <2>3 DEF NodePlace
  <2> QED BY <2>4, <1>3, EmptySeq
<1>5. /\ gs \in Seq(SUBSET Calls) /\ Len(gs) = e
      /\ \A i \in 1..e : gs[i] = fs[i]
  <2>1. CASE top.kind = "function"
    <3>1. Front(fs) \in Seq(SUBSET Calls) /\ Len(Front(fs)) = Len(fs) - 1 /\ \A i \in 1..Len(fs) - 1 : Front(fs)[i] = fs[i]
      BY <2>1, <1>4, FrontIs
    <3> QED BY <3>1, <2>1, <1>3
  <2>2. CASE top.kind # "function"
    BY <2>2, <1>3
  <2> QED BY <2>1, <2>2
<1> DEFINE less == Without(snaps, top.id)
<1>8. /\ DOMAIN less = DOMAIN snaps \ {top.id} /\ map = IF top.kind \in Branching THEN less ELSE snaps
      /\ \A k \in DOMAIN snaps : k # top.id => less[k] = snaps[k]
  BY DEF Without
<1> HIDE DEF q, less
<1>6. DOMAIN map = IdsIn(q, Branching)
  <2>1. CASE top.kind \in Branching
    BY <2>1, <1>2, <1>3, <1>8
  <2>2. CASE top.kind \notin Branching
    BY <2>2, <1>2, <1>3, <1>8
  <2> QED BY <2>1, <2>2
<1>7. ASSUME NEW i \in 1..Len(q)
      PROVE  /\ q[i].kind = "function" => gs[q[i].depth] = q[i].stack
             /\ q[i].kind \in Branching => map[q[i].id] = q[i].stack
             /\ q[i].part # "between"
  <2>1. i \in 1..Len(p) - 1 /\ i \in 1..Len(p) /\ i < Len(p) /\ Len(p) \in 1..Len(p) /\ i # Len(p)
    BY <1>1
  <2>2. Before(p[i], top) /\ p[i] \in SyntaxNode /\ top \in SyntaxNode /\ d = top.depth
    BY <2>1, ElementOfSeq DEF Syntax
  <2>3. p[i].id # top.id
    BY <2>1, IdsDiffer
  <2>4. p[i].kind \in Branching => map[p[i].id] = snaps[p[i].id]
    <3>1. p[i].kind \in Branching => p[i].id \in DOMAIN snaps
      BY <2>1, <1>3 DEF IdsIn
    <3> QED BY <3>1, <2>3, <1>8
  <2>5. p[i].kind = "function" => p[i].depth \in 1..e
    <3>1. p[i].depth \in Nat /\ top.depth \in Nat
      BY <2>2 DEF SyntaxNode
    <3>2. p[i].kind = "function" => p[i].depth = IF i = 1 THEN 1 ELSE p[i - 1].depth + 1
      BY <2>1 DEF Syntax, NodePlace
    <3>3. i # 1 => i - 1 \in 1..Len(p)
      BY <1>1, <2>1
    <3>6. i # 1 => p[i - 1] \in SyntaxNode
      BY <3>3, ElementOfSeq
    <3>4. i # 1 => p[i - 1].depth \in Nat
      BY <3>6 DEF SyntaxNode
    <3>5. p[i].depth <= top.depth /\ (top.kind = "function" => p[i].depth < top.depth)
      BY <2>2 DEF Before
    <3>7. p[i].kind = "function" => p[i].depth >= 1
      BY <3>2, <3>4
    <3>8. d = top.depth
      BY <2>2
    <3> QED BY <3>1, <3>5, <3>7, <3>8
  <2> QED BY <2>1, <2>2, <2>4, <2>5, <1>1, <1>5 DEF StacksFollow, Before
<1> QED BY <1>5, <1>6, <1>7 DEF StacksFollow, q

LEMMA BranchesAtIs ==
  ASSUME NEW brs, brs \in [DOMAIN brs -> Seq(SUBSET Calls)], NEW id
  PROVE  BranchesAt(brs, id) \in Seq(SUBSET Calls) /\ Len(BranchesAt(brs, id)) \in Nat
<1>1. BranchesAt(brs, id) \in Seq(SUBSET Calls)
  BY EmptySeq DEF BranchesAt
<1> QED BY <1>1, LenProperties

LEMMA BranchesAtMore ==
  ASSUME NEW brs, NEW id, NEW value
  PROVE  /\ BranchesAt(With(brs, id, value), id) = value
         /\ \A k : k # id => BranchesAt(With(brs, id, value), k) = BranchesAt(brs, k)
<1> DEFINE more == With(brs, id, value)
<1>1. /\ DOMAIN more = DOMAIN brs \cup {id} /\ more[id] = value
      /\ \A k \in DOMAIN brs : k # id => more[k] = brs[k]
  BY DEF With
<1> HIDE DEF more
<1>2. BranchesAt(more, id) = value /\ \A k : k # id => BranchesAt(more, k) = BranchesAt(brs, k)
  BY <1>1 DEF BranchesAt
<1> QED BY <1>2 DEF more

LEMMA BranchesAtLess ==
  ASSUME NEW brs, NEW id
  PROVE  \A k : k # id => BranchesAt(Without(brs, id), k) = BranchesAt(brs, k)
<1> DEFINE less == Without(brs, id)
<1>1. DOMAIN less = DOMAIN brs \ {id} /\ \A k \in DOMAIN brs : k # id => less[k] = brs[k]
  BY DEF Without
<1> HIDE DEF less
<1>2. \A k : k # id => BranchesAt(less, k) = BranchesAt(brs, k)
  BY <1>1 DEF BranchesAt
<1> QED BY <1>2 DEF less

LEMMA BranchesStay ==
  ASSUME NEW p, NEW q, Follows(p, q), p # <<>>, NEW brs, BranchesFollow(p, brs),
         BranchCount(q[Len(q)], Len(BranchesAt(brs, q[Len(q)].id)))
  PROVE  BranchesFollow(q, brs)
<1>1. Len(p) \in Nat \ {0} /\ Len(q) = Len(p)
  BY EmptySeq DEF Follows
<1>2. ASSUME NEW i \in 1..Len(p)
      PROVE  BranchCount(q[i], Len(BranchesAt(brs, q[i].id)))
  <2>1. i = Len(p) \/ i < Len(p)
    BY <1>1
  <2>2. CASE i < Len(p)
    BY <2>2 DEF Follows, Alike, SamePart, BranchesFollow, BranchCount
  <2> QED BY <2>1, <2>2, <1>1
<1> QED BY <1>1, <1>2, IdsStay DEF BranchesFollow

LEMMA BranchesRecord ==
  ASSUME NEW p, NEW q, NEW d, NEW n, Syntax(p, d, n), Follows(p, q), p # <<>>,
         p[Len(p)].kind \in Branching,
         NEW brs, brs \in [DOMAIN brs -> Seq(SUBSET Calls)], BranchesFollow(p, brs), NEW s \in SUBSET Calls,
         BranchCount(q[Len(q)], Len(BranchesAt(brs, p[Len(p)].id)) + 1)
  PROVE  LET new == Append(BranchesAt(brs, p[Len(p)].id), s)
         IN  /\ BranchesFollow(q, With(brs, p[Len(p)].id, new)) /\ new \in Seq(SUBSET Calls)
             /\ Len(new) = Len(BranchesAt(brs, p[Len(p)].id)) + 1
<1> DEFINE id == p[Len(p)].id
           old == BranchesAt(brs, id)
           new == Append(old, s)
           map == With(brs, id, new)
<1>1. Len(p) \in Nat \ {0} /\ Len(q) = Len(p) /\ p \in Seq(SyntaxNode)
  BY EmptySeq DEF Follows
<1>2. old \in Seq(SUBSET Calls)
  BY BranchesAtIs
<1>3. new \in Seq(SUBSET Calls) /\ Len(new) = Len(old) + 1
  BY <1>2, AppendIs
<1> HIDE DEF old, new
<1>9. BranchesAt(With(brs, id, new), id) = new
  BY BranchesAtMore
<1>10. \A k : k # id => BranchesAt(With(brs, id, new), k) = BranchesAt(brs, k)
  BY BranchesAtMore
<1>4. BranchesAt(map, id) = new /\ \A k : k # id => BranchesAt(map, k) = BranchesAt(brs, k)
  BY <1>9, <1>10, Zenon
<1>5. DOMAIN map = DOMAIN brs \cup {id}
  BY DEF With
<1> HIDE DEF map
<1>6. DOMAIN map \subseteq IdsIn(q, Branching)
  <2>1. id \in IdsIn(p, Branching)
    BY <1>1 DEF IdsIn
  <2> QED BY <2>1, <1>5, IdsStay DEF BranchesFollow
<1>7. ASSUME NEW i \in 1..Len(p)
      PROVE  BranchCount(q[i], Len(BranchesAt(map, q[i].id)))
  <2>1. q[i].id = p[i].id
    BY DEF Follows, Alike
  <2>2. CASE i = Len(p)
    BY <2>1, <2>2, <1>1, <1>3, <1>4 DEF old
  <2>3. CASE i < Len(p)
    <3>1. p[i].id # id
      BY <2>3, <1>1, IdsDiffer
    <3>2. SamePart(p[i], q[i]) /\ BranchCount(p[i], Len(BranchesAt(brs, p[i].id)))
      BY <2>3 DEF Follows, BranchesFollow
    <3>3. BranchesAt(map, q[i].id) = BranchesAt(brs, p[i].id)
      BY <3>1, <2>1, <1>4
    <3> QED BY <3>2, <3>3 DEF SamePart, BranchCount
  <2> QED BY <2>2, <2>3, <1>1
<1>8. BranchesFollow(q, map)
  BY <1>1, <1>6, <1>7 DEF BranchesFollow
<1> QED BY <1>3, <1>8 DEF map, new, old

LEMMA BranchesNew ==
  ASSUME NEW p \in Seq(SyntaxNode), NEW d, NEW n \in Nat, Syntax(p, d, n), NEW brs, BranchesFollow(p, brs)
  PROVE  BranchesAt(brs, n + 1) = <<>>
<1>1. n + 1 \notin IdsIn(p, Branching)
  <2> SUFFICES ASSUME n + 1 \in IdsIn(p, Branching) PROVE FALSE
    OBVIOUS
  <2>1. n + 1 <= n
    BY IdsKnown
  <2> QED BY <2>1
<1> QED BY <1>1 DEF BranchesFollow, BranchesAt

LEMMA BranchesPush ==
  ASSUME NEW p \in Seq(SyntaxNode), NEW r \in SyntaxNode, NEW d, NEW n \in Nat, Syntax(p, d, n),
         r.id = n + 1, NEW brs, BranchesFollow(p, brs), BranchCount(r, 0)
  PROVE  BranchesFollow(Append(p, r), brs)
<1> DEFINE q == Append(p, r)
<1>1. /\ Len(p) \in Nat /\ Len(q) = Len(p) + 1 /\ \A i \in 1..Len(p) : q[i] = p[i]
      /\ q[Len(p) + 1] = r
  BY AppendIs
<1>2. DOMAIN brs \subseteq IdsIn(q, Branching)
  BY IdsPush DEF BranchesFollow
<1>3. BranchesAt(brs, r.id) = <<>> /\ Len(<<>>) = 0
  BY BranchesNew, EmptySeq
<1> HIDE DEF q
<1>4. \A i \in 1..Len(q) : i \in 1..Len(p) \/ i = Len(p) + 1
  BY <1>1
<1>5. \A i \in 1..Len(q) : BranchCount(q[i], Len(BranchesAt(brs, q[i].id)))
  BY <1>1, <1>3, <1>4 DEF BranchesFollow
<1> QED BY <1>2, <1>5 DEF BranchesFollow, q

LEMMA BranchesPop ==
  ASSUME NEW p \in Seq(SyntaxNode), p # <<>>, NEW d, NEW n, Syntax(p, d, n),
         NEW brs, brs \in [DOMAIN brs -> Seq(SUBSET Calls)], BranchesFollow(p, brs),
         NEW map, map = (IF p[Len(p)].kind \in Branching THEN Without(brs, p[Len(p)].id) ELSE brs)
  PROVE  /\ BranchesFollow(Front(p), map)
         /\ \A i \in 1..Len(p) - 1 : BranchesAt(map, p[i].id) = BranchesAt(brs, p[i].id)
<1> DEFINE q == Front(p)
           id == p[Len(p)].id
<1>1. Len(p) \in Nat \ {0} /\ Len(q) = Len(p) - 1 /\ \A i \in 1..Len(p) - 1 : q[i] = p[i]
  BY FrontIs
<1>7. DOMAIN Without(brs, id) = DOMAIN brs \ {id}
  BY DEF Without
<1>8. IdsIn(q, Branching) = IdsIn(p, Branching) \ (IF p[Len(p)].kind \in Branching THEN {id} ELSE {})
  BY IdsPop
<1>2. DOMAIN map \subseteq IdsIn(q, Branching)
  <2>1. CASE p[Len(p)].kind \in Branching
    BY <2>1, <1>7, <1>8 DEF BranchesFollow
  <2>2. CASE p[Len(p)].kind \notin Branching
    BY <2>2, <1>8 DEF BranchesFollow
  <2> QED BY <2>1, <2>2
<1>9. \A k : k # id => BranchesAt(Without(brs, id), k) = BranchesAt(brs, k)
  BY BranchesAtLess
<1>3. \A k : k # id => BranchesAt(map, k) = BranchesAt(brs, k)
  BY <1>9
<1>4. \A i \in 1..Len(p) - 1 : i \in 1..Len(p) /\ Len(p) \in 1..Len(p) /\ i # Len(p)
  BY <1>1
<1>5. \A i \in 1..Len(p) - 1 : p[i].id # id
  BY <1>4, IdsDiffer
<1> HIDE DEF q
<1>6. \A i \in 1..Len(q) : BranchCount(q[i], Len(BranchesAt(map, q[i].id)))
  BY <1>1, <1>3, <1>4, <1>5 DEF BranchesFollow
<1> QED BY <1>2, <1>3, <1>5, <1>6 DEF BranchesFollow, q

(* Calls.                                                                  *)
LEMMA NumberedGrows ==
  ASSUME NEW s \in SUBSET Calls, NEW k \in Nat, NEW n \in Nat, Numbered(s, k, n),
         NEW l \in Nat, k <= l, NEW m \in Nat, n <= m
  PROVE  Numbered(s, l, m)
<1>1. ASSUME NEW c \in s
      PROVE  c.index < l /\ c.loops \subseteq 1..m
  <2>1. c.index < k /\ c.loops \subseteq 1..n /\ c.index \in 0..MaxOpeners - 1
    BY DEF Numbered, Calls
  <2> QED BY <2>1, PairedCallsAssumption
<1> QED BY <1>1 DEF Numbered

LEMMA SoundGrows ==
  ASSUME NEW xs \in SUBSET Executions, NEW k \in Nat, Sound(xs, k), NEW l \in Nat, k <= l
  PROVE  Sound(xs, l)
<1>1. ASSUME NEW x \in xs, NEW c \in x.open
      PROVE  c.index < l
  <2>1. c.index < k /\ c.index \in 0..MaxOpeners - 1
    BY DEF Sound, Calls, Executions
  <2> QED BY <2>1, PairedCallsAssumption
<1> QED BY <1>1 DEF Sound

LEMMA NodeKnownGrows ==
  ASSUME NEW r \in SyntaxNode, NEW k \in Nat, NodeKnown(r, k), NEW l \in Nat, k <= l
  PROVE  NodeKnown(r, l)
<1>1. /\ r.stack \in SUBSET Calls /\ r.id - 1 \in Nat
      /\ r.saved \in SUBSET Executions /\ r.out \in SUBSET Executions /\ r.thrown \in SUBSET Executions
  BY DEF SyntaxNode
<1>2. Numbered(r.stack, l, r.id - 1)
  BY <1>1, NumberedGrows DEF NodeKnown
<1>3. Sound(r.saved, l) /\ Sound(r.out, l) /\ Sound(r.thrown, l)
  BY <1>1, SoundGrows DEF NodeKnown
<1> QED BY <1>2, <1>3 DEF NodeKnown

(* What a path, and a place in it, hold is known to the next state too.    *)
LEMMA KnownPush ==
  ASSUME NEW p \in Seq(SyntaxNode), NEW r \in SyntaxNode, NEW k, NEW n,
         \A i \in 1..Len(p) : NodeKnown(p[i], k), NodeKnown(r, k)
  PROVE  \A i \in 1..Len(Append(p, r)) : NodeKnown(Append(p, r)[i], k)
<1> DEFINE q == Append(p, r)
<1>1. /\ Len(p) \in Nat /\ Len(q) = Len(p) + 1 /\ \A i \in 1..Len(p) : q[i] = p[i]
      /\ q[Len(p) + 1] = r
  BY AppendIs
<1> HIDE DEF q
<1>2. \A i \in 1..Len(q) : i \in 1..Len(p) \/ i = Len(p) + 1
  BY <1>1
<1>3. \A i \in 1..Len(q) : NodeKnown(q[i], k)
  BY <1>1, <1>2
<1> QED BY <1>3 DEF q

LEMMA KnownPop ==
  ASSUME NEW p \in Seq(SyntaxNode), p # <<>>, NEW k, \A i \in 1..Len(p) : NodeKnown(p[i], k)
  PROVE  \A i \in 1..Len(Front(p)) : NodeKnown(Front(p)[i], k)
<1> DEFINE q == Front(p)
<1>1. Len(p) \in Nat \ {0} /\ Len(q) = Len(p) - 1 /\ \A i \in 1..Len(p) - 1 : q[i] = p[i]
  BY FrontIs
<1> HIDE DEF q
<1>2. \A i \in 1..Len(q) : i \in 1..Len(p) - 1 /\ i \in 1..Len(p)
  BY <1>1
<1>3. \A i \in 1..Len(q) : NodeKnown(q[i], k)
  BY <1>1, <1>2
<1> QED BY <1>3 DEF q

LEMMA SoundTogether ==
  ASSUME NEW xs, NEW ys, NEW k, Sound(xs, k), Sound(ys, k)
  PROVE  Sound(xs \cup ys, k)
  BY DEF Sound

-----------------------------------------------------------------------------
(* The walk, class by class of its steps: the path has other nodes of the  *)
(* same kinds, a node is entered, a node is left.                          *)
Turning(p, n, k, q, ds, brs, t, ys) ==
  /\ p # <<>> /\ Follows(p, q) /\ NodeShape(q[Len(q)]) /\ (\A i \in 1..Len(q) : NodeKnown(q[i], k))
  /\ ContextsFollow(q, ds) /\ BranchesFollow(q, brs)
  /\ (q[Len(q)].part = "between" => t = q[Len(q)].stack) /\ Numbered(t, k, n) /\ Sound(ys, k)
LEMMA WalkTurns ==
  ASSUME NEW p, NEW d, NEW n, NEW cs, NEW ls, NEW fs, NEW snaps, NEW brs, NEW s, NEW xs, NEW k,
         Walk(p, d, n, cs, ls, fs, snaps, brs, s, xs, k),
         NEW q, NEW ds, NEW map, NEW t, NEW ys, Turning(p, n, k, q, ds, map, t, ys)
  PROVE  Walk(q, d, n, ds, ls, fs, snaps, map, t, ys, k)
<1>1. Syntax(p, d, n) /\ LoopsFollow(p, ls) /\ StacksFollow(p, d, fs, snaps, s)
  BY DEF Walk
<1>2. Syntax(q, d, n)
  BY <1>1, SyntaxStays DEF Turning
<1>3. LoopsFollow(q, ls)
  BY <1>1, LoopsStay DEF Turning
<1>4. StacksFollow(q, d, fs, snaps, t)
  BY <1>1, StacksStay DEF Turning
<1>5. CallsKnown(q, ys, t, k, n)
  BY DEF CallsKnown, Turning
<1> QED BY <1>2, <1>3, <1>4, <1>5 DEF Walk, Turning

LoopsWith(r, ls) == IF r.kind = "loop" THEN Append(ls, r.id) ELSE ls
StacksWith(r, fs) == IF r.kind = "function" THEN Append(fs, r.stack) ELSE fs
SnapshotsWith(r, snaps) == IF r.kind \in Branching THEN With(snaps, r.id, r.stack) ELSE snaps
Entering(p, d, n, s, k, r, c, t, ys) ==
  /\ Enterable(p, d, r, n) /\ r.stack = s /\ r.part # "finally" /\ BranchCount(r, 0) /\ NodeKnown(r, k)
  /\ c \in Contexts /\ (c.inFinally <=> (r.kind # "function" /\ p # <<>> /\ Finalizes(p, Len(p))))
  /\ (r.part = "between" => t = s) /\ Numbered(t, k, n + 1) /\ Sound(ys, k)
WalkTyped(p, d, n, cs, ls, fs, brs, s) ==
  /\ p \in Seq(SyntaxNode) /\ d \in Nat /\ n \in Nat /\ cs \in Seq(Contexts) /\ ls \in Seq(1..MaxNodes)
  /\ fs \in Seq(SUBSET Calls) /\ brs \in [DOMAIN brs -> Seq(SUBSET Calls)] /\ s \in SUBSET Calls
LEMMA WalkEnters ==
  ASSUME NEW p, NEW d, NEW n, NEW cs, NEW ls, NEW fs, NEW snaps, NEW brs, NEW s, NEW xs, NEW k,
         WalkTyped(p, d, n, cs, ls, fs, brs, s),
         Walk(p, d, n, cs, ls, fs, snaps, brs, s, xs, k),
         NEW r, NEW c, NEW t, NEW ys, Entering(p, d, n, s, k, r, c, t, ys)
  PROVE  /\ Walk(Append(p, r), r.depth, n + 1, Append(cs, c), LoopsWith(r, ls), StacksWith(r, fs),
                 SnapshotsWith(r, snaps), brs, t, ys, k)
         /\ Append(p, r) \in Seq(SyntaxNode) /\ Append(cs, c) \in Seq(Contexts)
         /\ LoopsWith(r, ls) \in Seq(1..MaxNodes) /\ StacksWith(r, fs) \in Seq(SUBSET Calls)
<1>1. /\ Syntax(p, d, n) /\ ContextsFollow(p, cs) /\ LoopsFollow(p, ls) /\ StacksFollow(p, d, fs, snaps, s)
      /\ BranchesFollow(p, brs) /\ CallsKnown(p, xs, s, k, n)
      /\ p \in Seq(SyntaxNode) /\ d \in Nat /\ n \in Nat /\ cs \in Seq(Contexts) /\ ls \in Seq(1..MaxNodes)
      /\ fs \in Seq(SUBSET Calls) /\ s \in SUBSET Calls
  BY DEF Walk, WalkTyped
<1>2. /\ r \in SyntaxNode /\ r.id = n + 1 /\ (r.kind # "function" => r.depth = d) /\ Enterable(p, d, r, n)
      /\ r.part # "finally" /\ r.stack = s
  BY DEF Enterable, Entering
<1>3. Syntax(Append(p, r), r.depth, n + 1)
  BY <1>1, <1>2, SyntaxPush
<1>4. /\ \A i \in 1..Len(p) : Finalizes(Append(p, r), i) <=> Finalizes(p, i)
      /\ r.kind = "function" => ~ Finalizes(Append(p, r), Len(p) + 1)
      /\ r.kind # "function" => (p # <<>> /\ (Finalizes(Append(p, r), Len(p) + 1) <=> Finalizes(p, Len(p))))
  BY <1>1, <1>2, <1>3, FinalizesPush
<1>5. c \in Contexts /\ (c.inFinally <=> Finalizes(Append(p, r), Len(p) + 1))
  BY <1>4 DEF Entering
<1>6. ContextsFollow(Append(p, r), Append(cs, c))
  BY <1>1, <1>2, <1>4, <1>5, ContextsPush
<1>7. LoopsFollow(Append(p, r), LoopsWith(r, ls)) /\ LoopsWith(r, ls) \in Seq(1..MaxNodes)
  BY <1>1, <1>2, LoopsPush DEF LoopsWith
<1>8. StacksFollow(Append(p, r), r.depth, StacksWith(r, fs), SnapshotsWith(r, snaps), t)
  <2>1. r.part = "between" => t = s
    BY DEF Entering
  <2>2. /\ StacksWith(r, fs) = (IF r.kind = "function" THEN Append(fs, s) ELSE fs)
        /\ SnapshotsWith(r, snaps) = (IF r.kind \in Branching THEN With(snaps, n + 1, s) ELSE snaps)
    BY <1>2 DEF StacksWith, SnapshotsWith
  <2> QED BY <1>1, <1>2, <2>1, <2>2, StacksPush
<1>9. BranchesFollow(Append(p, r), brs)
  BY <1>1, <1>2, BranchesPush DEF Entering
<1>10. (\A i \in 1..Len(p) : NodeKnown(p[i], k)) /\ NodeKnown(r, k)
  BY <1>1 DEF CallsKnown, Entering
<1>11. \A i \in 1..Len(Append(p, r)) : NodeKnown(Append(p, r)[i], k)
  BY <1>1, <1>2, <1>10, KnownPush
<1>12. CallsKnown(Append(p, r), ys, t, k, n + 1)
  BY <1>11 DEF CallsKnown, Entering
<1>13. Append(p, r) \in Seq(SyntaxNode) /\ Append(cs, c) \in Seq(Contexts)
  BY <1>1, <1>2, <1>5, AppendIs
<1>14. StacksWith(r, fs) \in Seq(SUBSET Calls)
  BY <1>1, <1>2, AppendIs DEF StacksWith
<1>15. Walk(Append(p, r), r.depth, n + 1, Append(cs, c), LoopsWith(r, ls), StacksWith(r, fs),
            SnapshotsWith(r, snaps), brs, t, ys, k)
  BY <1>3, <1>6, <1>7, <1>8, <1>9, <1>12 DEF Walk
<1> QED BY <1>7, <1>13, <1>14, <1>15

LoopsLess(r, ls) == IF r.kind = "loop" THEN Front(ls) ELSE ls
StacksLess(r, fs) == IF r.kind = "function" THEN Front(fs) ELSE fs
MapWithout(r, map) == IF r.kind \in Branching THEN Without(map, r.id) ELSE map
DepthLess(r, d) == IF r.kind = "function" THEN d - 1 ELSE d
Leaving(p, n, k, t, ys) == p # <<>> /\ Numbered(t, k, n) /\ Sound(ys, k)
LEMMA WalkLeaves ==
  ASSUME NEW p, NEW d, NEW n, NEW cs, NEW ls, NEW fs, NEW snaps, NEW brs, NEW s, NEW xs, NEW k,
         WalkTyped(p, d, n, cs, ls, fs, brs, s),
         Walk(p, d, n, cs, ls, fs, snaps, brs, s, xs, k),
         NEW t, NEW ys, Leaving(p, n, k, t, ys)
  PROVE  /\ Walk(Front(p), DepthLess(p[Len(p)], d), n, Front(cs), LoopsLess(p[Len(p)], ls), StacksLess(p[Len(p)], fs),
                 MapWithout(p[Len(p)], snaps), MapWithout(p[Len(p)], brs), t, ys, k)
         /\ Front(p) \in Seq(SyntaxNode) /\ Front(cs) \in Seq(Contexts)
         /\ LoopsLess(p[Len(p)], ls) \in Seq(1..MaxNodes) /\ StacksLess(p[Len(p)], fs) \in Seq(SUBSET Calls)
<1> DEFINE r == p[Len(p)]
<1>1. /\ Syntax(p, d, n) /\ ContextsFollow(p, cs) /\ LoopsFollow(p, ls) /\ StacksFollow(p, d, fs, snaps, s)
      /\ BranchesFollow(p, brs) /\ CallsKnown(p, xs, s, k, n)
      /\ p \in Seq(SyntaxNode) /\ d \in Nat /\ n \in Nat /\ cs \in Seq(Contexts) /\ ls \in Seq(1..MaxNodes)
      /\ fs \in Seq(SUBSET Calls) /\ brs \in [DOMAIN brs -> Seq(SUBSET Calls)] /\ p # <<>>
  BY DEF Walk, WalkTyped, Leaving
<1>2. Syntax(Front(p), DepthLess(r, d), n)
  BY <1>1, SyntaxPop DEF DepthLess
<1>3. ContextsFollow(Front(p), Front(cs)) /\ Front(cs) \in Seq(Contexts)
  BY <1>1, ContextsPop
<1>4. LoopsFollow(Front(p), LoopsLess(r, ls)) /\ LoopsLess(r, ls) \in Seq(1..MaxNodes)
  BY <1>1, LoopsPop DEF LoopsLess
<1>5. /\ StacksFollow(Front(p), DepthLess(r, d), StacksLess(r, fs), MapWithout(r, snaps), t)
      /\ StacksLess(r, fs) \in Seq(SUBSET Calls)
  BY <1>1, StacksPop DEF DepthLess, StacksLess, MapWithout
<1>6. BranchesFollow(Front(p), MapWithout(r, brs))
  BY <1>1, BranchesPop DEF MapWithout
<1>7. \A i \in 1..Len(p) : NodeKnown(p[i], k)
  BY <1>1 DEF CallsKnown
<1>8. \A i \in 1..Len(Front(p)) : NodeKnown(Front(p)[i], k)
  BY <1>1, <1>7, KnownPop
<1>9. CallsKnown(Front(p), ys, t, k, n)
  BY <1>8 DEF CallsKnown, Leaving
<1>10. Front(p) \in Seq(SyntaxNode)
  BY <1>1, FrontIs
<1> HIDE DEF r
<1>11. Walk(Front(p), DepthLess(r, d), n, Front(cs), LoopsLess(r, ls), StacksLess(r, fs),
            MapWithout(r, snaps), MapWithout(r, brs), t, ys, k)
  BY <1>2, <1>3, <1>4, <1>5, <1>6, <1>9 DEF Walk
<1> QED BY <1>3, <1>4, <1>5, <1>10, <1>11 DEF r

(* What a jump does to the path.                                           *)
Landed(p, xs, i) == {[x EXCEPT !.to = Here] : x \in Caught(p, xs, i)}
Moved(p, xs, i) == {[x EXCEPT !.to = IF @ = p[i].id THEN Here ELSE @] : x \in Going(p, xs, i)}
Lost(p, xs, i) == p[i].kind = "function" /\ \E x \in Arriving(p, xs, i) : x.open # {}
Jumped(p, xs, q) ==
  /\ Follows(p, q)
  /\ \A i \in 1..Len(p) :
       /\ SamePart(p[i], q[i])
       /\ q[i].leaks = (p[i].leaks \/ Lost(p, xs, i))
       /\ q[i].out = p[i].out \cup Moved(p, xs, i)
       /\ q[i].thrown = p[i].thrown \cup Landed(p, xs, i)

LEMMA JumpsTyped ==
  ASSUME NEW p, NEW xs \in SUBSET Executions, NEW i
  PROVE  /\ Landed(p, xs, i) \in SUBSET Executions /\ Moved(p, xs, i) \in SUBSET Executions
         /\ Lost(p, xs, i) \in BOOLEAN
         /\ \A k : Sound(xs, k) => Sound(Landed(p, xs, i), k) /\ Sound(Moved(p, xs, i), k)
<1>1. Caught(p, xs, i) \in SUBSET xs /\ Going(p, xs, i) \in SUBSET xs
  BY DEF Caught, Going, Arriving
<1>2. Here \in 0..Throw
  BY PairedCallsAssumption DEF Here, Throw
<1>3. ASSUME NEW x \in Executions, NEW t \in 0..Throw
      PROVE  [x EXCEPT !.to = t] \in Executions /\ [x EXCEPT !.to = t].open = x.open
  BY DEF Executions
<1>4. ASSUME NEW x \in Executions
      PROVE  /\ [x EXCEPT !.to = IF @ = p[i].id THEN Here ELSE @] \in Executions
             /\ [x EXCEPT !.to = IF @ = p[i].id THEN Here ELSE @].open = x.open
  BY <1>2 DEF Executions
<1>5. /\ Landed(p, xs, i) \in SUBSET Executions
      /\ \A y \in Landed(p, xs, i) : \E x \in xs : y.open = x.open
  <2>1. ASSUME NEW y \in Landed(p, xs, i)
        PROVE  y \in Executions /\ \E x \in xs : y.open = x.open
    <3>1. PICK x \in Caught(p, xs, i) : y = [x EXCEPT !.to = Here]
      BY DEF Landed
    <3>2. x \in xs /\ x \in Executions
      BY <1>1
    <3> QED BY <3>1, <3>2, <1>2, <1>3
  <2> QED BY <2>1
<1>6. /\ Moved(p, xs, i) \in SUBSET Executions
      /\ \A y \in Moved(p, xs, i) : \E x \in xs : y.open = x.open
  BY <1>1, <1>4 DEF Moved
<1>7. Lost(p, xs, i) \in BOOLEAN
  BY Zenon DEF Lost
<1>8. ASSUME NEW k, Sound(xs, k)
      PROVE  Sound(Landed(p, xs, i), k) /\ Sound(Moved(p, xs, i), k)
  BY <1>5, <1>6, <1>8 DEF Sound
<1> QED BY <1>5, <1>6, <1>7, <1>8

LEMMA Delivered ==
  ASSUME NEW p \in Seq(SyntaxNode), NEW xs \in SUBSET Executions
  PROVE  Jumped(p, xs, Deliver(p, xs))
<1> DEFINE node(i) == [p[i] EXCEPT !.thrown = @ \cup Landed(p, xs, i), !.out = @ \cup Moved(p, xs, i),
                                   !.leaks = @ \/ Lost(p, xs, i)]
           q == [i \in 1..Len(p) |-> node(i)]
<1>1. Len(p) \in Nat /\ DOMAIN p = 1..Len(p)
  BY LenProperties
<1>2. q = Deliver(p, xs)
  BY <1>1, Zenon DEF Deliver, Landed, Moved, Lost
<1>3. ASSUME NEW i \in 1..Len(p)
      PROVE  /\ node(i) \in SyntaxNode /\ Alike(p[i], node(i)) /\ SamePart(p[i], node(i))
             /\ node(i).leaks = (p[i].leaks \/ Lost(p, xs, i))
             /\ node(i).out = p[i].out \cup Moved(p, xs, i)
             /\ node(i).thrown = p[i].thrown \cup Landed(p, xs, i)
  <2> DEFINE r == p[i]
             l == Landed(p, xs, i)
             m == Moved(p, xs, i)
             b == Lost(p, xs, i)
             s == node(i)
  <2>1. r \in SyntaxNode /\ l \in SUBSET Executions /\ m \in SUBSET Executions /\ b \in BOOLEAN
    BY ElementOfSeq, JumpsTyped
  <2>2. s = [r EXCEPT !.thrown = @ \cup l, !.out = @ \cup m, !.leaks = @ \/ b]
    OBVIOUS
  <2> HIDE DEF r, l, m, b, s
  <2>3. /\ s \in SyntaxNode /\ Alike(r, s) /\ SamePart(r, s)
        /\ s.leaks = (r.leaks \/ b) /\ s.out = r.out \cup m /\ s.thrown = r.thrown \cup l
    BY <2>1, <2>2 DEF SyntaxNode, Alike, SamePart
  <2> QED BY <2>3, Zenon DEF r, l, m, b, s
<1> HIDE DEF node
<1>4. q \in Seq(SyntaxNode)
  BY <1>1, <1>3, IsASeq
<1>5. Len(q) = Len(p) /\ \A i \in 1..Len(p) : q[i] = node(i)
  BY <1>1
<1> HIDE DEF q
<1>6. Jumped(p, xs, q)
  BY <1>3, <1>4, <1>5 DEF Jumped, Follows
<1> QED BY <1>2, <1>6

LEMMA JumpedKnown ==
  ASSUME NEW p, NEW xs \in SUBSET Executions, NEW q, Jumped(p, xs, q), NEW k, Sound(xs, k),
         \A i \in 1..Len(p) : NodeKnown(p[i], k)
  PROVE  \A i \in 1..Len(q) : NodeKnown(q[i], k)
<1>1. ASSUME NEW i \in 1..Len(p)
      PROVE  NodeKnown(q[i], k)
  <2>1. Alike(p[i], q[i]) /\ NodeKnown(p[i], k)
    BY DEF Jumped, Follows
  <2>2. Sound(Landed(p, xs, i), k) /\ Sound(Moved(p, xs, i), k)
    BY JumpsTyped
  <2>3. Sound(q[i].out, k) /\ Sound(q[i].thrown, k)
    BY <2>1, <2>2, SoundTogether DEF Jumped, NodeKnown
  <2> QED BY <2>1, <2>3 DEF NodeKnown, Alike
<1> QED BY <1>1 DEF Jumped, Follows

LEMMA WalkJumps ==
  ASSUME NEW p, NEW d, NEW n, NEW cs, NEW ls, NEW fs, NEW snaps, NEW brs, NEW s, NEW xs, NEW k,
         Walk(p, d, n, cs, ls, fs, snaps, brs, s, xs, k), p # <<>>,
         NEW zs \in SUBSET Executions, Sound(zs, k), NEW q, Jumped(p, zs, q),
         NEW ys, Sound(ys, k)
  PROVE  Walk(q, d, n, cs, ls, fs, snaps, brs, s, ys, k)
<1>1. /\ Syntax(p, d, n) /\ ContextsFollow(p, cs) /\ StacksFollow(p, d, fs, snaps, s)
      /\ BranchesFollow(p, brs) /\ CallsKnown(p, xs, s, k, n)
  BY DEF Walk
<1>2. Follows(p, q) /\ Len(p) \in 1..Len(p) /\ Len(q) = Len(p)
  BY EmptySeq DEF Jumped, Follows
<1>3. Alike(p[Len(p)], q[Len(q)]) /\ SamePart(p[Len(p)], q[Len(q)])
  BY <1>2 DEF Jumped, Follows
<1>4. NodeShape(p[Len(p)]) /\ BranchCount(p[Len(p)], Len(BranchesAt(brs, p[Len(p)].id)))
  BY <1>1, <1>2 DEF Syntax, BranchesFollow
<1>5. NodeShape(q[Len(q)])
  BY <1>3, <1>4 DEF NodeShape, Alike, SamePart
<1>6. BranchCount(q[Len(q)], Len(BranchesAt(brs, q[Len(q)].id)))
  BY <1>3, <1>4 DEF BranchCount, Alike, SamePart
<1>7. ContextsFollow(q, cs)
  BY <1>1, <1>2, <1>3, ContextsStay DEF SamePart
<1>8. BranchesFollow(q, brs)
  BY <1>1, <1>2, <1>6, BranchesStay
<1>9. q[Len(q)].part = "between" => s = q[Len(q)].stack
  BY <1>1, <1>2, <1>3 DEF StacksFollow, Alike, SamePart
<1>10. \A i \in 1..Len(q) : NodeKnown(q[i], k)
  BY <1>1, JumpedKnown DEF CallsKnown
<1>11. Numbered(s, k, n)
  BY <1>1 DEF CallsKnown
<1>12. Turning(p, n, k, q, cs, brs, s, ys)
  BY <1>2, <1>5, <1>7, <1>8, <1>9, <1>10, <1>11 DEF Turning
<1> QED BY <1>12, WalkTurns

-----------------------------------------------------------------------------
(* Each step keeps the bookkeeping.                                        *)
Unleaked == Marks \ {"leaked"}
Marked(ms) ==
  /\ account' \in Seq(SUBSET Unleaked) /\ Len(account') = Place /\ verdict' = {}
  /\ account'[Place] = account[Place] \cup ms
  /\ \A e \in 1..Place : e # Place => account'[e] = account[e]

LEMMA PlaceKnown ==
  ASSUME WalkInv, path # <<>>
  PROVE  /\ Len(path) \in Nat \ {0} /\ Len(path) \in 1..Len(path) /\ Top \in SyntaxNode
         /\ Place \in Nat \ {0} /\ Place \in 1..Place /\ path[Len(path)].depth = Place
         /\ \A i \in 1..Len(path) : path[i] \in SyntaxNode /\ path[i].depth \in 1..Place
         /\ Within = Around(path, Len(path))
         /\ nodes \in Nat /\ stackIndexCounter \in Nat
         /\ NodeShape(Top) /\ NodePlace(path, Len(path)) /\ Top.id <= nodes
<1>1. /\ path \in Seq(SyntaxNode) /\ Syntax(path, Place, nodes) /\ account \in Seq(SUBSET Unleaked)
      /\ nodes \in 0..MaxNodes /\ stackIndexCounter \in 0..MaxOpeners
  BY DEF WalkInv, Walk, Typed, Unleaked
<1>2. Len(path) \in Nat \ {0} /\ Place \in Nat /\ DOMAIN path = 1..Len(path)
  BY <1>1, EmptySeq, LenProperties DEF Place
<1>3. Len(path) \in 1..Len(path)
  BY <1>2
<1>4. \A i \in 1..Len(path) : path[i] \in SyntaxNode
  BY <1>1, ElementOfSeq
<1>5. path[Len(path)].depth = Place
  BY <1>1 DEF Syntax
<1>6. ASSUME NEW i \in 1..Len(path)
      PROVE  path[i].depth \in 1..Place
  <2>4. path[i] \in SyntaxNode
    BY <1>4
  <2>1. path[i].depth \in Nat
    BY <2>4 DEF SyntaxNode
  <2>7. Len(path) \in Nat /\ Place \in Nat
    BY <1>2
  <2>6. i = Len(path) \/ i < Len(path)
    BY <2>7
  <2>5. i = Len(path) \/ Before(path[i], path[Len(path)])
    BY <1>1, <1>3, <2>6 DEF Syntax
  <2>2. path[i].depth <= Place
    BY <2>1, <2>5, <2>7, <1>5 DEF Before
  <2>3. path[i].depth >= 1
    <3>1. NodePlace(path, i)
      BY <1>1 DEF Syntax
    <3>2. PICK f \in Around(path, i) : path[f].kind = "function"
      BY <3>1 DEF NodePlace
    <3>3. f \in 1..Len(path) /\ path[f].depth = path[i].depth
      BY <3>2, <1>2 DEF Around
    <3>4. path[f].depth = IF f = 1 THEN 1 ELSE path[f - 1].depth + 1
      BY <3>2, <3>3, <1>1 DEF Syntax, NodePlace
    <3>5. f # 1 => f - 1 \in 1..Len(path)
      BY <3>3, <1>2
    <3>7. f # 1 => path[f - 1] \in SyntaxNode
      BY <3>5, <1>4
    <3>6. f # 1 => path[f - 1].depth \in Nat
      BY <3>7 DEF SyntaxNode
    <3> QED BY <3>3, <3>4, <3>6
  <2> QED BY <2>1, <2>2, <2>3, <2>7
<1>7. Place \in Nat \ {0} /\ Place \in 1..Place
  BY <1>2, <1>3, <1>5, <1>6
<1>8. Within = Around(path, Len(path))
  BY <1>2, <1>5 DEF Within, Around, Place
<1>9. NodeShape(Top) /\ NodePlace(path, Len(path)) /\ Top.id <= nodes
  BY <1>1, <1>3 DEF Syntax, Top
<1>10. nodes \in Nat /\ stackIndexCounter \in Nat
  BY <1>1, PairedCallsAssumption
<1> QED BY <1>2, <1>3, <1>4, <1>5, <1>6, <1>7, <1>8, <1>9, <1>10 DEF Top

LEMMA StateKnown ==
  ASSUME WalkInv
  PROVE  /\ WalkTyped(path, Place, nodes, contextStack, loopStack, functionStacks, branchStacks, openerStack)
         /\ Walk(path, Place, nodes, contextStack, loopStack, functionStacks, stackSnapshots, branchStacks,
                 openerStack, live, stackIndexCounter)
         /\ Numbered(openerStack, stackIndexCounter, nodes) /\ Sound(live, stackIndexCounter)
         /\ Numbered(openerStack, stackIndexCounter, nodes + 1)
<1>1. nodes \in Nat /\ stackIndexCounter \in Nat /\ Place \in Nat
  BY PairedCallsAssumption, LenProperties DEF WalkInv, Typed, Place
<1>2. WalkTyped(path, Place, nodes, contextStack, loopStack, functionStacks, branchStacks, openerStack)
  BY <1>1 DEF WalkInv, Typed, WalkTyped
<1>3. Numbered(openerStack, stackIndexCounter, nodes) /\ Sound(live, stackIndexCounter)
  BY DEF WalkInv, Walk, CallsKnown
<1>4. openerStack \in SUBSET Calls /\ nodes <= nodes + 1 /\ nodes + 1 \in Nat /\ stackIndexCounter <= stackIndexCounter
  BY <1>1 DEF WalkInv, Typed
<1>5. Numbered(openerStack, stackIndexCounter, nodes + 1)
  BY <1>1, <1>3, <1>4, NumberedGrows
<1> QED BY <1>2, <1>3, <1>5 DEF WalkInv

LEMMA Marking ==
  ASSUME WalkInv, path # <<>>
  PROVE  /\ Unmarked => Marked({})
         /\ \A ms \in SUBSET Unleaked : Mark(ms) => Marked(ms)
<1>1. account \in Seq(SUBSET Unleaked) /\ Place \in 1..Place /\ Place = Len(account)
  BY PlaceKnown DEF WalkInv, Typed, Unleaked, Place
<1>2. Unmarked => Marked({})
  BY <1>1 DEF Unmarked, Marked
<1>3. ASSUME NEW ms \in SUBSET Unleaked, Mark(ms)
      PROVE  Marked(ms)
  <2> DEFINE e == account[Len(account)] \cup ms
             b == [account EXCEPT ![Len(account)] = e]
  <2>1. account' = b /\ verdict' = {}
    BY <1>3 DEF Mark
  <2>2. e \in SUBSET Unleaked
    BY <1>1, ElementOfSeq
  <2> HIDE DEF e
  <2>3. b \in Seq(SUBSET Unleaked) /\ Len(b) = Len(account) /\ \A j \in 1..Len(account) : b[j] = IF j = Len(account) THEN e ELSE account[j]
    BY <1>1, <2>2, ExceptSeq
  <2> HIDE DEF b
  <2> QED BY <1>1, <2>1, <2>3 DEF Marked, e
<1> QED BY <1>2, <1>3

LEMMA MarksUnleaked ==
  /\ {} \in SUBSET Unleaked
  /\ \A b \in BOOLEAN : \A m \in Unleaked : If(b, m) \in SUBSET Unleaked
  /\ {"warned", "yielded", "wrong", "irregular", "beyond"} = Unleaked
  BY DEF If, Unleaked, Marks

(* The context that is pushed for a node inside a function.                *)
LEMMA ContextPushed ==
  ASSUME WalkInv, path # <<>>
  PROVE  \E c \in Contexts : PushContext(FALSE) = Append(contextStack, c)
                             /\ (c.inFinally <=> Finalizes(path, Len(path)))
<1>1. contextStack \in Seq(Contexts) /\ ContextsFollow(path, contextStack)
  BY DEF WalkInv, Typed, Walk
<1>2. Len(path) \in 1..Len(path) /\ Len(contextStack) = Len(path)
  BY <1>1, PlaceKnown DEF ContextsFollow
<1>3. contextStack # <<>> /\ contextStack[Len(contextStack)] \in Contexts
  BY <1>1, <1>2, EmptySeq, ElementOfSeq
<1> DEFINE c == [inFinally |-> FALSE \/ (contextStack # <<>> /\ Last(contextStack).inFinally)]
<1>4. PushContext(FALSE) = Append(contextStack, c)
  BY Zenon DEF PushContext
<1>5. c.inFinally <=> contextStack[Len(contextStack)].inFinally
  BY <1>3 DEF Last
<1>6. c \in Contexts
  BY DEF Contexts
<1> HIDE DEF c
<1>7. c.inFinally <=> Finalizes(path, Len(path))
  BY <1>1, <1>2, <1>5 DEF ContextsFollow
<1> QED BY <1>4, <1>6, <1>7

LEMMA NodeIs ==
  ASSUME WalkInv, nodes < MaxNodes, NEW kind \in Kinds, NEW part \in PartsOf(kind), part \notin {"catch", "finally", "case"},
         path # <<>> => Top.part # "between", kind # "function" => path # <<>>, kind # "try"
  PROVE  LET r == Node(kind, part)
         IN  /\ Enterable(path, Place, r, nodes) /\ r.stack = openerStack /\ r.saved = live
             /\ r.out = {} /\ r.thrown = {} /\ r.leaks = FALSE
             /\ r.kind = kind /\ r.part = part /\ r.cases = 0 /\ r.default = FALSE /\ r.catch = FALSE
             /\ r.depth = (IF kind = "function" THEN Place + 1 ELSE Place)
             /\ NodeKnown(r, stackIndexCounter) /\ r.id = nodes + 1
<1> DEFINE r == Node(kind, part)
<1>1. nodes \in 0..MaxNodes /\ live \in SUBSET Executions /\ openerStack \in SUBSET Calls /\ Place \in Nat
  BY LenProperties DEF WalkInv, Typed, Place
<1>2. nodes + 1 \in 1..MaxNodes /\ nodes + 1 - 1 = nodes
  BY <1>1, PairedCallsAssumption
<1>3. part \in Parts
  BY DEF PartsOf, Parts, Kinds
<1>4. r = [id |-> nodes + 1, kind |-> kind, part |-> part,
           depth |-> IF kind = "function" THEN Place + 1 ELSE Place,
           saved |-> live, stack |-> openerStack, out |-> {}, thrown |-> {}, leaks |-> FALSE,
           catch |-> FALSE, finally |-> FALSE, default |-> FALSE, cases |-> 0]
  BY DEF Node, Place
<1>5. (IF kind = "function" THEN Place + 1 ELSE Place) \in Nat
  BY <1>1
<1> HIDE DEF r
<1>6. r \in SyntaxNode
  BY <1>1, <1>2, <1>3, <1>4, <1>5 DEF SyntaxNode
<1>7. /\ r.id = nodes + 1 /\ r.stack = openerStack /\ r.saved = live /\ r.out = {} /\ r.thrown = {} /\ r.leaks = FALSE
      /\ r.kind = kind /\ r.part = part /\ r.cases = 0 /\ r.default = FALSE /\ r.catch = FALSE
      /\ r.depth = IF kind = "function" THEN Place + 1 ELSE Place
  BY <1>4
<1>8. NodeShape(r)
  BY <1>7 DEF NodeShape
<1>9. Enterable(path, Place, r, nodes)
  BY <1>6, <1>7, <1>8 DEF Enterable, Top
<1>10. NodeKnown(r, stackIndexCounter)
  <2>1. Numbered(openerStack, stackIndexCounter, nodes) /\ Sound(live, stackIndexCounter)
    BY DEF WalkInv, Walk, CallsKnown
  <2>2. Sound({}, stackIndexCounter)
    BY DEF Sound
  <2>5. nodes \in Nat
    BY <1>1, PairedCallsAssumption
  <2>6. r.id = nodes + 1
    BY <1>7
  <2>3. r.id - 1 = nodes
    BY <2>5, <2>6
  <2>4. Numbered(r.stack, stackIndexCounter, r.id - 1)
    BY <2>1, <2>3, <1>7, Zenon
  <2> QED BY <2>1, <2>2, <2>4, <1>7 DEF NodeKnown
<1> QED BY <1>7, <1>9, <1>10 DEF r

TryNode(catch, finally) ==
  [id |-> nodes + 1, kind |-> "try", part |-> "block", depth |-> Place,
   saved |-> live, stack |-> openerStack, out |-> {}, thrown |-> {}, leaks |-> FALSE,
   catch |-> catch, finally |-> finally, default |-> FALSE, cases |-> 0]
LEMMA TryNodeMade ==
  ASSUME NEW catch \in BOOLEAN, NEW finally \in BOOLEAN
  PROVE  [Node("try", "block") EXCEPT !.catch = catch, !.finally = finally] = TryNode(catch, finally)
<1> DEFINE b == Node("try", "block")
           t == [b EXCEPT !.catch = catch, !.finally = finally]
<1>1. b = [id |-> nodes + 1, kind |-> "try", part |-> "block", depth |-> Place,
           saved |-> live, stack |-> openerStack, out |-> {}, thrown |-> {}, leaks |-> FALSE,
           catch |-> FALSE, finally |-> FALSE, default |-> FALSE, cases |-> 0]
  BY DEF Node, Place
<1>2. t = [b EXCEPT !.catch = catch, !.finally = finally]
  OBVIOUS
<1> HIDE DEF b, t
<1>3. t = [id |-> nodes + 1, kind |-> "try", part |-> "block", depth |-> Place,
           saved |-> live, stack |-> openerStack, out |-> {}, thrown |-> {}, leaks |-> FALSE,
           catch |-> catch, finally |-> finally, default |-> FALSE, cases |-> 0]
  BY <1>1, <1>2
<1> QED BY <1>3 DEF b, t, TryNode

TryNodeFits(r, catch) ==
  /\ Enterable(path, Place, r, nodes) /\ r.stack = openerStack /\ r.saved = live
  /\ r.kind = "try" /\ r.part = "block" /\ r.out = {} /\ r.thrown = {} /\ r.leaks = FALSE /\ r.catch = catch
  /\ NodeKnown(r, stackIndexCounter) /\ r.id = nodes + 1
LEMMA TryNodeIs ==
  ASSUME WalkInv, InCode, nodes < MaxNodes, ~ InFinalizer, NEW catch \in BOOLEAN, NEW finally \in BOOLEAN, catch \/ finally,
         NEW r, r = TryNode(catch, finally)
  PROVE  TryNodeFits(r, catch)
<1>1. nodes \in 0..MaxNodes /\ live \in SUBSET Executions /\ openerStack \in SUBSET Calls /\ Place \in Nat
  BY LenProperties DEF WalkInv, Typed, Place
<1>2. nodes + 1 \in 1..MaxNodes /\ nodes \in Nat
  BY <1>1, PairedCallsAssumption
<1>4. r \in SyntaxNode
  BY <1>1, <1>2 DEF TryNode, SyntaxNode, Kinds, Parts
<1>3. r.leaks = FALSE /\ r.catch = catch /\ r.finally = finally /\ r.default = FALSE
  BY Zenon DEF TryNode
<1>5. /\ r.stack = openerStack /\ r.saved = live /\ r.out = {} /\ r.thrown = {}
      /\ r.kind = "try" /\ r.part = "block" /\ r.cases = 0 /\ r.depth = Place /\ r.id = nodes + 1
  BY DEF TryNode
<1>6. path # <<>> /\ Top.part # "between"
  BY DEF InCode
<1>7. ~ Finalizes(path, Len(path))
  BY <1>6, PlaceKnown DEF InFinalizer, Finalizes
<1>8. NodeShape(r)
  BY <1>3, <1>5 DEF NodeShape, PartsOf
<1>9. Enterable(path, Place, r, nodes)
  BY <1>4, <1>5, <1>6, <1>7, <1>8 DEF Enterable, Top
<1>10. NodeKnown(r, stackIndexCounter)
  <2>1. Numbered(openerStack, stackIndexCounter, nodes) /\ Sound(live, stackIndexCounter)
    BY StateKnown
  <2>2. Sound({}, stackIndexCounter)
    BY DEF Sound
  <2>3. r.id - 1 = nodes
    BY <1>2, <1>5
  <2> QED BY <2>1, <2>2, <2>3, <1>5 DEF NodeKnown
<1> QED BY Zenon, <1>3, <1>5, <1>9, <1>10 DEF TryNodeFits

(* A node inside a function is entered.                                    *)
Entered(r) ==
  /\ path # <<>> /\ r.kind # "function"
  /\ Enterable(path, Place, r, nodes) /\ r.stack = openerStack /\ r.part # "finally" /\ BranchCount(r, 0)
  /\ NodeKnown(r, stackIndexCounter)
  /\ nodes' = nodes + 1 /\ contextStack' = PushContext(FALSE)
  /\ loopStack' = LoopsWith(r, loopStack) /\ stackSnapshots' = SnapshotsWith(r, stackSnapshots)
  /\ Unmarked /\ UNCHANGED <<openerStack, functionStacks, stackIndexCounter, branchStacks, flags>>
  /\ live' \in SUBSET Executions /\ Sound(live', stackIndexCounter)

LEMMA EnteredWalks ==
  ASSUME WalkInv, NEW r, Entered(r)
  PROVE  /\ Walk(Append(path, r), Place, nodes', contextStack', loopStack', functionStacks',
                 stackSnapshots', branchStacks', openerStack', live', stackIndexCounter')
         /\ Append(path, r) \in Seq(SyntaxNode)
         /\ path' \in Seq(SyntaxNode) => Typed'
<1>1. /\ path # <<>> /\ r.kind # "function" /\ r \in SyntaxNode /\ r.id = nodes + 1 /\ r.depth = Place
      /\ nodes' = nodes + 1 /\ contextStack' = PushContext(FALSE)
      /\ loopStack' = LoopsWith(r, loopStack) /\ stackSnapshots' = SnapshotsWith(r, stackSnapshots)
      /\ Unmarked /\ UNCHANGED <<openerStack, functionStacks, stackIndexCounter, branchStacks, flags>>
      /\ live' \in SUBSET Executions /\ Sound(live', stackIndexCounter)
  BY DEF Entered, Enterable
<1>2. PICK c \in Contexts : contextStack' = Append(contextStack, c) /\ (c.inFinally <=> Finalizes(path, Len(path)))
  BY <1>1, ContextPushed
<1>3. Entering(path, Place, nodes, openerStack, stackIndexCounter, r, c, openerStack, live')
  BY <1>1, <1>2, StateKnown DEF Entering, Entered
<1>4. StacksWith(r, functionStacks) = functionStacks
  BY <1>1 DEF StacksWith
<1>5. /\ Walk(Append(path, r), Place, nodes', contextStack', loopStack', functionStacks',
              stackSnapshots', branchStacks', openerStack', live', stackIndexCounter')
      /\ Append(path, r) \in Seq(SyntaxNode) /\ contextStack' \in Seq(Contexts) /\ loopStack' \in Seq(1..MaxNodes)
  BY <1>1, <1>2, <1>3, <1>4, WalkEnters, StateKnown
<1>6. Marked({})
  BY <1>1, Marking
<1>7. stackSnapshots' \in [DOMAIN stackSnapshots' -> SUBSET Calls]
  <2>1. r.stack \in SUBSET Calls
    BY <1>1 DEF SyntaxNode
  <2> QED BY <1>1, <2>1, MapTypes DEF WalkInv, Typed, SnapshotsWith
<1>8. nodes' \in 0..MaxNodes
  BY <1>1, PairedCallsAssumption DEF WalkInv, Typed, SyntaxNode
<1>9. path' \in Seq(SyntaxNode) => Typed'
  BY <1>1, <1>5, <1>6, <1>7, <1>8 DEF WalkInv, Typed, Marked, Unleaked, flags
<1> QED BY <1>5, <1>9

LEMMA PlaceStays ==
  ASSUME NEW ms, Marked(ms)
  PROVE  Place' = Place
  BY DEF Marked, Place

(* The node that EnterIf, EnterLoop and EnterSwitch enter.                 *)
Fresh(r) ==
  /\ Entered(r) /\ InCode /\ r.saved = live /\ path' = Append(path, r)
  /\ r.out = {} /\ r.thrown = {} /\ r.leaks = FALSE /\ r.catch = FALSE /\ r.cases = 0
  /\ live' = (IF r.part = "between" THEN {} ELSE live) /\ (r.kind = "switch" <=> r.part = "between")
LEMMA FreshWalks == ASSUME WalkInv, NEW r, Fresh(r) PROVE WalkInv'
<1>1. path # <<>> /\ Entered(r) /\ path' = Append(path, r) /\ Unmarked
  BY DEF Fresh, Entered
<1> QED BY <1>1, EnteredWalks, Marking, PlaceStays DEF WalkInv

LEMMA EnterIfIsFresh == ASSUME WalkInv, EnterIf PROVE Fresh(Node("if", "then"))
<1> DEFINE r == Node("if", "then")
<1>1. /\ InCode /\ path # <<>> /\ Top.part # "between" /\ nodes < MaxNodes
      /\ path' = Append(path, r) /\ nodes' = nodes + 1 /\ contextStack' = PushContext(FALSE)
      /\ stackSnapshots' = With(stackSnapshots, nodes + 1, openerStack) /\ loopStack' = loopStack
      /\ Unmarked /\ live' = live
      /\ UNCHANGED <<openerStack, functionStacks, stackIndexCounter, branchStacks, flags>>
  BY DEF EnterIf, CanEnter, InCode, maps
<1>2. /\ Enterable(path, Place, r, nodes) /\ r.stack = openerStack /\ r.saved = live /\ r.cases = 0
      /\ r.kind = "if" /\ r.part = "then" /\ r.out = {} /\ r.thrown = {} /\ r.leaks = FALSE /\ r.catch = FALSE
      /\ NodeKnown(r, stackIndexCounter) /\ r.id = nodes + 1
  BY <1>1, NodeIs DEF Kinds, PartsOf
<1> HIDE DEF r
<1>3. Entered(r)
  <2>1. BranchCount(r, 0)
    BY <1>2 DEF BranchCount
  <2>2. LoopsWith(r, loopStack) = loopStack' /\ SnapshotsWith(r, stackSnapshots) = stackSnapshots'
    BY <1>1, <1>2 DEF LoopsWith, SnapshotsWith, Branching
  <2>3. live' \in SUBSET Executions /\ Sound(live', stackIndexCounter)
    BY <1>1, StateKnown DEF WalkInv, Typed, Sound
  <2> QED BY <1>1, <1>2, <2>1, <2>2, <2>3 DEF Entered
<1>4. Fresh(r)
  BY <1>1, <1>2, <1>3 DEF Fresh
<1> QED BY <1>4 DEF r

LEMMA EnterLoopIsFresh == ASSUME WalkInv, EnterLoop PROVE Fresh(Node("loop", "body"))
<1> DEFINE r == Node("loop", "body")
<1>1. /\ InCode /\ path # <<>> /\ Top.part # "between" /\ nodes < MaxNodes
      /\ path' = Append(path, r) /\ nodes' = nodes + 1 /\ contextStack' = PushContext(FALSE)
      /\ stackSnapshots' = stackSnapshots /\ loopStack' = Append(loopStack, nodes + 1)
      /\ Unmarked /\ live' = live
      /\ UNCHANGED <<openerStack, functionStacks, stackIndexCounter, branchStacks, flags>>
  BY DEF EnterLoop, CanEnter, InCode, maps
<1>2. /\ Enterable(path, Place, r, nodes) /\ r.stack = openerStack /\ r.saved = live /\ r.cases = 0
      /\ r.kind = "loop" /\ r.part = "body" /\ r.out = {} /\ r.thrown = {} /\ r.leaks = FALSE /\ r.catch = FALSE
      /\ NodeKnown(r, stackIndexCounter) /\ r.id = nodes + 1
  BY <1>1, NodeIs DEF Kinds, PartsOf
<1> HIDE DEF r
<1>3. Entered(r)
  <2>1. BranchCount(r, 0)
    BY <1>2 DEF BranchCount
  <2>2. LoopsWith(r, loopStack) = loopStack' /\ SnapshotsWith(r, stackSnapshots) = stackSnapshots'
    BY <1>1, <1>2 DEF LoopsWith, SnapshotsWith, Branching
  <2>3. live' \in SUBSET Executions /\ Sound(live', stackIndexCounter)
    BY <1>1, StateKnown DEF WalkInv, Typed, Sound
  <2> QED BY <1>1, <1>2, <2>1, <2>2, <2>3 DEF Entered
<1>4. Fresh(r)
  BY <1>1, <1>2, <1>3 DEF Fresh
<1> QED BY <1>4 DEF r

LEMMA EnterSwitchIsFresh == ASSUME WalkInv, EnterSwitch PROVE Fresh(Node("switch", "between"))
<1> DEFINE r == Node("switch", "between")
<1>1. /\ InCode /\ path # <<>> /\ Top.part # "between" /\ nodes < MaxNodes
      /\ path' = Append(path, r) /\ nodes' = nodes + 1 /\ contextStack' = PushContext(FALSE)
      /\ stackSnapshots' = With(stackSnapshots, nodes + 1, openerStack) /\ loopStack' = loopStack
      /\ Unmarked /\ live' = {}
      /\ UNCHANGED <<openerStack, functionStacks, stackIndexCounter, branchStacks, flags>>
  BY DEF EnterSwitch, CanEnter, InCode, maps
<1>2. /\ Enterable(path, Place, r, nodes) /\ r.stack = openerStack /\ r.saved = live /\ r.cases = 0
      /\ r.kind = "switch" /\ r.part = "between" /\ r.out = {} /\ r.thrown = {} /\ r.leaks = FALSE /\ r.catch = FALSE
      /\ NodeKnown(r, stackIndexCounter) /\ r.id = nodes + 1
  BY <1>1, NodeIs DEF Kinds, PartsOf
<1> HIDE DEF r
<1>3. Entered(r)
  <2>1. BranchCount(r, 0)
    BY <1>2 DEF BranchCount
  <2>2. LoopsWith(r, loopStack) = loopStack' /\ SnapshotsWith(r, stackSnapshots) = stackSnapshots'
    BY <1>1, <1>2 DEF LoopsWith, SnapshotsWith, Branching
  <2>3. live' \in SUBSET Executions /\ Sound(live', stackIndexCounter)
    BY <1>1, StateKnown DEF WalkInv, Typed, Sound
  <2> QED BY <1>1, <1>2, <2>1, <2>2, <2>3 DEF Entered
<1>4. Fresh(r)
  BY <1>1, <1>2, <1>3 DEF Fresh
<1> QED BY <1>4 DEF r

LEMMA TowardsTyped ==
  ASSUME WalkInv, NEW to \in 0..Throw
  PROVE  /\ Towards(to) \in SUBSET Executions /\ Sound(Towards(to), stackIndexCounter)
         /\ \A y \in Towards(to) : y.to = to /\ \E x \in live : y.open = x.open
         /\ \A x \in live : \E y \in Towards(to) : y.open = x.open
<1>1. live \in SUBSET Executions /\ Sound(live, stackIndexCounter)
  BY StateKnown DEF WalkInv, Typed
<1>2. ASSUME NEW x \in Executions
      PROVE  [x EXCEPT !.to = to] \in Executions /\ [x EXCEPT !.to = to].open = x.open /\ [x EXCEPT !.to = to].to = to
  BY DEF Executions
<1>3. ASSUME NEW y \in Towards(to)
      PROVE  y \in Executions /\ y.to = to /\ \E x \in live : y.open = x.open
  <2>1. PICK x \in live : y = [x EXCEPT !.to = to]
    BY DEF Towards
  <2> QED BY <1>1, <1>2, <2>1
<1>4. ASSUME NEW x \in live
      PROVE  \E y \in Towards(to) : y.open = x.open
  BY <1>1, <1>2 DEF Towards
<1>5. Sound(Towards(to), stackIndexCounter)
  BY <1>1, <1>3 DEF Sound
<1> QED BY <1>3, <1>4, <1>5

(* The node that EnterTry enters; with a catch clause the block may throw. *)
Guarded(r, catch, xs) ==
  /\ Entered(r) /\ InCode /\ r.saved = live /\ live' = live /\ path' = Deliver(Append(path, r), xs)
  /\ r.out = {} /\ r.thrown = {} /\ r.leaks = FALSE /\ r.kind = "try" /\ r.part = "block" /\ r.catch = catch
  /\ xs = (IF catch THEN Towards(Throw) ELSE {}) /\ xs \in SUBSET Executions /\ Sound(xs, stackIndexCounter)
LEMMA EnterTryIsGuarded ==
  ASSUME WalkInv, NEW catch \in BOOLEAN, NEW finally \in BOOLEAN, EnterTry(catch, finally)
  PROVE  Guarded([Node("try", "block") EXCEPT !.catch = catch, !.finally = finally], catch,
                 IF catch THEN Towards(Throw) ELSE {})
<1> DEFINE r == [Node("try", "block") EXCEPT !.catch = catch, !.finally = finally]
           xs == IF catch THEN Towards(Throw) ELSE {}
<1>1. /\ InCode /\ nodes < MaxNodes /\ ~ InFinalizer /\ (catch \/ finally) /\ path # <<>>
      /\ path' = Deliver(Append(path, r), xs) /\ nodes' = nodes + 1 /\ contextStack' = PushContext(FALSE)
      /\ stackSnapshots' = With(stackSnapshots, nodes + 1, openerStack) /\ Unmarked
      /\ UNCHANGED <<openerStack, loopStack, functionStacks, stackIndexCounter, branchStacks, flags, live>>
  BY DEF EnterTry, CanEnter, InCode
<1>3. Throw \in 0..Throw
  BY PairedCallsAssumption DEF Throw
<1>4. xs \in SUBSET Executions /\ Sound(xs, stackIndexCounter)
  BY <1>3, TowardsTyped DEF Sound
<1>6. xs = (IF catch THEN Towards(Throw) ELSE {})
  OBVIOUS
<1>8. r = TryNode(catch, finally)
  BY TryNodeMade
<1> HIDE DEF r, xs
<1>9. InCode /\ nodes < MaxNodes /\ ~ InFinalizer /\ (catch \/ finally)
  BY <1>1
<1>10. TryNodeFits(r, catch)
  BY <1>8, <1>9, TryNodeIs
<1>2. /\ Enterable(path, Place, r, nodes) /\ r.stack = openerStack /\ r.saved = live
      /\ r.kind = "try" /\ r.part = "block" /\ r.out = {} /\ r.thrown = {} /\ r.leaks = FALSE /\ r.catch = catch
      /\ NodeKnown(r, stackIndexCounter) /\ r.id = nodes + 1
  BY Zenon, <1>10 DEF TryNodeFits
<1>5. Entered(r)
  <2>1. BranchCount(r, 0)
    BY <1>2 DEF BranchCount
  <2>2. LoopsWith(r, loopStack) = loopStack /\ SnapshotsWith(r, stackSnapshots) = stackSnapshots'
    BY <1>1, <1>2 DEF LoopsWith, SnapshotsWith, Branching
  <2>3. live' \in SUBSET Executions /\ Sound(live', stackIndexCounter)
    BY <1>1, StateKnown DEF WalkInv, Typed
  <2> QED BY <1>1, <1>2, <2>1, <2>2, <2>3 DEF Entered
<1>7. Guarded(r, catch, xs)
  BY <1>1, <1>2, <1>4, <1>5, <1>6 DEF Guarded
<1> QED BY <1>7 DEF r, xs

LEMMA GuardedWalks ==
  ASSUME WalkInv, NEW r, NEW catch, NEW xs, Guarded(r, catch, xs)
  PROVE  WalkInv' /\ Jumped(Append(path, r), xs, path')
<1>1. /\ Entered(r) /\ path # <<>> /\ path' = Deliver(Append(path, r), xs) /\ Unmarked /\ live' = live
      /\ stackIndexCounter' = stackIndexCounter /\ r \in SyntaxNode
      /\ xs \in SUBSET Executions /\ Sound(xs, stackIndexCounter)
  BY DEF Guarded, Entered, Enterable
<1>6. /\ Walk(Append(path, r), Place, nodes', contextStack', loopStack', functionStacks',
              stackSnapshots', branchStacks', openerStack', live', stackIndexCounter')
      /\ Append(path, r) \in Seq(SyntaxNode) /\ Append(path, r) # <<>>
      /\ path' \in Seq(SyntaxNode) => Typed'
  <2>2. path \in Seq(SyntaxNode) /\ r \in SyntaxNode
    BY <1>1 DEF WalkInv, Typed
  <2>1. Append(path, r) # <<>>
    BY <2>2, AppendIs
  <2> QED BY <1>1, <2>1, EnteredWalks
<1>7. Jumped(Append(path, r), xs, path')
  BY <1>1, <1>6, Delivered
<1>8. path' \in Seq(SyntaxNode)
  BY <1>7 DEF Jumped, Follows
<1>9. Sound(live', stackIndexCounter') /\ Sound(xs, stackIndexCounter')
  BY <1>1, StateKnown
<1>10. Walk(path', Place, nodes', contextStack', loopStack', functionStacks',
            stackSnapshots', branchStacks', openerStack', live', stackIndexCounter')
  BY <1>1, <1>6, <1>7, <1>9, WalkJumps
<1> QED BY <1>1, <1>6, <1>7, <1>8, <1>10, Marking, PlaceStays DEF WalkInv

LEMMA EnterFunctionWalks == ASSUME WalkInv, EnterFunction PROVE WalkInv'
<1> DEFINE r == Node("function", "body")
           c == [inFinally |-> FALSE]
           x == [open |-> {}, to |-> Here]
<1>1. /\ nodes < MaxNodes /\ (path # <<>> => Top.part # "between")
      /\ path' = Append(path, r) /\ nodes' = nodes + 1 /\ contextStack' = Append(contextStack, c)
      /\ functionStacks' = Append(functionStacks, openerStack) /\ openerStack' = {}
      /\ live' = {x} /\ account' = Append(account, {}) /\ verdict' = {}
      /\ yieldingAutoClosed' = FALSE /\ yieldingReportedFirst' = FALSE
      /\ UNCHANGED <<loopStack, stackIndexCounter, maps>>
  BY DEF EnterFunction, InCode
<1>2. /\ Enterable(path, Place, r, nodes) /\ r.stack = openerStack
      /\ r.kind = "function" /\ r.part = "body" /\ r.depth = Place + 1
      /\ NodeKnown(r, stackIndexCounter) /\ r.id = nodes + 1
  BY <1>1, NodeIs DEF Kinds, PartsOf
<1>3. x \in Executions /\ x.open = {}
  BY PairedCallsAssumption DEF Executions, Here, Throw
<1>4. c \in Contexts /\ c.inFinally = FALSE
  BY DEF Contexts
<1> HIDE DEF r, c, x
<1>5. BranchCount(r, 0)
  BY <1>2 DEF BranchCount
<1>6. Numbered({}, stackIndexCounter, nodes + 1) /\ Sound(live', stackIndexCounter)
  BY <1>1, <1>3, FS_EmptySet DEF Numbered, Sound
<1>7. Entering(path, Place, nodes, openerStack, stackIndexCounter, r, c, {}, live')
  BY <1>1, <1>2, <1>4, <1>5, <1>6 DEF Entering
<1>8. /\ StacksWith(r, functionStacks) = functionStacks' /\ LoopsWith(r, loopStack) = loopStack'
      /\ SnapshotsWith(r, stackSnapshots) = stackSnapshots' /\ branchStacks' = branchStacks
  BY <1>1, <1>2 DEF StacksWith, LoopsWith, SnapshotsWith, Branching, maps
<1>9. /\ Walk(Append(path, r), r.depth, nodes + 1, Append(contextStack, c), LoopsWith(r, loopStack),
              StacksWith(r, functionStacks), SnapshotsWith(r, stackSnapshots), branchStacks, {}, live', stackIndexCounter)
      /\ Append(path, r) \in Seq(SyntaxNode) /\ Append(contextStack, c) \in Seq(Contexts)
      /\ StacksWith(r, functionStacks) \in Seq(SUBSET Calls)
  BY <1>7, WalkEnters, StateKnown
<1>10. account' \in Seq(SUBSET Unleaked) /\ Place' = Place + 1
  <2>1. {} \in SUBSET Unleaked /\ account \in Seq(SUBSET Unleaked)
    BY DEF WalkInv, Typed, Unleaked
  <2>2. Append(account, {}) \in Seq(SUBSET Unleaked) /\ Len(Append(account, {})) = Len(account) + 1
    BY <2>1, AppendIs
  <2> QED BY <1>1, <2>2 DEF Place
<1>11. nodes' \in 0..MaxNodes
  <2>1. r.id \in 1..MaxNodes
    BY <1>2 DEF Enterable, SyntaxNode
  <2> QED BY <1>1, <1>2, <2>1, PairedCallsAssumption
<1>12. Typed'
  BY <1>1, <1>3, <1>8, <1>9, <1>10, <1>11 DEF WalkInv, Typed, Unleaked, maps
<1>13. stackIndexCounter' = stackIndexCounter
  BY <1>1
<1> QED BY <1>1, <1>2, <1>8, <1>9, <1>10, <1>12, <1>13 DEF WalkInv
-----------------------------------------------------------------------------
(* What the rule remembers for the branching node that is on top.          *)
LEMMA OriginalIs ==
  ASSUME WalkInv, path # <<>>, Top.kind \in Branching
  PROVE  /\ stackSnapshots[Top.id] = Top.stack /\ Top.stack \in SUBSET Calls
         /\ Branches(Top.id) = BranchesAt(branchStacks, Top.id) /\ Branches(Top.id) \in Seq(SUBSET Calls)
         /\ Recorded(Top.id) = Append(Branches(Top.id), openerStack) /\ Recorded(Top.id) \in Seq(SUBSET Calls)
         /\ Len(Branches(Top.id)) \in Nat /\ Len(Recorded(Top.id)) = Len(Branches(Top.id)) + 1
         /\ BranchCount(Top, Len(Branches(Top.id)))
         /\ Numbered(Top.stack, stackIndexCounter, nodes)
<1>1. /\ Len(path) \in 1..Len(path) /\ Top = path[Len(path)] /\ Top \in SyntaxNode
      /\ nodes \in Nat /\ stackIndexCounter \in Nat /\ Top.id <= nodes
  BY PlaceKnown DEF Top
<1>2. /\ StacksFollow(path, Place, functionStacks, stackSnapshots, openerStack)
      /\ BranchesFollow(path, branchStacks) /\ CallsKnown(path, live, openerStack, stackIndexCounter, nodes)
      /\ branchStacks \in [DOMAIN branchStacks -> Seq(SUBSET Calls)] /\ openerStack \in SUBSET Calls
  BY DEF WalkInv, Walk, Typed
<1>3. stackSnapshots[Top.id] = Top.stack
  BY <1>1, <1>2 DEF StacksFollow
<1>4. Branches(Top.id) = BranchesAt(branchStacks, Top.id)
  BY Zenon DEF Branches, BranchesAt
<1>5. Branches(Top.id) \in Seq(SUBSET Calls) /\ Len(Branches(Top.id)) \in Nat
  BY <1>2, <1>4, BranchesAtIs
<1>6. Recorded(Top.id) = Append(Branches(Top.id), openerStack)
  BY DEF Recorded
<1>7. Recorded(Top.id) \in Seq(SUBSET Calls) /\ Len(Recorded(Top.id)) = Len(Branches(Top.id)) + 1
  BY <1>2, <1>5, <1>6, AppendIs
<1>8. BranchCount(Top, Len(Branches(Top.id)))
  BY <1>1, <1>2, <1>4 DEF BranchesFollow
<1>9. Top.stack \in SUBSET Calls /\ Top.id \in Nat /\ Top.id \in 1..MaxNodes
  BY <1>1 DEF SyntaxNode
<1>10. Numbered(Top.stack, stackIndexCounter, Top.id - 1)
  BY <1>1, <1>2 DEF CallsKnown, NodeKnown
<1>11. Top.id - 1 \in Nat /\ Top.id - 1 <= nodes
  BY <1>1, <1>9, PairedCallsAssumption
<1>12. Numbered(Top.stack, stackIndexCounter, nodes)
  BY <1>1, <1>9, <1>10, <1>11, NumberedGrows
<1> QED BY <1>3, <1>4, <1>5, <1>6, <1>7, <1>8, <1>9, <1>12

LEMMA TopKnown ==
  ASSUME WalkInv, path # <<>>
  PROVE  /\ NodeKnown(Top, stackIndexCounter) /\ Sound(Top.saved, stackIndexCounter)
         /\ Sound(Top.out, stackIndexCounter) /\ Sound(Top.thrown, stackIndexCounter)
         /\ Top.saved \in SUBSET Executions /\ Top.out \in SUBSET Executions /\ Top.thrown \in SUBSET Executions
         /\ live \in SUBSET Executions /\ Sound(live, stackIndexCounter)
<1>1. Len(path) \in 1..Len(path) /\ Top = path[Len(path)] /\ Top \in SyntaxNode
  BY PlaceKnown DEF Top
<1>2. NodeKnown(Top, stackIndexCounter)
  BY <1>1 DEF WalkInv, Walk, CallsKnown
<1>3. Top.saved \in SUBSET Executions /\ Top.out \in SUBSET Executions /\ Top.thrown \in SUBSET Executions
  BY <1>1 DEF SyntaxNode
<1> QED BY <1>2, <1>3, StateKnown DEF NodeKnown, WalkInv, Typed

LEMMA CommonIs ==
  ASSUME NEW original \in SUBSET Calls, NEW branches
  PROVE  Common(original, branches) \in SUBSET original
  BY DEF Common

LEMMA NumberedLess ==
  ASSUME NEW s, NEW t \in SUBSET s, NEW k, NEW n, Numbered(s, k, n)
  PROVE  Numbered(t, k, n)
  BY DEF Numbered

(* Jumps. *)
LEMMA JumpWalks ==
  ASSUME WalkInv, path # <<>>, NEW zs \in SUBSET Executions, Sound(zs, stackIndexCounter),
         path' = Deliver(path, zs), live' = {}, NEW ms, Marked(ms),
         UNCHANGED <<stacks, stackIndexCounter, maps, flags, nodes>>
  PROVE  WalkInv' /\ Jumped(path, zs, path')
<1>1. Jumped(path, zs, path')
  BY Delivered DEF WalkInv, Typed
<1>2. path' \in Seq(SyntaxNode)
  BY <1>1 DEF Jumped, Follows
<1>3. Sound({}, stackIndexCounter)
  BY DEF Sound
<1>4. Walk(path', Place, nodes, contextStack, loopStack, functionStacks, stackSnapshots, branchStacks,
           openerStack, {}, stackIndexCounter)
  BY <1>1, <1>3, StateKnown, WalkJumps
<1>5. Typed'
  BY <1>2 DEF WalkInv, Typed, Marked, Unleaked, stacks, maps, flags
<1>6. Place' = Place
  BY PlaceStays
<1>7. /\ nodes' = nodes /\ contextStack' = contextStack /\ loopStack' = loopStack /\ functionStacks' = functionStacks
      /\ stackSnapshots' = stackSnapshots /\ branchStacks' = branchStacks /\ openerStack' = openerStack
      /\ stackIndexCounter' = stackIndexCounter
  BY DEF stacks, maps
<1>8. Walk(path', Place', nodes', contextStack', loopStack', functionStacks', stackSnapshots', branchStacks',
           openerStack', live', stackIndexCounter')
  BY <1>4, <1>6, <1>7
<1> QED BY <1>1, <1>5, <1>8 DEF WalkInv

(* A node inside a function is left, or turns to its next part.            *)
Left(ms) ==
  /\ path # <<>> /\ Top.kind # "function" /\ Marked(ms)
  /\ loopStack' = LoopsLess(Top, loopStack) /\ contextStack' = PopContext
  /\ stackSnapshots' = MapWithout(Top, stackSnapshots) /\ branchStacks' = MapWithout(Top, branchStacks)
  /\ UNCHANGED <<functionStacks, stackIndexCounter, flags, nodes>>
  /\ live' \in SUBSET Executions /\ Sound(live', stackIndexCounter)
  /\ openerStack' \in SUBSET Calls /\ Numbered(openerStack', stackIndexCounter, nodes)

LEMMA LeftWalks ==
  ASSUME WalkInv, NEW ms, Left(ms)
  PROVE  /\ Walk(Front(path), Place, nodes', contextStack', loopStack', functionStacks',
                 stackSnapshots', branchStacks', openerStack', live', stackIndexCounter')
         /\ Front(path) \in Seq(SyntaxNode) /\ Place' = Place
         /\ path' \in Seq(SyntaxNode) => Typed'
<1>1. Top = path[Len(path)] /\ DepthLess(Top, Place) = Place /\ StacksLess(Top, functionStacks) = functionStacks
  BY DEF Top, DepthLess, StacksLess, Left
<1>2. Leaving(path, nodes, stackIndexCounter, openerStack', live')
  BY DEF Leaving, Left
<1>3. /\ Walk(Front(path), Place, nodes, Front(contextStack), LoopsLess(Top, loopStack), functionStacks,
              MapWithout(Top, stackSnapshots), MapWithout(Top, branchStacks), openerStack', live', stackIndexCounter)
      /\ Front(path) \in Seq(SyntaxNode) /\ Front(contextStack) \in Seq(Contexts)
      /\ LoopsLess(Top, loopStack) \in Seq(1..MaxNodes)
  BY <1>1, <1>2, StateKnown, WalkLeaves
<1>4. /\ Walk(Front(path), Place, nodes', contextStack', loopStack', functionStacks',
              stackSnapshots', branchStacks', openerStack', live', stackIndexCounter')
      /\ contextStack' \in Seq(Contexts) /\ loopStack' \in Seq(1..MaxNodes)
  BY <1>3 DEF Left, PopContext
<1>5. /\ stackSnapshots \in [DOMAIN stackSnapshots -> SUBSET Calls]
      /\ branchStacks \in [DOMAIN branchStacks -> Seq(SUBSET Calls)]
  BY DEF WalkInv, Typed
<1>6. {} \in SUBSET Calls /\ <<>> \in Seq(SUBSET Calls)
  OBVIOUS
<1>7. /\ stackSnapshots' \in [DOMAIN stackSnapshots' -> SUBSET Calls]
      /\ branchStacks' \in [DOMAIN branchStacks' -> Seq(SUBSET Calls)]
  <2>1. Without(stackSnapshots, Top.id) \in [DOMAIN Without(stackSnapshots, Top.id) -> SUBSET Calls]
    BY <1>5, <1>6, MapTypes
  <2>2. Without(branchStacks, Top.id) \in [DOMAIN Without(branchStacks, Top.id) -> Seq(SUBSET Calls)]
    BY <1>5, <1>6, MapTypes
  <2> QED BY <1>5, <2>1, <2>2 DEF Left, MapWithout
<1>8. path' \in Seq(SyntaxNode) => Typed'
  BY <1>4, <1>7 DEF WalkInv, Typed, Marked, Unleaked, flags, Left
<1>9. Place' = Place
  BY PlaceStays DEF Left
<1> QED BY <1>3, <1>4, <1>8, <1>9

Turned(r, ms) ==
  /\ path # <<>> /\ TopBecomes(r) /\ r \in SyntaxNode /\ Alike(Top, r) /\ NodeShape(r)
  /\ NodeKnown(r, stackIndexCounter) /\ Marked(ms)
  /\ ContextsFollow(path', contextStack') /\ contextStack' \in Seq(Contexts)
  /\ BranchesFollow(path', branchStacks') /\ branchStacks' \in [DOMAIN branchStacks' -> Seq(SUBSET Calls)]
  /\ live' \in SUBSET Executions /\ Sound(live', stackIndexCounter)
  /\ openerStack' \in SUBSET Calls /\ Numbered(openerStack', stackIndexCounter, nodes)
  /\ r.part = "between" => openerStack' = r.stack
  /\ UNCHANGED <<loopStack, functionStacks, stackIndexCounter, stackSnapshots, flags, nodes>>

LEMMA TopTurns ==
  ASSUME WalkInv, path # <<>>, NEW r \in SyntaxNode, Alike(Top, r), TopBecomes(r)
  PROVE  /\ Follows(path, path') /\ path' # <<>> /\ path'[Len(path)] = r /\ Len(path') = Len(path)
         /\ \A i \in 1..Len(path) : i < Len(path) => path'[i] = path[i]
  BY TopReplaced DEF WalkInv, Typed, Top, TopBecomes, Follows

LEMMA TurnedWalks ==
  ASSUME WalkInv, NEW r, NEW ms, Turned(r, ms)
  PROVE  WalkInv'
<1>1. /\ Follows(path, path') /\ path'[Len(path')] = r /\ Len(path') = Len(path) /\ path # <<>> /\ Len(path) \in 1..Len(path)
      /\ \A i \in 1..Len(path) : i < Len(path) => path'[i] = path[i]
  BY TopTurns, PlaceKnown DEF Turned
<1>2. path' \in Seq(SyntaxNode)
  BY <1>1 DEF Follows
<1>3. \A i \in 1..Len(path) : NodeKnown(path[i], stackIndexCounter)
  BY DEF WalkInv, Walk, CallsKnown
<1>9. Len(path) \in Nat
  BY <1>1, PlaceKnown
<1>4. \A i \in 1..Len(path') : NodeKnown(path'[i], stackIndexCounter)
  <2>1. ASSUME NEW i \in 1..Len(path)
        PROVE  NodeKnown(path'[i], stackIndexCounter)
    <3>1. CASE i = Len(path)
      BY <3>1, <1>1 DEF Turned
    <3>2. CASE i < Len(path)
      BY <3>2, <1>1, <1>3
    <3> QED BY <3>1, <3>2, <1>9
  <2> QED BY <2>1, <1>1
<1>5. Turning(path, nodes, stackIndexCounter, path', contextStack', branchStacks', openerStack', live')
  BY <1>1, <1>4 DEF Turned, Turning
<1>6. Walk(path', Place, nodes, contextStack', loopStack, functionStacks, stackSnapshots, branchStacks',
           openerStack', live', stackIndexCounter)
  BY <1>5, StateKnown, WalkTurns
<1>7. Typed'
  BY <1>2 DEF WalkInv, Typed, Marked, Unleaked, flags, Turned
<1>8. /\ Place' = Place /\ nodes' = nodes /\ loopStack' = loopStack /\ functionStacks' = functionStacks
      /\ stackSnapshots' = stackSnapshots /\ stackIndexCounter' = stackIndexCounter
  BY PlaceStays DEF Turned
<1> QED BY <1>6, <1>7, <1>8 DEF WalkInv
Turn(r, part, xs) == [r EXCEPT !.part = part, !.out = @ \cup xs]
LEMMA PartChanged ==
  ASSUME NEW r \in SyntaxNode, NEW part \in Parts, NEW xs \in SUBSET Executions, NEW s, s = Turn(r, part, xs)
  PROVE  /\ s \in SyntaxNode /\ Alike(r, s) /\ s.part = part /\ s.out = r.out \cup xs
         /\ s.default = r.default /\ s.cases = r.cases /\ s.thrown = r.thrown /\ s.leaks = r.leaks
  BY DEF SyntaxNode, Alike, Turn

LEMMA NodeKnownTurns ==
  ASSUME NEW r, NEW s, NEW k, NodeKnown(r, k), Alike(r, s), s.thrown = r.thrown, Sound(s.out, k)
  PROVE  NodeKnown(s, k)
  BY DEF NodeKnown, Alike

LEMMA RecordedTurn ==
  ASSUME WalkInv, path # <<>>, Top.kind \in Branching, NEW r \in SyntaxNode, Alike(Top, r), TopBecomes(r),
         BranchCount(r, Len(Branches(Top.id)) + 1), RecordAndRestore(Top.id)
  PROVE  /\ BranchesFollow(path', branchStacks') /\ branchStacks' \in [DOMAIN branchStacks' -> Seq(SUBSET Calls)]
         /\ openerStack' = Top.stack /\ openerStack' \in SUBSET Calls
         /\ Numbered(openerStack', stackIndexCounter, nodes) /\ r.stack = Top.stack
         /\ branchStacks' = With(branchStacks, Top.id, Recorded(Top.id))
<1>1. /\ Follows(path, path') /\ path'[Len(path')] = r /\ Top = path[Len(path)]
  BY TopTurns DEF Top
<1>2. /\ Syntax(path, Place, nodes) /\ branchStacks \in [DOMAIN branchStacks -> Seq(SUBSET Calls)]
      /\ BranchesFollow(path, branchStacks) /\ openerStack \in SUBSET Calls
  BY DEF WalkInv, Typed, Walk
<1>3. /\ stackSnapshots[Top.id] = Top.stack /\ Top.stack \in SUBSET Calls
      /\ Branches(Top.id) = BranchesAt(branchStacks, Top.id) /\ Recorded(Top.id) = Append(Branches(Top.id), openerStack)
      /\ Numbered(Top.stack, stackIndexCounter, nodes)
  BY OriginalIs
<1>4. /\ BranchesFollow(path', With(branchStacks, Top.id, Append(BranchesAt(branchStacks, Top.id), openerStack)))
      /\ Append(BranchesAt(branchStacks, Top.id), openerStack) \in Seq(SUBSET Calls)
  BY <1>1, <1>2, <1>3, BranchesRecord
<1>5. branchStacks' = With(branchStacks, Top.id, Recorded(Top.id)) /\ openerStack' = Top.stack
  BY <1>3 DEF RecordAndRestore
<1>6. Recorded(Top.id) \in Seq(SUBSET Calls)
  BY <1>3, <1>4
<1>7. branchStacks' \in [DOMAIN branchStacks' -> Seq(SUBSET Calls)]
  BY <1>2, <1>5, <1>6, MapTypes
<1> QED BY <1>3, <1>4, <1>5, <1>7 DEF Alike

LEMMA ElseWalks == ASSUME WalkInv, Else PROVE WalkInv'
<1> DEFINE r == [Top EXCEPT !.part = "else", !.out = @ \cup live]
<1>1. /\ path # <<>> /\ Top.kind = "if" /\ Top.part = "then" /\ TopBecomes(r) /\ live' = Top.saved
      /\ RecordAndRestore(Top.id) /\ Unmarked
      /\ UNCHANGED <<loopStack, functionStacks, contextStack, stackIndexCounter, stackSnapshots, flags, nodes>>
  BY DEF Else
<1>12. r = Turn(Top, "else", live)
  BY Zenon DEF Turn
<1> HIDE DEF r
<1>2. /\ r \in SyntaxNode /\ Alike(Top, r) /\ r.part = "else" /\ r.out = Top.out \cup live
      /\ r.default = Top.default /\ r.cases = Top.cases /\ r.thrown = Top.thrown
  <2>1. Top \in SyntaxNode /\ live \in SUBSET Executions /\ "else" \in Parts
    BY <1>1, PlaceKnown, TopKnown DEF Parts
  <2> QED BY <2>1, <1>12, PartChanged
<1>3. NodeShape(Top) /\ Top.kind \in Branching /\ Top = path[Len(path)]
  BY <1>1, PlaceKnown DEF Branching, Top
<1>4. NodeShape(r)
  BY <1>1, <1>2, <1>3 DEF NodeShape, Alike, PartsOf
<1>5. NodeKnown(r, stackIndexCounter)
  BY <1>1, <1>2, TopKnown, NodeKnownTurns, SoundTogether
<1>6. BranchCount(r, Len(Branches(Top.id)) + 1)
  BY <1>1, <1>2, <1>3, OriginalIs DEF BranchCount
<1>7. Follows(path, path') /\ path'[Len(path')] = r
  BY <1>1, <1>2, TopTurns
<1>8. ContextsFollow(path', contextStack)
  BY <1>1, <1>2, <1>3, <1>7, ContextsStay DEF WalkInv, Walk
<1>9. Turned(r, {})
  BY <1>1, <1>2, <1>3, <1>4, <1>5, <1>6, <1>8, RecordedTurn, TopKnown, Marking DEF Turned, WalkInv, Typed
<1> QED BY <1>9, TurnedWalks

LEMMA BeginCaseWalks == ASSUME WalkInv, NEW default \in BOOLEAN, BeginCase(default) PROVE WalkInv'
<1> DEFINE r == [Top EXCEPT !.part = "case", !.cases = @ + 1, !.default = @ \/ default]
           ms == If(live # {}, "beyond")
<1>1. /\ path # <<>> /\ Top.part = "between" /\ TopBecomes(r) /\ live' = Top.saved \cup live /\ Mark(ms)
      /\ UNCHANGED <<stacks, stackIndexCounter, maps, flags, nodes>>
  BY DEF BeginCase
<1>3. NodeShape(Top) /\ Top = path[Len(path)] /\ Top \in SyntaxNode /\ Len(path) \in 1..Len(path)
  BY <1>1, PlaceKnown DEF Top
<1>10. Top.kind = "switch"
  BY <1>1, <1>3 DEF NodeShape, PartsOf
<1>13. Top.cases \in Nat /\ Top.default \in BOOLEAN /\ (Top.default \/ default) \in BOOLEAN /\ Top.cases + 1 \in Nat
  BY <1>3 DEF SyntaxNode
<1>14. r = [Top EXCEPT !.part = "case", !.cases = Top.cases + 1, !.default = Top.default \/ default]
  BY <1>3 DEF SyntaxNode
<1> HIDE DEF r
<1>2. /\ r \in SyntaxNode /\ Alike(Top, r) /\ r.part = "case" /\ r.out = Top.out
      /\ r.cases = Top.cases + 1 /\ r.thrown = Top.thrown /\ Top.cases \in Nat
  <2> DEFINE c == Top.cases + 1
             d == Top.default \/ default
  <2>1. c \in Nat /\ d \in BOOLEAN /\ r = [Top EXCEPT !.part = "case", !.cases = c, !.default = d]
    BY <1>13, <1>14
  <2> HIDE DEF c, d
  <2>2. /\ r \in SyntaxNode /\ Alike(Top, r) /\ r.part = "case" /\ r.out = Top.out
        /\ r.cases = c /\ r.thrown = Top.thrown
    BY <2>1, <1>3 DEF SyntaxNode, Alike, Parts
  <2> QED BY <2>2, <1>13 DEF c
<1>4. NodeShape(r)
  BY <1>10, <1>2, <1>3 DEF NodeShape, Alike, PartsOf
<1>5. NodeKnown(r, stackIndexCounter)
  BY <1>1, <1>2, TopKnown, NodeKnownTurns
<1>7. Follows(path, path') /\ path'[Len(path')] = r /\ r.id = Top.id
  BY <1>1, <1>2, TopTurns DEF Alike
<1>6. BranchCount(r, Len(BranchesAt(branchStacks, r.id)))
  <2>1. BranchCount(Top, Len(BranchesAt(branchStacks, Top.id))) /\ Len(BranchesAt(branchStacks, Top.id)) \in Nat
    BY <1>1, <1>10, OriginalIs DEF Branching
  <2> QED BY <2>1, <1>1, <1>2, <1>7 DEF BranchCount
<1>8. ContextsFollow(path', contextStack) /\ BranchesFollow(path', branchStacks)
  BY <1>1, <1>2, <1>3, <1>6, <1>7, ContextsStay, BranchesStay DEF WalkInv, Walk
<1>9. Marked(ms)
  BY <1>1, Marking, MarksUnleaked DEF Unleaked, Marks
<1>11. live' \in SUBSET Executions /\ Sound(live', stackIndexCounter)
  BY <1>1, TopKnown, SoundTogether
<1>12. Turned(r, ms)
  BY <1>1, <1>2, <1>4, <1>5, <1>8, <1>9, <1>11, StateKnown DEF Turned, WalkInv, Typed, stacks, maps
<1> QED BY <1>12, TurnedWalks

LEMMA EndCaseWalks == ASSUME WalkInv, EndCase PROVE WalkInv'
<1> DEFINE r == [Top EXCEPT !.part = "between"]
           ms == If(NewIn(openerStack, stackSnapshots[Top.id]), "irregular")
<1>1. /\ path # <<>> /\ Top.part = "case" /\ TopBecomes(r) /\ RecordAndRestore(Top.id) /\ Mark(ms)
      /\ UNCHANGED <<loopStack, functionStacks, contextStack, stackIndexCounter, stackSnapshots, flags, nodes, live>>
  BY DEF EndCase
<1>3. NodeShape(Top) /\ Top = path[Len(path)] /\ Top \in SyntaxNode /\ Len(path) \in 1..Len(path)
  BY <1>1, PlaceKnown DEF Top
<1>10. Top.kind = "switch" /\ Top.kind \in Branching
  BY <1>1, <1>3 DEF NodeShape, PartsOf, Branching
<1>2. /\ r \in SyntaxNode /\ Alike(Top, r) /\ r.part = "between" /\ r.out = Top.out
      /\ r.cases = Top.cases /\ r.default = Top.default /\ r.thrown = Top.thrown /\ Top.cases \in Nat
  BY <1>3 DEF SyntaxNode, Alike, Parts
<1>11. ms \in SUBSET Unleaked
  BY DEF If, Unleaked, Marks
<1> HIDE DEF r, ms
<1>4. NodeShape(r)
  BY <1>10, <1>2, <1>3 DEF NodeShape, Alike, PartsOf
<1>5. NodeKnown(r, stackIndexCounter)
  BY <1>1, <1>2, TopKnown, NodeKnownTurns
<1>7. Follows(path, path') /\ path'[Len(path')] = r
  BY <1>1, <1>2, TopTurns
<1>6. BranchCount(r, Len(Branches(Top.id)) + 1)
  BY <1>1, <1>2, <1>10, OriginalIs DEF BranchCount
<1>8. ContextsFollow(path', contextStack)
  BY <1>1, <1>2, <1>3, <1>7, ContextsStay DEF WalkInv, Walk
<1>9. Marked(ms)
  BY <1>1, <1>11, Marking
<1>12. Turned(r, ms)
  BY <1>1, <1>2, <1>4, <1>5, <1>6, <1>8, <1>9, <1>10, RecordedTurn, TopKnown DEF Turned, WalkInv, Typed
<1> QED BY <1>12, TurnedWalks

LEMMA NextPartWalks == ASSUME WalkInv, NextPart PROVE WalkInv'
<1> DEFINE part == IF Top.part = "block" /\ Top.catch THEN "catch" ELSE "finally"
           original == stackSnapshots[Top.id]
           branches == Recorded(Top.id)
           r == [Top EXCEPT !.part = part, !.out = @ \cup live]
           ms == If(NewIn(openerStack, original), "irregular")
                   \cup If(/\ part = "finally"
                           /\ \E b \in DOMAIN branches : NewIn(original, branches[b]), "beyond")
           b == part = "finally"
<1>1. /\ path # <<>> /\ Top.kind = "try" /\ (Top.part = "block" \/ (Top.part = "catch" /\ Top.finally))
      /\ TopBecomes(r) /\ live' = (IF part = "catch" THEN Top.thrown ELSE Top.out \cup live)
      /\ contextStack' = [contextStack EXCEPT ![Len(contextStack)].inFinally = b]
      /\ Mark(ms) /\ RecordAndRestore(Top.id)
      /\ UNCHANGED <<loopStack, functionStacks, stackIndexCounter, stackSnapshots, flags, nodes>>
  BY DEF NextPart
<1>2. part \in Parts /\ part \in {"catch", "finally"} /\ b \in BOOLEAN /\ (part = "catch" => Top.part = "block" /\ Top.catch)
      /\ (part = "finally" => Top.part = "catch" \/ ~Top.catch)
  BY <1>1 DEF Parts
<1>3. NodeShape(Top) /\ Top = path[Len(path)] /\ Top \in SyntaxNode /\ Top.kind \in Branching
  BY <1>1, PlaceKnown DEF Top, Branching
<1>4. ms \in SUBSET Unleaked
  BY DEF If, Unleaked, Marks
<1>5. b <=> part = "finally"
  OBVIOUS
<1> HIDE DEF part, ms, b
<1>15. r = Turn(Top, part, live)
  BY Zenon DEF Turn
<1> HIDE DEF r
<1>6. /\ r \in SyntaxNode /\ Alike(Top, r) /\ r.part = part /\ r.out = Top.out \cup live
      /\ r.default = Top.default /\ r.cases = Top.cases /\ r.thrown = Top.thrown
  BY <1>1, <1>2, <1>3, <1>15, TopKnown, PartChanged
<1>7. NodeShape(r)
  BY <1>1, <1>2, <1>3, <1>6 DEF NodeShape, Alike, PartsOf
<1>8. NodeKnown(r, stackIndexCounter)
  BY <1>1, <1>6, TopKnown, NodeKnownTurns, SoundTogether
<1>9. BranchCount(r, Len(Branches(Top.id)) + 1)
  BY <1>1, <1>2, <1>3, <1>6, OriginalIs DEF BranchCount
<1>10. Follows(path, path') /\ path'[Len(path')] = r
  BY <1>1, <1>6, TopTurns
<1>11. ContextsFollow(path', contextStack') /\ contextStack' \in Seq(Contexts)
  <2>1. Syntax(path, Place, nodes) /\ contextStack \in Seq(Contexts) /\ ContextsFollow(path, contextStack)
    BY DEF WalkInv, Walk, Typed
  <2>2. b <=> path'[Len(path')].part = "finally"
    BY <1>5, <1>6, <1>10
  <2> DEFINE ds == [contextStack EXCEPT ![Len(contextStack)].inFinally = b]
  <2>3. path # <<>> /\ path[Len(path)].kind = "try" /\ b \in BOOLEAN /\ Follows(path, path')
    BY <1>1, <1>2, <1>3, <1>10
  <2>4. ds \in Seq(Contexts) /\ ContextsFollow(path', ds)
    BY Zenon, <2>1, <2>2, <2>3, ContextsTurn
  <2>5. contextStack' = ds
    BY <1>1
  <2> QED BY <2>4, <2>5
<1>12. Marked(ms)
  BY <1>1, <1>4, Marking
<1>13. live' \in SUBSET Executions /\ Sound(live', stackIndexCounter)
  BY <1>1, <1>2, TopKnown, SoundTogether
<1>14. Turned(r, ms)
  BY <1>1, <1>2, <1>3, <1>6, <1>7, <1>8, <1>9, <1>11, <1>12, <1>13, RecordedTurn DEF Turned
<1> QED BY <1>14, TurnedWalks
LEMMA CommonTyped ==
  ASSUME WalkInv, path # <<>>, Top.kind \in Branching, NEW branches
  PROVE  /\ Common(Top.stack, branches) \in SUBSET Calls
         /\ Numbered(Common(Top.stack, branches), stackIndexCounter, nodes)
         /\ Top.stack \in SUBSET Calls /\ Numbered(Top.stack, stackIndexCounter, nodes)
<1>1. Top.stack \in SUBSET Calls /\ Numbered(Top.stack, stackIndexCounter, nodes)
  BY OriginalIs
<1>2. Common(Top.stack, branches) \in SUBSET Top.stack
  BY <1>1, CommonIs
<1> QED BY <1>1, <1>2, NumberedLess

LEMMA ExitIfWalks == ASSUME WalkInv, ExitIf PROVE WalkInv'
<1> DEFINE original == stackSnapshots[Top.id]
           branches == Recorded(Top.id)
           single == Top.part = "then"
           new == \E b \in DOMAIN branches : NewIn(branches[b], original)
           ms == If(new \/ (~single /\ Partial(original, branches)), "warned")
                   \cup If(\/ new /\ (single => NewIn(original, openerStack))
                           \/ Exchanged(original, branches), "beyond")
<1>1. /\ path # <<>> /\ Top.kind = "if" /\ openerStack' = MergeIf(original, branches)
      /\ live' = Top.out \cup live \cup (IF single THEN Top.saved ELSE {}) /\ Mark(ms)
      /\ Settle(Top.id) /\ path' = Front(path) /\ contextStack' = PopContext
      /\ UNCHANGED <<loopStack, functionStacks, stackIndexCounter, flags, nodes>>
  BY DEF ExitIf
<1>2. Top.kind \in Branching /\ original = Top.stack
  BY <1>1, OriginalIs DEF Branching
<1>3. openerStack' \in SUBSET Calls /\ Numbered(openerStack', stackIndexCounter, nodes)
  <2>1. openerStack' = Top.stack \/ openerStack' = Common(Top.stack, branches)
    BY <1>1, <1>2 DEF MergeIf
  <2> QED BY <2>1, <1>1, <1>2, CommonTyped
<1>4. live' \in SUBSET Executions /\ Sound(live', stackIndexCounter)
  <2>1. /\ Top.out \cup live \in SUBSET Executions /\ Sound(Top.out \cup live, stackIndexCounter)
        /\ Sound({}, stackIndexCounter)
    BY <1>1, TopKnown, SoundTogether DEF Sound
  <2> QED BY <1>1, <2>1, TopKnown, SoundTogether
<1>5. ms \in SUBSET Unleaked
  BY DEF If, Unleaked, Marks
<1> HIDE DEF ms
<1>6. Marked(ms)
  BY <1>1, <1>5, Marking
<1>7. LoopsLess(Top, loopStack) = loopStack
  BY <1>1 DEF LoopsLess
<1>8. Left(ms)
  BY <1>1, <1>2, <1>3, <1>4, <1>6, <1>7 DEF Left, MapWithout, Settle
<1> QED BY <1>1, <1>8, LeftWalks DEF WalkInv

LEMMA ExitLoopWalks == ASSUME WalkInv, ExitLoop PROVE WalkInv'
<1>1. /\ path # <<>> /\ Top.kind = "loop" /\ live' = Top.saved \cup Top.out \cup live /\ Unmarked
      /\ path' = Front(path) /\ contextStack' = PopContext /\ loopStack' = Front(loopStack)
      /\ UNCHANGED <<openerStack, functionStacks, stackIndexCounter, maps, flags, nodes>>
  BY DEF ExitLoop
<1>2. live' \in SUBSET Executions /\ Sound(live', stackIndexCounter)
  BY <1>1, TopKnown, SoundTogether
<1>3. openerStack' \in SUBSET Calls /\ Numbered(openerStack', stackIndexCounter, nodes)
  BY <1>1, StateKnown DEF WalkInv, Typed
<1>4. Left({})
  BY <1>1, <1>2, <1>3, Marking DEF Left, MapWithout, LoopsLess, maps, Branching
<1> QED BY <1>1, <1>4, LeftWalks DEF WalkInv

LEMMA ExitSwitchWalks == ASSUME WalkInv, ExitSwitch PROVE WalkInv'
<1> DEFINE original == stackSnapshots[Top.id]
           branches == Branches(Top.id)
           ms == If(Partial(original, branches), "warned") \cup If(Exchanged(original, branches), "beyond")
<1>1. /\ path # <<>> /\ Top.part = "between"
      /\ \/ Unmarked /\ UNCHANGED openerStack
         \/ openerStack' = Common(original, branches) /\ Mark(ms)
         \/ openerStack' = original /\ Unmarked
      /\ live' = Top.out \cup live \cup (IF Top.default THEN {} ELSE Top.saved)
      /\ Settle(Top.id) /\ path' = Front(path) /\ contextStack' = PopContext
      /\ UNCHANGED <<loopStack, functionStacks, stackIndexCounter, flags, nodes>>
  BY DEF ExitSwitch
<1>9. Top.kind = "switch"
  BY <1>1, PlaceKnown DEF NodeShape, PartsOf
<1>2. Top.kind \in Branching /\ original = Top.stack
  BY <1>1, <1>9, OriginalIs DEF Branching
<1>3. openerStack' \in SUBSET Calls /\ Numbered(openerStack', stackIndexCounter, nodes)
  <2>1. openerStack' = Top.stack \/ openerStack' = Common(Top.stack, branches) \/ openerStack' = openerStack
    BY <1>1, <1>2
  <2> QED BY <2>1, <1>1, <1>2, CommonTyped, StateKnown DEF WalkInv, Typed
<1>4. live' \in SUBSET Executions /\ Sound(live', stackIndexCounter)
  <2>1. /\ Top.out \cup live \in SUBSET Executions /\ Sound(Top.out \cup live, stackIndexCounter)
        /\ Sound({}, stackIndexCounter)
    BY <1>1, TopKnown, SoundTogether DEF Sound
  <2> QED BY <1>1, <2>1, TopKnown, SoundTogether
<1>5. ms \in SUBSET Unleaked
  BY DEF If, Unleaked, Marks
<1> HIDE DEF ms
<1>6. Marked(ms) \/ Marked({})
  BY <1>1, <1>5, Marking
<1>7. LoopsLess(Top, loopStack) = loopStack
  BY <1>9 DEF LoopsLess
<1>8. Left(ms) \/ Left({})
  BY <1>1, <1>2, <1>3, <1>4, <1>6, <1>7, <1>9 DEF Left, MapWithout, Settle
<1> QED BY <1>1, <1>8, LeftWalks DEF WalkInv

LEMMA ExitCatchWalks == ASSUME WalkInv, ExitCatch PROVE WalkInv'
<1> DEFINE original == stackSnapshots[Top.id]
           branches == Recorded(Top.id)
           ms == If(Partial(original, branches), "warned") \cup If(NewIn(openerStack, original), "irregular")
                   \cup If(Exchanged(original, branches), "beyond")
<1>1. /\ path # <<>> /\ Top.part = "catch" /\ openerStack' = Common(original, branches)
      /\ Mark(ms) /\ live' = Top.out \cup live
      /\ Settle(Top.id) /\ path' = Front(path) /\ contextStack' = PopContext
      /\ UNCHANGED <<loopStack, functionStacks, stackIndexCounter, flags, nodes>>
  BY DEF ExitCatch
<1>9. Top.kind = "try"
  BY <1>1, PlaceKnown DEF NodeShape, PartsOf
<1>2. Top.kind \in Branching /\ original = Top.stack
  BY <1>1, <1>9, OriginalIs DEF Branching
<1>3. openerStack' \in SUBSET Calls /\ Numbered(openerStack', stackIndexCounter, nodes)
  BY <1>1, <1>2, CommonTyped
<1>4. live' \in SUBSET Executions /\ Sound(live', stackIndexCounter)
  BY <1>1, TopKnown, SoundTogether
<1>5. ms \in SUBSET Unleaked
  BY DEF If, Unleaked, Marks
<1> HIDE DEF ms
<1>6. Marked(ms)
  BY <1>1, <1>5, Marking
<1>7. LoopsLess(Top, loopStack) = loopStack
  BY <1>9 DEF LoopsLess
<1>8. Left(ms)
  BY <1>1, <1>2, <1>3, <1>4, <1>6, <1>7, <1>9 DEF Left, MapWithout, Settle
<1> QED BY <1>1, <1>8, LeftWalks DEF WalkInv

LEMMA SoundLess ==
  ASSUME NEW xs, NEW ys \in SUBSET xs, NEW k, Sound(xs, k)
  PROVE  Sound(ys, k)
  BY DEF Sound

LEMMA ExitFinallyWalks ==
  ASSUME WalkInv, ExitFinally
  PROVE  /\ WalkInv' /\ Front(path) \in Seq(SyntaxNode) /\ Front(path) # <<>>
         /\ Jumped(Front(path), {x \in live : x.to # Here}, path')
<1> DEFINE ms == If(NewIn(openerStack, stackSnapshots[Top.id]), "irregular")
           zs == {x \in live : x.to # Here}
<1>1. /\ path # <<>> /\ Top.part = "finally" /\ UNCHANGED openerStack
      /\ Mark(ms) /\ live' = {x \in live : x.to = Here}
      /\ Settle(Top.id) /\ path' = Deliver(Front(path), zs) /\ contextStack' = PopContext
      /\ UNCHANGED <<openerStack, loopStack, functionStacks, stackIndexCounter, flags, nodes>>
  BY DEF ExitFinally
<1>9. Top.kind = "try" /\ Top.kind \in Branching
  BY <1>1, PlaceKnown DEF NodeShape, PartsOf, Branching
<1>3. openerStack' \in SUBSET Calls /\ Numbered(openerStack', stackIndexCounter, nodes)
  BY <1>1, StateKnown DEF WalkInv, Typed
<1>4. live' \in SUBSET live /\ zs \in SUBSET live
  BY <1>1
<1>10. /\ live' \in SUBSET Executions /\ Sound(live', stackIndexCounter)
       /\ zs \in SUBSET Executions /\ Sound(zs, stackIndexCounter)
  BY <1>1, <1>4, TopKnown, SoundLess
<1>5. ms \in SUBSET Unleaked
  BY DEF If, Unleaked, Marks
<1> HIDE DEF ms, zs
<1>6. Marked(ms)
  BY <1>1, <1>5, Marking
<1>7. LoopsLess(Top, loopStack) = loopStack
  BY <1>9 DEF LoopsLess
<1>8. Left(ms)
  BY <1>1, <1>3, <1>10, <1>6, <1>7, <1>9 DEF Left, MapWithout, Settle
<1>11. /\ Walk(Front(path), Place, nodes', contextStack', loopStack', functionStacks',
               stackSnapshots', branchStacks', openerStack', live', stackIndexCounter')
       /\ Front(path) \in Seq(SyntaxNode) /\ Place' = Place
       /\ path' \in Seq(SyntaxNode) => Typed'
  BY <1>8, LeftWalks
<1>12. Jumped(Front(path), zs, path')
  BY <1>1, <1>10, <1>11, Delivered
<1>13. Front(path) # <<>>
  <2>1. NodePlace(path, Len(path)) /\ Top = path[Len(path)] /\ Len(path) \in Nat
    BY <1>1, PlaceKnown DEF Top
  <2>2. Len(path) > 1
    BY <2>1, <1>9 DEF NodePlace
  <2>3. Len(Front(path)) = Len(path) - 1
    BY <1>1, FrontIs DEF WalkInv, Typed
  <2> QED BY <2>1, <2>2, <2>3, <1>11, EmptySeq
<1>14. path' \in Seq(SyntaxNode)
  BY <1>12 DEF Jumped, Follows
<1>15. stackIndexCounter' = stackIndexCounter
  BY <1>1
<1>16. Walk(path', Place, nodes', contextStack', loopStack', functionStacks',
            stackSnapshots', branchStacks', openerStack', live', stackIndexCounter')
  BY <1>10, <1>11, <1>12, <1>13, <1>15, WalkJumps
<1> QED BY <1>11, <1>12, <1>13, <1>14, <1>16 DEF WalkInv, zs

LEMMA ExitFunctionWalks ==
  ASSUME WalkInv, ExitFunction
  PROVE  /\ WalkInv' /\ openerStack' = Top.stack /\ Place' = Place - 1
         /\ \A d \in 1..Place - 1 : account'[d] = account[d]
<1> DEFINE ms == Last(account) \cup If(openerStack # {}, "warned")
                  \cup If(Top.leaks \/ \E x \in live : x.open # {}, "leaked")
<1>1. /\ path # <<>> /\ Top.kind = "function" /\ verdict' = ms /\ account' = Front(account)
      /\ live' = Top.saved /\ path' = Front(path) /\ openerStack' = Last(functionStacks)
      /\ functionStacks' = Front(functionStacks) /\ contextStack' = PopContext
      /\ UNCHANGED <<loopStack, stackIndexCounter, maps, flags, nodes>>
  BY DEF ExitFunction
<1>2. /\ Len(path) \in 1..Len(path) /\ Top = path[Len(path)] /\ Top \in SyntaxNode
      /\ Place \in Nat \ {0} /\ Top.depth = Place /\ nodes \in Nat /\ stackIndexCounter \in Nat
  BY <1>1, PlaceKnown DEF Top
<1>3. StacksFollow(path, Place, functionStacks, stackSnapshots, openerStack) /\ functionStacks \in Seq(SUBSET Calls)
  BY DEF WalkInv, Typed, Walk
<1>4. Len(functionStacks) = Place /\ functionStacks[Place] = Top.stack
  BY <1>1, <1>2, <1>3 DEF StacksFollow
<1>5. openerStack' = Top.stack
  BY <1>1, <1>2, <1>4 DEF Last
<1>6. Top.stack \in SUBSET Calls /\ Top.id \in Nat /\ Top.id \in 1..MaxNodes /\ Top.id <= nodes
  BY <1>1, <1>2, PlaceKnown DEF SyntaxNode
<1>7. Numbered(Top.stack, stackIndexCounter, nodes)
  <2>1. Numbered(Top.stack, stackIndexCounter, Top.id - 1)
    BY <1>1, TopKnown DEF NodeKnown
  <2>2. Top.id - 1 \in Nat /\ Top.id - 1 <= nodes
    BY <1>2, <1>6, PairedCallsAssumption
  <2> QED BY <2>1, <2>2, <1>2, <1>6, NumberedGrows
<1>8. live' \in SUBSET Executions /\ Sound(live', stackIndexCounter)
  BY <1>1, TopKnown
<1>9. Leaving(path, nodes, stackIndexCounter, openerStack', live')
  BY <1>1, <1>5, <1>7, <1>8 DEF Leaving
<1>10. /\ DepthLess(Top, Place) = Place - 1 /\ LoopsLess(Top, loopStack) = loopStack
       /\ StacksLess(Top, functionStacks) = functionStacks' /\ MapWithout(Top, stackSnapshots) = stackSnapshots
       /\ MapWithout(Top, branchStacks) = branchStacks
  BY <1>1 DEF DepthLess, LoopsLess, StacksLess, MapWithout, Branching
<1>11. /\ Walk(Front(path), DepthLess(Top, Place), nodes, Front(contextStack), LoopsLess(Top, loopStack),
               StacksLess(Top, functionStacks), MapWithout(Top, stackSnapshots), MapWithout(Top, branchStacks),
               openerStack', live', stackIndexCounter)
       /\ Front(path) \in Seq(SyntaxNode) /\ Front(contextStack) \in Seq(Contexts)
       /\ StacksLess(Top, functionStacks) \in Seq(SUBSET Calls)
  BY <1>2, <1>9, StateKnown, WalkLeaves
<1>12. /\ account \in Seq(SUBSET Unleaked) /\ account # <<>> /\ Len(account) = Place
  BY <1>2, EmptySeq DEF WalkInv, Typed, Unleaked, Place
<1>13. /\ Front(account) \in Seq(SUBSET Unleaked) /\ Len(Front(account)) = Place - 1 /\ Last(account) \in SUBSET Unleaked
       /\ \A d \in 1..Place - 1 : Front(account)[d] = account[d]
  BY <1>12, FrontIs
<1>14. ms \in SUBSET Marks
  BY <1>13 DEF If, Unleaked, Marks
<1> HIDE DEF ms
<1>15. Place' = Place - 1
  BY <1>1, <1>13 DEF Place
<1>16. Typed'
  BY <1>1, <1>5, <1>6, <1>8, <1>10, <1>11, <1>13, <1>14 DEF WalkInv, Typed, Unleaked, maps, flags, PopContext
<1>17. Walk(path', Place', nodes', contextStack', loopStack', functionStacks', stackSnapshots', branchStacks',
            openerStack', live', stackIndexCounter')
  BY <1>1, <1>10, <1>11, <1>15 DEF maps, PopContext
<1> QED BY <1>1, <1>5, <1>13, <1>15, <1>16, <1>17 DEF WalkInv
(* Jumps. Each is some of these steps.                                     *)
Jumping(to, ms) ==
  /\ InCode /\ path' = Deliver(path, Towards(to)) /\ live' = {} /\ Mark(ms)
  /\ UNCHANGED <<stacks, stackIndexCounter, maps, flags, nodes>>
LEMMA JumpingWalks ==
  ASSUME WalkInv, NEW to \in 0..Throw, NEW ms \in SUBSET Unleaked, Jumping(to, ms)
  PROVE  WalkInv' /\ Jumped(path, Towards(to), path') /\ Marked(ms)
<1>1. /\ path # <<>> /\ path' = Deliver(path, Towards(to)) /\ live' = {} /\ Mark(ms)
      /\ UNCHANGED <<stacks, stackIndexCounter, maps, flags, nodes>>
  BY DEF Jumping, InCode
<1>2. Towards(to) \in SUBSET Executions /\ Sound(Towards(to), stackIndexCounter)
  BY TowardsTyped
<1>3. Marked(ms)
  BY <1>1, Marking
<1> QED BY <1>1, <1>2, <1>3, JumpWalks

LEMMA NodesJump ==
  ASSUME WalkInv, NEW i \in 1..Len(path)
  PROVE  path[i].id \in 0..Throw /\ path[i].id # Here /\ path[i].id # Throw
<1>1. path[i] \in SyntaxNode
  BY ElementOfSeq DEF WalkInv, Typed
<1>2. path[i].id \in 1..MaxNodes
  BY <1>1 DEF SyntaxNode
<1> QED BY <1>2, PairedCallsAssumption DEF Here, Throw

EarlyMarks == {"beyond"} \cup
  (IF openerStack = {} THEN {} ELSE {IF Last(contextStack).inFinally THEN "irregular" ELSE "warned"})
LEMMA EarlyExitJumps ==
  ASSUME NEW to, EarlyExit(to)
  PROVE  Jumping(to, EarlyMarks) /\ EarlyMarks \in SUBSET Unleaked
<1>1. EarlyMarks \in SUBSET Unleaked
  BY DEF EarlyMarks, Unleaked, Marks
<1>2. CASE openerStack = {}
  <2>1. EarlyMarks = {"beyond"}
    BY <1>2 DEF EarlyMarks
  <2> QED BY <1>1, <1>2, <2>1 DEF EarlyExit, Jumping
<1>3. CASE openerStack # {}
  <2>1. EarlyMarks = {"beyond", IF Last(contextStack).inFinally THEN "irregular" ELSE "warned"}
    BY <1>3 DEF EarlyMarks
  <2> QED BY <1>1, <1>3, <2>1 DEF EarlyExit, Jumping
<1> QED BY <1>2, <1>3

LEMMA ReturnJumps ==
  ASSUME WalkInv, Return
  PROVE  \E f \in Around(path, Len(path)) :
           /\ path[f].kind = "function" /\ f \in 1..Len(path) /\ path[f].id \in 0..Throw
           /\ Jumping(path[f].id, EarlyMarks)
<1> DEFINE F(i) == path[i].kind = "function"
           f == CHOOSE i \in Within : F(i)
<1>1. EarlyExit(path[f].id)
  BY DEF Return
<1>2. path # <<>>
  BY <1>1 DEF EarlyExit, InCode
<1>3. Within = Around(path, Len(path)) /\ NodePlace(path, Len(path)) /\ Len(path) \in Nat
  BY <1>2, PlaceKnown
<1>4. \E i \in Within : F(i)
  BY <1>3 DEF NodePlace
<1>5. f \in Within /\ F(f)
  BY <1>4, Zenon
<1> HIDE DEF f
<1>6. f \in 1..Len(path)
  BY <1>3, <1>5 DEF Around
<1> QED BY <1>1, <1>3, <1>5, <1>6, NodesJump, EarlyExitJumps

LEMMA ThrowJumps ==
  ASSUME WalkInv, ThrowStatement
  PROVE  Throw \in 0..Throw /\ Jumping(Throw, EarlyMarks)
  BY EarlyExitJumps, PairedCallsAssumption DEF ThrowStatement, Throw

LoopMarks(i) == {"beyond"} \cup If(\E c \in openerStack : path[i].id \in c.loops, "warned")
LEMMA BreakContinueJumps ==
  ASSUME WalkInv, NEW i, BreakContinue(i)
  PROVE  /\ i \in Around(path, Len(path)) /\ i \in 1..Len(path) /\ path[i].kind = "loop" /\ path[i].id \in 0..Throw
         /\ \A j \in Around(path, Len(path)) : path[j].part = "finally" => i < j
         /\ LoopMarks(i) \in SUBSET Unleaked /\ Jumping(path[i].id, LoopMarks(i))
<1>1. /\ InCode /\ i \in Within /\ path[i].kind = "loop" /\ path # <<>>
      /\ \A j \in Within : path[j].part = "finally" => i < j
      /\ Jumping(path[i].id, LoopMarks(i))
  BY DEF BreakContinue, InCode, Jumping, LoopMarks
<1>2. Within = Around(path, Len(path)) /\ Len(path) \in Nat
  BY <1>1, PlaceKnown
<1>3. i \in 1..Len(path)
  BY <1>1, <1>2 DEF Around
<1>4. LoopMarks(i) \in SUBSET Unleaked
  BY DEF LoopMarks, If, Unleaked, Marks
<1> QED BY <1>1, <1>2, <1>3, <1>4, NodesJump

SwitchMarks(i) == IF i = Len(path) THEN {} ELSE {"irregular", "beyond"}
LEMMA BreakSwitchJumps ==
  ASSUME WalkInv, NEW i, BreakSwitch(i)
  PROVE  /\ i \in Around(path, Len(path)) /\ i \in 1..Len(path) /\ path[i].kind = "switch" /\ path[i].id \in 0..Throw
         /\ \A j \in Around(path, Len(path)) : path[j].part = "finally" => i < j
         /\ SwitchMarks(i) \in SUBSET Unleaked /\ Jumping(path[i].id, SwitchMarks(i))
<1>1. /\ InCode /\ i \in Within /\ path[i].kind = "switch" /\ path # <<>>
      /\ \A j \in Within : path[j].part = "finally" => i < j
      /\ Jumping(path[i].id, SwitchMarks(i))
  BY DEF BreakSwitch, InCode, Jumping, SwitchMarks
<1>2. Within = Around(path, Len(path)) /\ Len(path) \in Nat
  BY <1>1, PlaceKnown
<1>3. i \in 1..Len(path)
  BY <1>1, <1>2 DEF Around
<1>4. SwitchMarks(i) \in SUBSET Unleaked
  BY DEF SwitchMarks, Unleaked, Marks
<1> QED BY <1>1, <1>2, <1>3, <1>4, NodesJump

-----------------------------------------------------------------------------
(* Calls. The path is as before.                                           *)
Calling(k, ms) ==
  /\ path # <<>> /\ Top.part # "between" /\ k \in Nat /\ stackIndexCounter <= k /\ k <= MaxOpeners
  /\ stackIndexCounter' = k /\ Marked(ms)
  /\ live' \in SUBSET Executions /\ Sound(live', k)
  /\ openerStack' \in SUBSET Calls /\ Numbered(openerStack', k, nodes)
  /\ yieldingAutoClosed' \in BOOLEAN /\ yieldingReportedFirst' \in BOOLEAN
  /\ UNCHANGED <<loopStack, functionStacks, contextStack, maps, path, nodes>>
LEMMA CallingWalks ==
  ASSUME WalkInv, NEW k, NEW ms, Calling(k, ms)
  PROVE  WalkInv'
<1>1. /\ Syntax(path, Place, nodes) /\ ContextsFollow(path, contextStack) /\ LoopsFollow(path, loopStack)
      /\ StacksFollow(path, Place, functionStacks, stackSnapshots, openerStack) /\ BranchesFollow(path, branchStacks)
      /\ CallsKnown(path, live, openerStack, stackIndexCounter, nodes) /\ path \in Seq(SyntaxNode)
      /\ stackIndexCounter \in Nat /\ k \in Nat /\ stackIndexCounter <= k
  BY PlaceKnown DEF WalkInv, Walk, Typed, Calling
<1>2. \A i \in 1..Len(path) : NodeKnown(path[i], k)
  <2>1. ASSUME NEW i \in 1..Len(path)
        PROVE  NodeKnown(path[i], k)
    <3>1. path[i] \in SyntaxNode /\ NodeKnown(path[i], stackIndexCounter)
      BY <1>1, ElementOfSeq DEF CallsKnown
    <3> QED BY <3>1, <1>1, NodeKnownGrows
  <2> QED BY <2>1
<1>3. CallsKnown(path, live', openerStack', k, nodes)
  BY <1>2 DEF CallsKnown, Calling
<1>4. StacksFollow(path, Place, functionStacks, stackSnapshots, openerStack')
  <2>1. ASSUME NEW i \in 1..Len(path)
        PROVE  path[i].part # "between"
    <3>1. Len(path) \in 1..Len(path) /\ Len(path) \in Nat
      BY PlaceKnown DEF Calling
    <3>2. i = Len(path) \/ i < Len(path)
      BY <3>1
    <3> QED BY <3>1, <3>2, <1>1 DEF Syntax, Before, Top, Calling
  <2> QED BY <2>1, <1>1 DEF StacksFollow
<1>5. Walk(path, Place, nodes, contextStack, loopStack, functionStacks, stackSnapshots, branchStacks,
           openerStack', live', k)
  BY <1>1, <1>3, <1>4 DEF Walk
<1>6. Typed'
  BY PairedCallsAssumption DEF WalkInv, Typed, Calling, Marked, Unleaked, maps
<1>7. /\ Place' = Place /\ path' = path /\ nodes' = nodes /\ contextStack' = contextStack /\ loopStack' = loopStack
      /\ functionStacks' = functionStacks /\ stackSnapshots' = stackSnapshots /\ branchStacks' = branchStacks
      /\ stackIndexCounter' = k
  BY PlaceStays DEF Calling, maps
<1> QED BY <1>5, <1>6, <1>7 DEF WalkInv

(* The call that is opened has an index that no call had.                  *)
LEMMA CallIsNew ==
  ASSUME WalkInv, stackIndexCounter < MaxOpeners, NEW opener \in Openers
  PROVE  /\ Call(opener) \in Calls /\ Call(opener).index = stackIndexCounter
         /\ Call(opener).loops = IdsIn(path, {"loop"}) /\ Call(opener).loops \in SUBSET (1..nodes)
         /\ stackIndexCounter + 1 \in Nat /\ stackIndexCounter \in Nat
<1>1. /\ stackIndexCounter \in Nat /\ nodes \in Nat /\ nodes <= MaxNodes /\ MaxNodes \in Nat /\ MaxOpeners \in Nat
      /\ LoopsFollow(path, loopStack) /\ Syntax(path, Place, nodes) /\ path \in Seq(SyntaxNode)
  BY PairedCallsAssumption DEF WalkInv, Typed, Walk
<1>2. ToSet(loopStack) = IdsIn(path, {"loop"})
  BY <1>1 DEF LoopsFollow
<1>3. IdsIn(path, {"loop"}) \in SUBSET (1..nodes)
  <2>1. ASSUME NEW id \in IdsIn(path, {"loop"})
        PROVE  id \in 1..nodes
    <3>1. id <= nodes /\ id \in Nat
      BY <1>1, IdsKnown
    <3>2. PICK i \in 1..Len(path) : id = path[i].id
      BY DEF IdsIn
    <3>3. path[i] \in SyntaxNode
      BY <1>1, ElementOfSeq
    <3>4. id >= 1
      BY <3>2, <3>3, <1>1 DEF SyntaxNode
    <3> QED BY <3>1, <3>4, <1>1
  <2> QED BY <2>1
<1>4. Call(opener).index = stackIndexCounter /\ Call(opener).loops = IdsIn(path, {"loop"})
  BY <1>2 DEF Call
<1>5. 1..nodes \in SUBSET (1..MaxNodes) /\ stackIndexCounter \in 0..MaxOpeners - 1
  BY <1>1
<1>6. Call(opener) \in Calls
  BY <1>2, <1>3, <1>5 DEF Call, Calls
<1> QED BY <1>1, <1>3, <1>4, <1>6

LEMMA OpenCalls ==
  ASSUME WalkInv, NEW opener \in Openers, Open(opener)
  PROVE  Calling(stackIndexCounter + 1, {})
<1> DEFINE k == stackIndexCounter
           c == Call(opener)
<1>1. /\ InCode /\ k < MaxOpeners /\ openerStack' = openerStack \cup {c} /\ stackIndexCounter' = k + 1
      /\ live' = {[x EXCEPT !.open = @ \cup {c}] : x \in live} /\ Unmarked /\ path # <<>> /\ Top.part # "between"
      /\ UNCHANGED <<loopStack, functionStacks, contextStack, maps, flags, path, nodes>>
  BY DEF Open, InCode
<1>2. c \in Calls /\ c.index = k /\ c.loops \in SUBSET (1..nodes) /\ k + 1 \in Nat /\ k \in Nat /\ k + 1 <= MaxOpeners
  BY <1>1, CallIsNew, PairedCallsAssumption
<1>3. openerStack \in SUBSET Calls /\ live \in SUBSET Executions /\ Numbered(openerStack, k, nodes) /\ Sound(live, k)
      /\ nodes \in Nat
  BY <1>1, StateKnown, PlaceKnown DEF WalkInv, Typed
<1> HIDE DEF c
<1>4. openerStack' \in SUBSET Calls /\ Numbered(openerStack', k + 1, nodes)
  <2>1. ASSUME NEW d \in openerStack'
        PROVE  d \in Calls /\ d.index < k + 1 /\ d.loops \in SUBSET (1..nodes)
    <3>1. CASE d = c
      BY <3>1, <1>2
    <3>2. CASE d \in openerStack
      <4>1. d \in Calls /\ d.index < k /\ d.loops \in SUBSET (1..nodes)
        BY <3>2, <1>3 DEF Numbered
      <4>2. d.index \in Nat
        BY <4>1, PairedCallsAssumption DEF Calls
      <4> QED BY <4>1, <4>2, <1>2
    <3> QED BY <3>1, <3>2, <1>1
  <2> QED BY <2>1 DEF Numbered
<1>5. live' \in SUBSET Executions /\ Sound(live', k + 1)
  <2>1. ASSUME NEW y \in live'
        PROVE  /\ y \in Executions /\ IsFiniteSet(y.open) /\ \A d \in y.open : d.index < k + 1
               /\ \A d, e \in y.open : d.index = e.index => d = e
    <3>1. PICK x \in live : y = [x EXCEPT !.open = @ \cup {c}]
      BY <1>1
    <3>2. x \in Executions /\ IsFiniteSet(x.open) /\ (\A d \in x.open : d.index < k)
          /\ \A d, e \in x.open : d.index = e.index => d = e
      BY <1>3 DEF Sound
    <3>3. y \in Executions /\ y.open = x.open \cup {c} /\ x.open \in SUBSET Calls
      BY <3>1, <3>2, <1>2 DEF Executions
    <3>4. IsFiniteSet(y.open)
      BY <3>2, <3>3, FS_AddElement
    <3>5. \A d \in x.open : d.index \in Nat
      BY <3>3, PairedCallsAssumption DEF Calls
    <3>8. y.open = x.open \cup {c} /\ c.index = k
      BY <3>3, <1>2
    <3>9. \A d \in x.open : d.index < k + 1 /\ d.index # k
      BY <3>2, <3>5, <1>2
    <3>6. \A d \in y.open : d.index < k + 1
      BY <3>8, <3>9, <1>2
    <3>7. \A d, e \in y.open : d.index = e.index => d = e
      BY <3>2, <3>8, <3>9
    <3> QED BY <3>3, <3>4, <3>6, <3>7
  <2> QED BY <2>1 DEF Sound
<1>6. Marked({})
  BY <1>1, Marking
<1> QED BY <1>1, <1>2, <1>4, <1>5, <1>6 DEF Calling, flags, WalkInv, Typed

CloseMarks(closer) ==
  LET matching == Matching(openerStack, closer)
  IN  If(\E x \in live : Ends(x, closer) = {}, "wrong")
        \cup If(matching # {} /\ Outside(Latest(matching)), "irregular")
LEMMA ClosedIs ==
  ASSUME NEW s, NEW closer
  PROVE  Closed(s, closer) \in SUBSET s
  BY DEF Closed

(* Executions that lose some of their open calls.                          *)
LEMMA SoundShrinks ==
  ASSUME NEW xs \in SUBSET Executions, NEW k, Sound(xs, k), NEW ys,
         \A y \in ys : y \in Executions /\ \E x \in xs : y.open \subseteq x.open
  PROVE  ys \in SUBSET Executions /\ Sound(ys, k)
<1>1. ASSUME NEW y \in ys
      PROVE  /\ IsFiniteSet(y.open) /\ \A d \in y.open : d.index < k
             /\ \A d, e \in y.open : d.index = e.index => d = e
  <2>1. PICK x \in xs : y.open \subseteq x.open
    OBVIOUS
  <2> QED BY <2>1, FS_Subset DEF Sound
<1> QED BY <1>1 DEF Sound

LEMMA CloseCalls ==
  ASSUME WalkInv, NEW closer, Close(closer)
  PROVE  Calling(stackIndexCounter, CloseMarks(closer))
<1>1. /\ InCode /\ openerStack' = Closed(openerStack, closer) /\ Mark(CloseMarks(closer))
      /\ live' = {[x EXCEPT !.open = @ \ Ends(x, closer)] : x \in live} /\ path # <<>> /\ Top.part # "between"
      /\ yieldingReportedFirst' \in BOOLEAN
      /\ UNCHANGED <<loopStack, functionStacks, contextStack, stackIndexCounter, maps,
                     yieldingAutoClosed, path, nodes>>
  BY DEF Close, InCode, CloseMarks, WalkInv, Typed
<1>2. /\ openerStack \in SUBSET Calls /\ live \in SUBSET Executions /\ Numbered(openerStack, stackIndexCounter, nodes)
      /\ Sound(live, stackIndexCounter) /\ stackIndexCounter \in Nat /\ stackIndexCounter <= MaxOpeners
  BY <1>1, StateKnown, PlaceKnown, PairedCallsAssumption DEF WalkInv, Typed
<1>3. openerStack' \in SUBSET Calls /\ Numbered(openerStack', stackIndexCounter, nodes)
  <2>1. Closed(openerStack, closer) \in SUBSET openerStack
    BY ClosedIs
  <2> QED BY <2>1, <1>1, <1>2, NumberedLess
<1>4. live' \in SUBSET Executions /\ Sound(live', stackIndexCounter)
  <2>1. ASSUME NEW y \in live'
        PROVE  y \in Executions /\ \E x \in live : y.open \subseteq x.open
    <3>1. PICK x \in live : y = [x EXCEPT !.open = @ \ Ends(x, closer)]
      BY <1>1
    <3>2. x \in Executions
      BY <1>2
    <3> QED BY <3>1, <3>2 DEF Executions
  <2> QED BY <2>1, <1>2, SoundShrinks
<1>5. CloseMarks(closer) \in SUBSET Unleaked
  BY DEF CloseMarks, If, Unleaked, Marks
<1>6. Marked(CloseMarks(closer))
  BY <1>1, <1>5, Marking
<1> QED BY <1>1, <1>2, <1>3, <1>4, <1>6 DEF Calling, WalkInv, Typed

YieldMarks == {"yielded", "wrong"} \cup If(Dropped, "irregular")
LEMMA YieldCalls ==
  ASSUME WalkInv, Yield
  PROVE  Calling(stackIndexCounter, YieldMarks)
<1>1. /\ InCode /\ openerStack' = {} /\ Mark(YieldMarks) /\ yieldingAutoClosed' = TRUE
      /\ live' = {[x EXCEPT !.open = {c \in @ : c.opener \notin Roblox}] : x \in live}
      /\ path # <<>> /\ Top.part # "between"
      /\ UNCHANGED <<loopStack, functionStacks, contextStack, stackIndexCounter, maps,
                     yieldingReportedFirst, path, nodes>>
  BY DEF Yield, InCode, YieldMarks
<1>2. /\ live \in SUBSET Executions
      /\ Sound(live, stackIndexCounter) /\ stackIndexCounter \in Nat /\ stackIndexCounter <= MaxOpeners
  BY <1>1, StateKnown, PlaceKnown, PairedCallsAssumption DEF WalkInv, Typed
<1>4. live' \in SUBSET Executions /\ Sound(live', stackIndexCounter)
  <2>1. ASSUME NEW y \in live'
        PROVE  y \in Executions /\ \E x \in live : y.open \subseteq x.open
    <3>1. PICK x \in live : y = [x EXCEPT !.open = {c \in @ : c.opener \notin Roblox}]
      BY <1>1
    <3>2. x \in Executions
      BY <1>2
    <3> QED BY <3>1, <3>2 DEF Executions
  <2> QED BY <2>1, <1>2, SoundShrinks
<1>5. YieldMarks \in SUBSET Unleaked
  BY DEF YieldMarks, If, Unleaked, Marks
<1>6. Marked(YieldMarks)
  BY <1>1, <1>5, Marking
<1>7. openerStack' \in SUBSET Calls /\ Numbered(openerStack', stackIndexCounter, nodes)
  BY <1>1 DEF Numbered
<1> QED BY <1>1, <1>2, <1>4, <1>6, <1>7 DEF Calling, WalkInv, Typed
-----------------------------------------------------------------------------
LEMMA WalkStarts == ASSUME Init PROVE WalkInv
<1>1. /\ path = <<>> /\ nodes = 0 /\ live = {} /\ account = <<>> /\ verdict = {} /\ openerStack = {} /\ functionStacks = <<>>
      /\ loopStack = <<>> /\ contextStack = <<>> /\ stackIndexCounter = 0
      /\ stackSnapshots = <<>> /\ branchStacks = <<>> /\ yieldingAutoClosed = FALSE /\ yieldingReportedFirst = FALSE
  BY DEF Init
<1>2. Len(<<>>) = 0 /\ 1..0 = {} /\ DOMAIN <<>> = {} /\ 0 \in 0..MaxNodes /\ 0 \in 0..MaxOpeners
  BY PairedCallsAssumption
<1>3. Typed
  <2>2. <<>> \in [DOMAIN <<>> -> SUBSET Calls] /\ <<>> \in [DOMAIN <<>> -> Seq(SUBSET Calls)]
    <3>1. <<>> \in Seq(SUBSET Calls) /\ <<>> \in Seq(Seq(SUBSET Calls))
      OBVIOUS
    <3>2. <<>> \in [1..Len(<<>>) -> SUBSET Calls] /\ <<>> \in [1..Len(<<>>) -> Seq(SUBSET Calls)]
      BY <3>1, LenProperties
    <3>3. DOMAIN <<>> = 1..Len(<<>>)
      BY <3>1, LenProperties
    <3> QED BY <3>2, <3>3, Zenon
  <2>3. stackSnapshots \in [DOMAIN stackSnapshots -> SUBSET Calls]
        /\ branchStacks \in [DOMAIN branchStacks -> Seq(SUBSET Calls)]
    BY <2>2, <1>1, Zenon
  <2>4. /\ path \in Seq(SyntaxNode) /\ account \in Seq(SUBSET (Marks \ {"leaked"})) /\ functionStacks \in Seq(SUBSET Calls)
        /\ loopStack \in Seq(1..MaxNodes) /\ contextStack \in Seq(Contexts)
    BY <1>1
  <2>5. /\ nodes \in 0..MaxNodes /\ stackIndexCounter \in 0..MaxOpeners /\ live \in SUBSET Executions
        /\ verdict \in SUBSET Marks /\ openerStack \in SUBSET Calls
    BY <1>1, <1>2
  <2>6. yieldingAutoClosed \in BOOLEAN /\ yieldingReportedFirst \in BOOLEAN
    BY <1>1
  <2> QED BY <2>3, <2>4, <2>5, <2>6, Zenon DEF Typed
<1>4. Syntax(<<>>, 0, 0)
  BY <1>2 DEF Syntax
<1>5. ContextsFollow(<<>>, <<>>)
  BY <1>2 DEF ContextsFollow
<1>6. IdsIn(<<>>, {"loop"}) = {} /\ IdsIn(<<>>, Branching) = {}
  BY <1>2 DEF IdsIn
<1>7. LoopsFollow(<<>>, <<>>)
  BY <1>2, <1>6 DEF LoopsFollow, ToSet
<1>8. StacksFollow(<<>>, 0, <<>>, <<>>, {})
  BY <1>2, <1>6 DEF StacksFollow
<1>9. BranchesFollow(<<>>, <<>>)
  BY <1>2 DEF BranchesFollow
<1>10. CallsKnown(<<>>, {}, {}, 0, 0)
  BY <1>2 DEF CallsKnown, Numbered, Sound
<1>11. Walk(<<>>, 0, 0, <<>>, <<>>, <<>>, <<>>, <<>>, {}, {}, 0)
  BY <1>4, <1>5, <1>7, <1>8, <1>9, <1>10 DEF Walk
<1>12. Place = 0
  BY <1>1, <1>2 DEF Place
<1> QED BY <1>1, <1>3, <1>11, <1>12 DEF WalkInv

LEMMA WalkStutters == ASSUME WalkInv, UNCHANGED vars PROVE WalkInv'
<1>1. /\ openerStack' = openerStack /\ loopStack' = loopStack /\ functionStacks' = functionStacks
      /\ contextStack' = contextStack /\ stackIndexCounter' = stackIndexCounter
      /\ stackSnapshots' = stackSnapshots /\ branchStacks' = branchStacks
      /\ yieldingAutoClosed' = yieldingAutoClosed /\ yieldingReportedFirst' = yieldingReportedFirst
      /\ path' = path /\ nodes' = nodes /\ live' = live /\ account' = account /\ verdict' = verdict
  BY DEF vars, stacks, maps, flags
<1>2. Typed'
  BY <1>1 DEF WalkInv, Typed
<1>3. Place' = Place
  BY <1>1 DEF Place
<1> QED BY <1>1, <1>2, <1>3 DEF WalkInv

LEMMA WalkSteps == ASSUME WalkInv, [Next]_vars PROVE WalkInv'
<1>1. CASE EnterFunction
  BY <1>1, EnterFunctionWalks
<1>2. CASE ExitFunction
  BY <1>2, ExitFunctionWalks
<1>3. CASE EnterIf
  BY <1>3, EnterIfIsFresh, FreshWalks
<1>4. CASE Else
  BY <1>4, ElseWalks
<1>5. CASE ExitIf
  BY <1>5, ExitIfWalks
<1>6. CASE EnterLoop
  BY <1>6, EnterLoopIsFresh, FreshWalks
<1>7. CASE ExitLoop
  BY <1>7, ExitLoopWalks
<1>8. CASE EnterSwitch
  BY <1>8, EnterSwitchIsFresh, FreshWalks
<1>9. CASE \E default \in BOOLEAN : BeginCase(default)
  BY <1>9, BeginCaseWalks
<1>10. CASE EndCase
  BY <1>10, EndCaseWalks
<1>11. CASE ExitSwitch
  BY <1>11, ExitSwitchWalks
<1>12. CASE \E catch, finally \in BOOLEAN : EnterTry(catch, finally)
  BY <1>12, EnterTryIsGuarded, GuardedWalks
<1>13. CASE NextPart
  BY <1>13, NextPartWalks
<1>14. CASE ExitCatch
  BY <1>14, ExitCatchWalks
<1>15. CASE ExitFinally
  BY <1>15, ExitFinallyWalks
<1>16. CASE Return
  <2>1. PICK f \in 1..Len(path) : path[f].id \in 0..Throw /\ Jumping(path[f].id, EarlyMarks)
    BY <1>16, ReturnJumps
  <2>2. EarlyMarks \in SUBSET Unleaked
    BY DEF EarlyMarks, Unleaked, Marks
  <2> QED BY <2>1, <2>2, JumpingWalks
<1>17. CASE ThrowStatement
  <2>2. EarlyMarks \in SUBSET Unleaked
    BY DEF EarlyMarks, Unleaked, Marks
  <2> QED BY <1>17, <2>2, ThrowJumps, JumpingWalks
<1>18. CASE \E i \in DOMAIN path : BreakContinue(i) \/ BreakSwitch(i)
  BY <1>18, BreakContinueJumps, BreakSwitchJumps, JumpingWalks
<1>19. CASE \E opener \in Openers : Open(opener)
  BY <1>19, OpenCalls, CallingWalks
<1>20. CASE \E closer \in Closers : Close(closer)
  BY <1>20, CloseCalls, CallingWalks
<1>21. CASE Yield
  BY <1>21, YieldCalls, CallingWalks
<1>22. CASE UNCHANGED vars
  BY <1>22, WalkStutters
<1> QED BY <1>1, <1>2, <1>3, <1>4, <1>5, <1>6, <1>7, <1>8, <1>9, <1>10, <1>11, <1>12, <1>13, <1>14, <1>15,
           <1>16, <1>17, <1>18, <1>19, <1>20, <1>21, <1>22 DEF Next

LEMMA WalkIsTypeOK == ASSUME WalkInv PROVE TypeOK
<1>1. /\ Typed /\ ContextsFollow(path, contextStack) /\ LoopsFollow(path, loopStack)
      /\ StacksFollow(path, Place, functionStacks, stackSnapshots, openerStack) /\ BranchesFollow(path, branchStacks)
  BY DEF WalkInv, Walk
<1>2. Len(path) \in Nat /\ DOMAIN path = 1..Len(path)
  BY <1>1, LenProperties DEF Typed
<1>3. Ids({"loop"}) = IdsIn(path, {"loop"}) /\ Ids({"if", "switch", "try"}) = IdsIn(path, Branching)
  BY <1>2 DEF Ids, IdsIn, Branching
<1>4. path # <<>> => (Last(contextStack).inFinally = InFinalizer)
  <2> HAVE path # <<>>
  <2>1. /\ Len(path) \in 1..Len(path) /\ Within = Around(path, Len(path)) /\ contextStack # <<>>
        /\ Last(contextStack) = contextStack[Len(path)] /\ Last(contextStack) \in Contexts
    <3>1. Len(path) \in 1..Len(path) /\ Within = Around(path, Len(path)) /\ Len(path) \in Nat \ {0}
      BY PlaceKnown
    <3>2. Len(contextStack) = Len(path) /\ contextStack \in Seq(Contexts)
      BY <1>1 DEF ContextsFollow, Typed
    <3>3. contextStack # <<>>
      BY <3>1, <3>2, EmptySeq
    <3> QED BY <3>1, <3>2, <3>3, FrontIs
  <2>2. Last(contextStack).inFinally \in BOOLEAN
    BY <2>1 DEF Contexts
  <2>3. contextStack[Len(path)].inFinally <=> InFinalizer
    BY <1>1, <2>1 DEF ContextsFollow, Finalizes, InFinalizer
  <2>4. InFinalizer \in BOOLEAN
    BY Zenon DEF InFinalizer
  <2> QED BY <2>1, <2>2, <2>3, <2>4
<1>5. FollowsWalk
  BY <1>1, <1>3, <1>4 DEF FollowsWalk, ContextsFollow, LoopsFollow, StacksFollow, BranchesFollow
<1>6. Len(account) = Len(functionStacks)
  BY <1>1 DEF StacksFollow, Place
<1> QED BY <1>1, <1>5, <1>6 DEF TypeOK, Typed, Contexts, Executions

(* The types, and the bookkeeping of the rule: one context per open node,  *)
(* whose flag says whether this is a finally block; the loops that are     *)
(* open; no closed node in the two maps.                                   *)
THEOREM PairedCallsTypeCorrect == Spec => []TypeOK
<1>1. Init => WalkInv
  BY WalkStarts
<1>2. WalkInv /\ [Next]_vars => WalkInv'
  BY WalkSteps
<1>3. WalkInv => TypeOK
  BY WalkIsTypeOK
<1> QED BY <1>1, <1>2, <1>3, PTL DEF Spec
-----------------------------------------------------------------------------
(* What is said of a place depends on the nodes around it only, and holds  *)
(* for more marks where it holds for fewer.                                *)
LEMMA MarksGrow ==
  ASSUME NEW m, NEW l, m \subseteq l
  PROVE  (Regular(l) => Regular(m)) /\ (Silent(l) => Silent(m)) /\ (Tame(l) => Tame(m)) /\ (Silent(l) => Regular(l))
         /\ (Tame(l) => Regular(l))
  BY DEF Regular, Silent, Tame

Near(p, q, i) ==
  /\ i \in Nat \ {0}
  /\ \A j \in 1..i : Alike(p[j], q[j]) /\ (p[j].part = "finally" => q[j].part = "finally")
LEMMA AroundNear ==
  ASSUME NEW p, NEW q, NEW i, Near(p, q, i), NEW t \in 1..i
  PROVE  Around(q, t) = Around(p, t) /\ Around(p, t) \in SUBSET (1..i)
<1>1. ASSUME NEW j \in 1..i
      PROVE  q[j].depth = p[j].depth
  BY DEF Near, Alike
<1>2. i \in Nat
  BY DEF Near
<1>3. \A j \in 1..t : j \in 1..i
  BY <1>2
<1>4. t \in 1..t
  BY <1>2
<1> QED BY <1>1, <1>3, <1>4 DEF Around
LEMMA TracedNear ==
  ASSUME NEW p, NEW q, NEW i, Near(p, q, i), NEW s
  PROVE  (Traced(p, i, s) => Traced(q, i, s)) /\ (Kept(p, i, s) => Kept(q, i, s))
<1>1. i \in 1..i
  BY DEF Near
<1>2. Around(q, i) = Around(p, i) /\ Around(p, i) \in SUBSET (1..i)
  BY <1>1, AroundNear
<1>3. \A j \in Around(p, i) : q[j].kind = p[j].kind /\ q[j].id = p[j].id /\ q[j].stack = p[j].stack
  BY <1>2 DEF Near, Alike
<1> QED BY <1>2, <1>3 DEF Traced, Kept
LEMMA OutwardsNear ==
  ASSUME NEW p, NEW q, NEW i, Near(p, q, i), NEW t \in 1..i, NEW x, Outwards(p, t, x)
  PROVE  Outwards(q, t, x)
<1>2. Around(q, t) = Around(p, t) /\ Around(p, t) \in SUBSET (1..i)
  BY AroundNear
<1>3. \A j \in Around(p, t) : q[j].kind = p[j].kind /\ q[j].id = p[j].id /\ q[j].stack = p[j].stack
  BY <1>2 DEF Near, Alike
<1>4. q[t].stack = p[t].stack
  BY DEF Near, Alike
<1> QED BY <1>2, <1>3, <1>4 DEF Outwards, LeavesFunction
LEMMA FitsNear ==
  ASSUME NEW p, NEW q, NEW i, Near(p, q, i), NEW x, NEW s, Fits(p, i, x, s), NEW u, s \subseteq u
  PROVE  Fits(q, i, x, u)
<1>1. i \in 1..i
  BY DEF Near
<1>2. Around(q, i) = Around(p, i) /\ Around(p, i) \in SUBSET (1..i)
  BY <1>1, AroundNear
<1>3. ASSUME x.to # Here
      PROVE  \E t \in Around(q, i) : q[t].part = "finally" /\ Outwards(q, t, x)
  <2>1. PICK t \in Around(p, i) : p[t].part = "finally" /\ Outwards(p, t, x)
    BY <1>3 DEF Fits
  <2>2. t \in 1..i /\ q[t].part = "finally"
    BY <1>2, <2>1 DEF Near
  <2> QED BY <1>2, <2>1, <2>2, OutwardsNear
<1> QED BY <1>3 DEF Fits
LEMMA PlaceNear ==
  ASSUME NEW p, NEW q, NEW i, Near(p, q, i), NEW xs, NEW s, NEW m, PlaceInv(p, i, xs, s, m), NEW l, m \subseteq l
  PROVE  PlaceInv(q, i, xs, s, l)
<1>1. \A x \in xs : Fits(p, i, x, s) => Fits(q, i, x, s)
  BY FitsNear
<1>2. (Traced(p, i, s) => Traced(q, i, s)) /\ (Kept(p, i, s) => Kept(q, i, s))
  BY TracedNear
<1>3. (Silent(l) => Silent(m)) /\ (Tame(l) => Tame(m))
  BY MarksGrow
<1> QED BY <1>1, <1>2, <1>3 DEF PlaceInv
LEMMA NearItself ==
  ASSUME NEW p, NEW i \in Nat \ {0}
  PROVE  Near(p, p, i)
  BY DEF Near, Alike
LEMMA OutFitNear ==
  ASSUME NEW p, NEW q, NEW i, Near(p, q, i), q[i].part = p[i].part, NEW bs, NEW x, OutFit(p, i, bs, x)
  PROVE  OutFit(q, i, bs, x)
<1>1. i \in 1..i
  BY DEF Near
<1>2. q[i].kind = p[i].kind /\ q[i].stack = p[i].stack /\ q[i].finally = p[i].finally
  BY <1>1 DEF Near, Alike
<1>3. (Outwards(p, i, x) => Outwards(q, i, x)) /\ (Fits(p, i, x, bs[1]) => Fits(q, i, x, bs[1]))
  BY <1>1, OutwardsNear, FitsNear
<1> QED BY <1>2, <1>3 DEF OutFit

(* A place one node further in: the node is neither a function nor a loop, *)
(* or a loop that begins with the stack.                                   *)
LEMMA AroundDeeper ==
  ASSUME NEW p, NEW i \in Nat, i > 1, p[i].depth = p[i - 1].depth
  PROVE  Around(p, i) = Around(p, i - 1) \cup {i} /\ i \in Around(p, i)
         /\ Around(p, i - 1) \in SUBSET (1..i - 1) /\ i - 1 \in Nat \ {0}
  BY DEF Around
LEMMA FitsDeeper ==
  ASSUME NEW p, NEW i \in Nat, i > 1, p[i].depth = p[i - 1].depth, NEW x, NEW s, NEW u, s \subseteq u
  PROVE  /\ Fits(p, i - 1, x, s) => Fits(p, i, x, u)
         /\ Fits(p, i, x, s) /\ p[i].part # "finally" => Fits(p, i - 1, x, u)
<1>1. Around(p, i) = Around(p, i - 1) \cup {i}
  BY AroundDeeper
<1> QED BY <1>1 DEF Fits
LEMMA PlaceDeeper ==
  ASSUME NEW p, NEW i \in Nat, i > 1, p[i].depth = p[i - 1].depth, NEW xs, NEW s, NEW m,
         PlaceInv(p, i - 1, xs, s, m), p[i].kind = "loop" => s = p[i].stack
  PROVE  PlaceInv(p, i, xs, s, m)
<1>1. Around(p, i) = Around(p, i - 1) \cup {i}
  BY AroundDeeper
<1>2. Traced(p, i, s)
  BY <1>1 DEF PlaceInv, Traced
<1>3. Silent(m) => Kept(p, i, s)
  BY <1>1 DEF PlaceInv, Kept
<1>4. Silent(m) => \A x \in xs : Fits(p, i, x, s)
  BY FitsDeeper DEF PlaceInv
<1> QED BY <1>2, <1>3, <1>4 DEF PlaceInv
LEMMA TracedShallower ==
  ASSUME NEW p, NEW i \in Nat, i > 1, p[i].depth = p[i - 1].depth, NEW s
  PROVE  /\ \A u : u \subseteq s /\ Traced(p, i, s) => Traced(p, i - 1, u)
         /\ \A u : u \subseteq s /\ Traced(p, i, s) => Traced(p, i, u)
         /\ Kept(p, i, s) => Kept(p, i - 1, s)
<1>1. Around(p, i) = Around(p, i - 1) \cup {i}
  BY AroundDeeper
<1> QED BY <1>1 DEF Traced, Kept
LEMMA PlaceTogether ==
  ASSUME NEW p, NEW i, NEW xs, NEW ys, NEW s, NEW m, PlaceInv(p, i, xs, s, m), PlaceInv(p, i, ys, s, m)
  PROVE  PlaceInv(p, i, xs \cup ys, s, m)
  BY DEF PlaceInv, Stay
LEMMA LevelMore ==
  ASSUME NEW xs, NEW ys, NEW s, Level(xs, s), xs \subseteq ys
  PROVE  Level(ys, s)
  BY DEF Level, Over, Under
-----------------------------------------------------------------------------
(* A node whose out and thrown grow.                                       *)
Grown(r, s, xs, ts, b) ==
  s.part = r.part /\ s.out = r.out \cup xs /\ s.thrown = r.thrown \cup ts /\ (s.leaks => r.leaks \/ b)
Fitting(p, i, bs, xs, ts, b, m) ==
  /\ Silent(m) =>
       /\ p[i].kind = "function" => ~ b
       /\ \A x \in xs : OutFit(p, i, bs, x)
       /\ \A x \in ts : ThrownFit(p[i], x)
  /\ Tame(m) => Stay(xs) /\ Stay(ts)
LEMMA BranchGrows ==
  ASSUME NEW p, NEW q, NEW i, Near(p, q, i), q[i].part = p[i].part, p[i].out \subseteq q[i].out,
         NEW s, NEW m, BranchInv(p, i, s, m), NEW l, m \subseteq l
  PROVE  BranchInv(q, i, s, l)
<1>1. q[i].kind = p[i].kind /\ q[i].stack = p[i].stack
  BY DEF Near, Alike
<1>2. (Silent(l) => Silent(m)) /\ (Tame(l) => Tame(m)) /\ (Regular(l) => Regular(m))
  BY MarksGrow
<1>3. (Traced(p, i, s) => Traced(q, i, s)) /\ (Kept(p, i, s) => Kept(q, i, s))
  BY TracedNear
<1>4. Level(p[i].out, s) => Level(q[i].out, s)
  BY LevelMore
<1> QED BY <1>1, <1>2, <1>3, <1>4 DEF BranchInv
LEMMA NodeGrows ==
  ASSUME NEW p, NEW q, NEW i, Near(p, q, i), NEW bs, NEW m, NodeInv(p, i, bs, m), NEW l, m \subseteq l,
         NEW xs, NEW ts, NEW b, Grown(p[i], q[i], xs, ts, b), Fitting(p, i, bs, xs, ts, b, l)
  PROVE  NodeInv(q, i, bs, l)
<1>1. /\ q[i].kind = p[i].kind /\ q[i].stack = p[i].stack /\ q[i].catch = p[i].catch /\ q[i].part = p[i].part
      /\ q[i].out = p[i].out \cup xs /\ q[i].thrown = p[i].thrown \cup ts /\ (q[i].leaks => p[i].leaks \/ b)
  BY DEF Near, Alike, Grown
<1>2. (Silent(l) => Silent(m)) /\ (Tame(l) => Tame(m))
  BY MarksGrow
<1>3. \A k \in 1..Len(bs) : BranchInv(q, i, bs[k], l)
  BY <1>1, BranchGrows DEF NodeInv
<1>4. ASSUME Silent(l)
      PROVE  OutFits(q, i, bs)
  <2>1. OutFits(p, i, bs)
    BY <1>2, <1>4 DEF NodeInv
  <2>2. \A x \in q[i].out : OutFit(p, i, bs, x)
    BY <1>1, <1>4, <2>1 DEF OutFits, Fitting
  <2>3. \A x \in q[i].out : OutFit(q, i, bs, x)
    BY <1>1, <2>2, OutFitNear
  <2>4. \A x \in q[i].thrown : ThrownFit(p[i], x)
    BY <1>1, <1>4, <2>1 DEF OutFits, Fitting
  <2>5. \A x \in q[i].thrown : ThrownFit(q[i], x)
    BY <1>1, <2>4 DEF ThrownFit
  <2>6. p[i].kind = "function" => ~ p[i].leaks /\ ~ b
    BY <1>4, <2>1 DEF OutFits, Fitting
  <2> QED BY <1>1, <2>3, <2>5, <2>6 DEF OutFits
<1>5. ASSUME Tame(l)
      PROVE  OutStays(q[i])
  <2>1. OutStays(p[i]) /\ Stay(xs) /\ Stay(ts)
    BY <1>2, <1>5 DEF NodeInv, Fitting
  <2>2. Level(p[i].thrown, p[i].stack) => Level(q[i].thrown, q[i].stack)
    BY <1>1, LevelMore
  <2> QED BY <1>1, <2>1, <2>2 DEF OutStays, Stay
<1> QED BY <1>3, <1>4, <1>5 DEF NodeInv
LEMMA SavedGrows ==
  ASSUME NEW p, NEW q, NEW i, Near(p, q, i), NEW r, NEW s, Alike(r, s), NEW bs, NEW m, SavedInv(p, i, r, bs, m),
         NEW l, m \subseteq l, NEW xs, q[i].out = p[i].out \cup xs,
         Silent(l) /\ p[i].kind = "switch" => \A x \in xs : InBranch(x, bs)
  PROVE  SavedInv(q, i, s, bs, l)
<1>1. s.saved = r.saved /\ s.stack = r.stack /\ q[i].kind = p[i].kind
  BY DEF Near, Alike
<1>2. (Silent(l) => Silent(m)) /\ (Tame(l) => Tame(m))
  BY MarksGrow
<1>3. PlaceInv(q, i, r.saved, r.stack, l)
  BY PlaceNear DEF SavedInv
<1> QED BY <1>1, <1>2, <1>3 DEF SavedInv

Same(r, s) == Alike(r, s) /\ SamePart(r, s) /\ SameOut(r, s)
Alongside(p, q, n, brs, map, a, b) ==
  /\ n \in Nat /\ n <= Len(p) /\ Len(p) \in Nat
  /\ \A i \in 1..n : /\ Same(p[i], q[i]) /\ a[p[i].depth] \subseteq b[p[i].depth]
                      /\ BranchesAt(map, p[i].id) = BranchesAt(brs, p[i].id)
LEMMA NearAlong ==
  ASSUME NEW p, NEW q, NEW n, NEW brs, NEW map, NEW a, NEW b, Alongside(p, q, n, brs, map, a, b), NEW i \in 1..n
  PROVE  /\ Near(p, q, i) /\ Same(p[i], q[i]) /\ a[p[i].depth] \subseteq b[p[i].depth]
         /\ BranchesAt(map, p[i].id) = BranchesAt(brs, p[i].id) /\ q[i].id = p[i].id /\ q[i].depth = p[i].depth
         /\ q[i].out = p[i].out \cup {}
<1>1. i \in Nat \ {0}
  BY DEF Alongside
<1>2. ASSUME NEW j \in 1..i
      PROVE  Alike(p[j], q[j]) /\ (p[j].part = "finally" => q[j].part = "finally")
  <2>1. j \in 1..n
    BY <1>1 DEF Alongside
  <2> QED BY <2>1 DEF Alongside, Same, SamePart
<1>3. Near(p, q, i)
  BY <1>1, <1>2 DEF Near
<1> QED BY <1>3 DEF Alongside, Same, Alike, SameOut
LEMMA SameNode ==
  ASSUME NEW p, NEW q, NEW n, NEW brs, NEW map, NEW a, NEW b, Alongside(p, q, n, brs, map, a, b),
         NodesFlow(p, brs, a), NEW i \in 1..n
  PROVE  NodeInv(q, i, BranchesAt(map, q[i].id), b[q[i].depth])
<1>1. i \in 1..Len(p)
  BY DEF Alongside
<1>4. /\ Near(p, q, i) /\ Same(p[i], q[i]) /\ a[p[i].depth] \subseteq b[p[i].depth]
      /\ BranchesAt(map, p[i].id) = BranchesAt(brs, p[i].id) /\ q[i].id = p[i].id /\ q[i].depth = p[i].depth
  BY NearAlong
<1>5. Grown(p[i], q[i], {}, {}, FALSE)
  BY <1>4 DEF Grown, Same, SamePart, SameOut
<1>6. Fitting(p, i, BranchesAt(brs, p[i].id), {}, {}, FALSE, b[p[i].depth])
  BY DEF Fitting, Stay
<1>7. NodeInv(p, i, BranchesAt(brs, p[i].id), a[p[i].depth])
  BY <1>1 DEF NodesFlow
<1>8. NodeInv(q, i, BranchesAt(brs, p[i].id), b[p[i].depth])
  BY <1>4, <1>5, <1>6, <1>7, NodeGrows
<1> QED BY <1>4, <1>8
LEMMA SameLink ==
  ASSUME NEW p, NEW q, NEW n, NEW brs, NEW map, NEW a, NEW b, Alongside(p, q, n, brs, map, a, b),
         SavedFlow(p, brs, a), NEW i \in 1..n, i + 1 <= Len(p), Alike(p[i + 1], q[i + 1])
  PROVE  SavedInv(q, i, q[i + 1], BranchesAt(map, q[i].id), b[q[i].depth])
<1>1. i \in 1..Len(p) /\ i + 1 \in 1..Len(p)
  BY DEF Alongside
<1>4. /\ Near(p, q, i) /\ a[p[i].depth] \subseteq b[p[i].depth]
      /\ BranchesAt(map, p[i].id) = BranchesAt(brs, p[i].id) /\ q[i].id = p[i].id /\ q[i].depth = p[i].depth
      /\ q[i].out = p[i].out \cup {}
  BY NearAlong
<1>5. SavedInv(p, i, p[i + 1], BranchesAt(brs, p[i].id), a[p[i].depth])
  BY <1>1 DEF SavedFlow
<1>6. SavedInv(q, i, q[i + 1], BranchesAt(brs, p[i].id), b[p[i].depth])
  BY <1>4, <1>5, SavedGrows
<1> QED BY <1>4, <1>6

(* The flow, class by class of the steps.                                  *)
FlowTop(p, brs, a, xs, s) ==
  /\ PlaceInv(p, Len(p), xs, s, a[p[Len(p)].depth])
  /\ TopInv(p[Len(p)], BranchesAt(brs, p[Len(p)].id), xs, s, a[p[Len(p)].depth])
LEMMA FlowPush ==
  ASSUME NEW p, NEW brs, NEW a, NEW xs, NEW s, NodesFlow(p, brs, a), SavedFlow(p, brs, a), TopFlow(p, brs, a, xs, s),
         p # <<>> => Len(p) \in 1..Len(p) /\ xs # {} /\ p[Len(p)].part # "between",
         p = <<>> => Len(p) = 0,
         NEW r, r.saved = xs, r.stack = s, NEW q, Len(q) = Len(p) + 1, Alike(r, q[Len(q)]),
         NEW b, Alongside(p, q, Len(p), brs, brs, a, b),
         NodeInv(q, Len(q), BranchesAt(brs, q[Len(q)].id), b[q[Len(q)].depth]),
         NEW ys, NEW t, FlowTop(q, brs, b, ys, t)
  PROVE  NodesFlow(q, brs, b) /\ SavedFlow(q, brs, b) /\ TopFlow(q, brs, b, ys, t)
<1>0. Len(p) \in Nat /\ Len(q) \in Nat
  BY DEF Alongside
<1>1. NodesFlow(q, brs, b)
  <2>1. ASSUME NEW i \in 1..Len(q)
        PROVE  NodeInv(q, i, BranchesAt(brs, q[i].id), b[q[i].depth])
    <3>1. i = Len(q) \/ i \in 1..Len(p)
      BY <1>0
    <3> QED BY <3>1, SameNode
  <2> QED BY <2>1 DEF NodesFlow
<1>2. p # <<>> => SavedInv(q, Len(p), q[Len(q)], BranchesAt(brs, q[Len(p)].id), b[q[Len(p)].depth])
  <2> HAVE p # <<>>
  <2>1. Len(p) \in 1..Len(p) /\ Len(p) \in Nat \ {0} /\ p[Len(p)].part # "between"
    BY <1>0
  <2> DEFINE k == Len(p)
             bs == BranchesAt(brs, p[k].id)
             m == a[p[k].depth]
             l == b[p[k].depth]
  <2>2. Near(p, q, k) /\ q[k].id = p[k].id /\ q[k].depth = p[k].depth /\ q[k].out = p[k].out \cup {} /\ m \subseteq l
    BY <2>1, NearAlong
  <2>3. PlaceInv(p, k, xs, s, m) /\ TopInv(p[k], bs, xs, s, m)
    BY DEF TopFlow
  <2> HIDE DEF k, bs, m, l
  <2>4. SavedInv(p, k, r, bs, m)
    BY <2>1, <2>3 DEF SavedInv, TopInv, k
  <2>5. SavedInv(q, k, q[Len(q)], bs, l)
    BY <2>2, <2>4, SavedGrows
  <2> QED BY <2>2, <2>5 DEF k, bs, l
<1>3. SavedFlow(q, brs, b)
  <2>1. ASSUME NEW i \in 1..Len(q), NEW j \in 1..Len(q), j = i + 1
        PROVE  SavedInv(q, i, q[j], BranchesAt(brs, q[i].id), b[q[i].depth])
    <3>1. CASE j = Len(q)
      <4>1. i = Len(p) /\ Len(p) # 0
        BY <1>0, <2>1, <3>1
      <4>2. p # <<>>
        BY <4>1
      <4> QED BY <1>2, <3>1, <4>1, <4>2
    <3>2. CASE j # Len(q)
      <4>1. i \in 1..Len(p) /\ i + 1 <= Len(p) /\ j \in 1..Len(p)
        BY <1>0, <2>1, <3>2
      <4>2. Alike(p[i + 1], q[i + 1])
        BY <2>1, <4>1 DEF Alongside, Same
      <4> QED BY <2>1, <4>1, <4>2, SameLink
    <3> QED BY <3>1, <3>2
  <2> QED BY <2>1 DEF SavedFlow
<1> QED BY <1>1, <1>3 DEF TopFlow, FlowTop
LEMMA FlowTurn ==
  ASSUME NEW p, NEW brs, NEW a, NodesFlow(p, brs, a), SavedFlow(p, brs, a), Len(p) \in Nat \ {0},
         NEW q, Len(q) = Len(p), Alike(p[Len(p)], q[Len(p)]),
         NEW map, NEW b, Alongside(p, q, Len(p) - 1, brs, map, a, b),
         NodeInv(q, Len(q), BranchesAt(map, q[Len(q)].id), b[q[Len(q)].depth]),
         NEW ys, NEW t, FlowTop(q, map, b, ys, t)
  PROVE  NodesFlow(q, map, b) /\ SavedFlow(q, map, b) /\ TopFlow(q, map, b, ys, t)
<1>0. Len(p) \in Nat
  OBVIOUS
<1>1. NodesFlow(q, map, b)
  <2>1. ASSUME NEW i \in 1..Len(q)
        PROVE  NodeInv(q, i, BranchesAt(map, q[i].id), b[q[i].depth])
    <3>1. i = Len(q) \/ i \in 1..Len(p) - 1
      BY <1>0
    <3> QED BY <3>1, SameNode
  <2> QED BY <2>1 DEF NodesFlow
<1>2. SavedFlow(q, map, b)
  <2>1. ASSUME NEW i \in 1..Len(q), NEW j \in 1..Len(q), j = i + 1
        PROVE  SavedInv(q, i, q[j], BranchesAt(map, q[i].id), b[q[i].depth])
    <3>1. i \in 1..Len(p) - 1 /\ i + 1 <= Len(p) /\ (j = Len(p) \/ j \in 1..Len(p) - 1)
      BY <1>0, <2>1
    <3>2. Alike(p[i + 1], q[i + 1])
      BY <2>1, <3>1 DEF Alongside, Same
    <3> QED BY <2>1, <3>1, <3>2, SameLink
  <2> QED BY <2>1 DEF SavedFlow
<1> QED BY <1>1, <1>2 DEF TopFlow, FlowTop
LEMMA FlowPop ==
  ASSUME NEW p, NEW brs, NEW a, NodesFlow(p, brs, a), SavedFlow(p, brs, a), Len(p) \in Nat \ {0},
         NEW q, Len(q) = Len(p) - 1, NEW map, NEW b, Alongside(p, q, Len(p) - 1, brs, map, a, b),
         NEW ys, NEW t, q # <<>> => FlowTop(q, map, b, ys, t)
  PROVE  NodesFlow(q, map, b) /\ SavedFlow(q, map, b) /\ TopFlow(q, map, b, ys, t)
<1>0. Len(p) \in Nat
  OBVIOUS
<1>1. NodesFlow(q, map, b)
  BY SameNode DEF NodesFlow
<1>2. SavedFlow(q, map, b)
  <2>1. ASSUME NEW i \in 1..Len(q), NEW j \in 1..Len(q), j = i + 1
        PROVE  SavedInv(q, i, q[j], BranchesAt(map, q[i].id), b[q[i].depth])
    <3>1. i \in 1..Len(p) - 1 /\ i + 1 <= Len(p) /\ j \in 1..Len(p) - 1
      BY <1>0, <2>1
    <3>2. Alike(p[i + 1], q[i + 1])
      BY <2>1, <3>1 DEF Alongside, Same
    <3> QED BY <2>1, <3>1, <3>2, SameLink
  <2> QED BY <2>1 DEF SavedFlow
<1> QED BY <1>1, <1>2 DEF TopFlow, FlowTop
LEMMA FlowCall ==
  ASSUME NEW p, NEW brs, NEW a, NodesFlow(p, brs, a), SavedFlow(p, brs, a), Len(p) \in Nat,
         NEW b, \A i \in 1..Len(p) : a[p[i].depth] \subseteq b[p[i].depth],
         NEW ys, NEW t, FlowTop(p, brs, b, ys, t)
  PROVE  NodesFlow(p, brs, b) /\ SavedFlow(p, brs, b) /\ TopFlow(p, brs, b, ys, t)
<1>1. Alongside(p, p, Len(p), brs, brs, a, b) /\ \A i \in 1..Len(p) : Alike(p[i], p[i])
  BY DEF Alongside, Same, SamePart, SameOut, Alike
<1>2. NodesFlow(p, brs, b)
  BY <1>1, SameNode DEF NodesFlow
<1>3. SavedFlow(p, brs, b)
  <2>1. ASSUME NEW i \in 1..Len(p), NEW j \in 1..Len(p), j = i + 1
        PROVE  SavedInv(p, i, p[j], BranchesAt(brs, p[i].id), b[p[i].depth])
    BY <1>1, <2>1, SameLink
  <2> QED BY <2>1 DEF SavedFlow
<1> QED BY <1>2, <1>3 DEF TopFlow, FlowTop
-----------------------------------------------------------------------------
(* Entering a node.                                                        *)
LEMMA FlowKnown ==
  ASSUME WalkInv, FlowInv, path # <<>>
  PROVE  /\ NodesFlow(path, branchStacks, account) /\ SavedFlow(path, branchStacks, account)
         /\ TopFlow(path, branchStacks, account, live, openerStack)
         /\ PlaceInv(path, Len(path), live, openerStack, account[Place])
         /\ TopInv(Top, BranchesAt(branchStacks, Top.id), live, openerStack, account[Place])
         /\ NodeInv(path, Len(path), BranchesAt(branchStacks, Top.id), account[Place])
<1>1. Len(path) \in 1..Len(path) /\ path[Len(path)].depth = Place /\ Top = path[Len(path)]
  BY PlaceKnown DEF Top
<1> QED BY <1>1 DEF FlowInv, TopFlow, NodesFlow

LEMMA PlaceFewer ==
  ASSUME NEW p, NEW i, NEW xs, NEW s, NEW m, PlaceInv(p, i, xs, s, m), NEW ys \in SUBSET xs
  PROVE  PlaceInv(p, i, ys, s, m)
  BY DEF PlaceInv, Stay

Longer(r, q) ==
  /\ r \in SyntaxNode /\ q \in Seq(SyntaxNode) /\ Len(q) = Len(path) + 1 /\ Alike(r, q[Len(q)])
  /\ \A i \in 1..Len(path) : Same(path[i], q[i])
LEMMA LongerAppend ==
  ASSUME WalkInv, NEW r \in SyntaxNode
  PROVE  Longer(r, Append(path, r)) /\ Append(path, r)[Len(Append(path, r))] = r
<1>1. /\ Append(path, r) \in Seq(SyntaxNode) /\ Len(path) \in Nat /\ Len(Append(path, r)) = Len(path) + 1
      /\ \A i \in 1..Len(path) : Append(path, r)[i] = path[i]
      /\ Append(path, r)[Len(path) + 1] = r
  BY AppendIs DEF WalkInv, Typed
<1> QED BY <1>1 DEF Longer, Same, Alike, SamePart, SameOut

LEMMA PlaceEntered ==
  ASSUME WalkInv, path # <<>>, NEW r, r.kind # "function", r.depth = Place, NEW q, Longer(r, q),
         NEW xs, NEW s, NEW m, PlaceInv(path, Len(path), xs, s, m), r.kind = "loop" => s = r.stack
  PROVE  PlaceInv(q, Len(q), xs, s, m)
<1> DEFINE k == Len(path)
<1>1. k \in Nat \ {0} /\ Len(q) = k + 1 /\ path[k].depth = Place
  BY PlaceKnown DEF Longer
<1>2. \A j \in 1..k : Alike(path[j], q[j]) /\ q[j].part = path[j].part
  BY DEF Longer, Same, SamePart
<1>3. k \in 1..k
  BY <1>1
<1> HIDE DEF k
<1>4. Near(path, q, k)
  BY <1>1, <1>2 DEF Near
<1>5. PlaceInv(q, k, xs, s, m)
  BY <1>4, PlaceNear DEF k
<1>6. q[k].depth = Place /\ q[Len(q)].depth = Place /\ q[Len(q)].kind = r.kind /\ q[Len(q)].stack = r.stack
  BY <1>1, <1>2, <1>3 DEF Longer, Alike
<1>7. Len(q) \in Nat /\ Len(q) > 1 /\ Len(q) - 1 = k
  BY <1>1
<1> QED BY <1>5, <1>6, <1>7, PlaceDeeper

LEMMA EnteredFlow ==
  ASSUME WalkInv, FlowInv, InCode, NEW r, Entered(r), r.saved = live, Longer(r, path'), path'[Len(path')].depth = Place,
         NodeInv(path', Len(path'), <<>>, account[Place]),
         PlaceInv(path', Len(path'), live', openerStack, account[Place]),
         TopInv(path'[Len(path')], <<>>, live', openerStack, account[Place])
  PROVE  FlowInv'
<1>1. /\ path # <<>> /\ live # {} /\ Top.part # "between" /\ r.stack = openerStack /\ r.id = nodes + 1
      /\ account' = account /\ branchStacks' = branchStacks /\ openerStack' = openerStack
  BY DEF Entered, Enterable, InCode, Unmarked
<1>2. Len(path) \in 1..Len(path) /\ Len(path) \in Nat /\ Top = path[Len(path)] /\ nodes \in Nat
  BY <1>1, PlaceKnown DEF Top
<1>3. BranchesAt(branchStacks, r.id) = <<>>
  BY <1>1, <1>2, BranchesNew DEF WalkInv, Walk, Typed
<1>4. path'[Len(path')].id = r.id /\ Len(path') = Len(path) + 1 /\ Alike(r, path'[Len(path')])
  BY DEF Longer, Alike
<1>5. Alongside(path, path', Len(path), branchStacks, branchStacks, account, account)
  BY <1>2 DEF Alongside, Longer
<1>6. FlowTop(path', branchStacks, account, live', openerStack)
  BY <1>3, <1>4 DEF FlowTop
<1>7. NodeInv(path', Len(path'), BranchesAt(branchStacks, path'[Len(path')].id), account[path'[Len(path')].depth])
  BY <1>3, <1>4
<1>8. /\ NodesFlow(path', branchStacks, account) /\ SavedFlow(path', branchStacks, account)
      /\ TopFlow(path', branchStacks, account, live', openerStack)
  BY <1>1, <1>2, <1>4, <1>5, <1>6, <1>7, FlowKnown, FlowPush
<1> QED BY <1>1, <1>8 DEF FlowInv

LEMMA EmptyNode ==
  ASSUME NEW q, NEW i, q[i].out = {}, q[i].thrown = {}, q[i].leaks = FALSE, q[i].catch = FALSE, NEW m
  PROVE  NodeInv(q, i, <<>>, m)
<1>1. \A b \in 1..Len(<<>>) : BranchInv(q, i, <<>>[b], m)
  OBVIOUS
<1> QED BY <1>1 DEF NodeInv, OutFits, OutStays, Stay

(* What is said of the executions and the stack at a node that is entered. *)
LEMMA EntersLevel ==
  ASSUME WalkInv, FlowInv, InCode
  PROVE  /\ PlaceInv(path, Len(path), live, openerStack, account[Place])
         /\ Tame(account[Place]) => Level(live, openerStack)
<1>1. path # <<>> /\ live # {} /\ Top.part # "between"
  BY DEF InCode
<1> QED BY <1>1, FlowKnown DEF TopInv

LEMMA FreshFlows == ASSUME WalkInv, FlowInv, NEW r, Fresh(r) PROVE FlowInv'
<1>1. /\ path # <<>> /\ r \in SyntaxNode /\ r.kind # "function" /\ r.depth = Place /\ r.stack = openerStack
      /\ InCode /\ Entered(r) /\ r.saved = live /\ path' = Append(path, r)
      /\ r.out = {} /\ r.thrown = {} /\ r.leaks = FALSE /\ r.catch = FALSE
      /\ live' = (IF r.part = "between" THEN {} ELSE live) /\ (r.kind = "switch" <=> r.part = "between")
  BY DEF Fresh, InCode, Entered, Enterable
<1>2. Longer(r, path') /\ path'[Len(path')] = r
  BY <1>1, LongerAppend
<1>3. PlaceInv(path', Len(path'), live, openerStack, account[Place])
  BY <1>1, <1>2, EntersLevel, PlaceEntered
<1>4. PlaceInv(path', Len(path'), live', openerStack, account[Place])
  BY <1>1, <1>3, PlaceFewer
<1>5. NodeInv(path', Len(path'), <<>>, account[Place])
  BY <1>1, <1>2, EmptyNode
<1>6. TopInv(r, <<>>, live', openerStack, account[Place])
  <2>1. \A b \in 1..Len(<<>>) : Level(r.out \cup live', <<>>[b])
    OBVIOUS
  <2> QED BY <1>1, <2>1, EntersLevel DEF TopInv
<1> QED BY <1>1, <1>2, <1>4, <1>5, <1>6, EnteredFlow
LEMMA StopsAtTop ==
  ASSUME NEW p, Len(p) \in Nat, NEW x, Stops(p[Len(p)], x), NEW i \in 1..Len(p), i < Len(p)
  PROVE  ~ Reaches(p, x, i)
<1>1. Len(p) \in i + 1..Len(p)
  OBVIOUS
<1> QED BY <1>1 DEF Reaches
LEMMA JumpedSame ==
  ASSUME NEW p, NEW xs, NEW q, Jumped(p, xs, q), NEW i \in 1..Len(p), Arriving(p, xs, i) = {}
  PROVE  Same(p[i], q[i])
<1>1. Caught(p, xs, i) = {} /\ Going(p, xs, i) = {}
  BY DEF Caught, Going
<1>2. Landed(p, xs, i) = {} /\ Moved(p, xs, i) = {}
  BY <1>1 DEF Landed, Moved
<1>3. ~ Lost(p, xs, i)
  BY DEF Lost
<1>4. p[i] \in SyntaxNode /\ Alike(p[i], q[i]) /\ SamePart(p[i], q[i])
  BY ElementOfSeq DEF Jumped, Follows
<1>5. p[i].leaks \in BOOLEAN
  BY <1>4 DEF SyntaxNode
<1>6. /\ q[i].leaks = (p[i].leaks \/ Lost(p, xs, i))
      /\ q[i].out = p[i].out \cup Moved(p, xs, i) /\ q[i].thrown = p[i].thrown \cup Landed(p, xs, i)
  BY DEF Jumped
<1>7. SameOut(p[i], q[i])
  BY <1>2, <1>3, <1>5, <1>6 DEF SameOut
<1> QED BY <1>4, <1>7 DEF Same

LEMMA GuardedTop ==
  ASSUME WalkInv, NEW r, NEW catch \in BOOLEAN, NEW xs, Guarded(r, catch, xs)
  PROVE  /\ Longer(r, path') /\ Len(path') = Len(path) + 1 /\ SamePart(r, path'[Len(path')])
         /\ path'[Len(path')].out = {} /\ path'[Len(path')].leaks = FALSE
         /\ \A y \in path'[Len(path')].thrown : y.to = Here /\ \E x \in live : y.open = x.open
         /\ catch => \A x \in live : \E y \in path'[Len(path')].thrown : y.open = x.open
<1> DEFINE p == Append(path, r)
           k == Len(path) + 1
<1>1. /\ Entered(r) /\ r \in SyntaxNode /\ r.out = {} /\ r.thrown = {} /\ r.leaks = FALSE
      /\ r.kind = "try" /\ r.part = "block" /\ r.catch = catch
      /\ xs = (IF catch THEN Towards(Throw) ELSE {}) /\ xs \in SUBSET Executions
  BY DEF Guarded, Entered, Enterable
<1>2. /\ Len(path) \in Nat /\ Len(p) = k /\ p[k] = r /\ k \in Nat /\ k \in 1..k
      /\ \A i \in 1..Len(path) : p[i] = path[i]
  BY <1>1, AppendIs DEF WalkInv, Typed
<1>3. Jumped(p, xs, path')
  BY GuardedWalks
<1>4. path' \in Seq(SyntaxNode) /\ Len(path') = k /\ Alike(r, path'[k]) /\ SamePart(r, path'[k])
      /\ path'[k].leaks = (r.leaks \/ Lost(p, xs, k))
      /\ path'[k].out = r.out \cup Moved(p, xs, k)
      /\ path'[k].thrown = r.thrown \cup Landed(p, xs, k)
  BY <1>2, <1>3 DEF Jumped, Follows
<1>5. ASSUME NEW x \in xs
      PROVE  x.to = Throw /\ Catches(p[k], x) /\ Reaches(p, x, k)
  <2>1. catch /\ x.to = Throw
    BY <1>1, TowardsTyped, PairedCallsAssumption DEF Throw
  <2>2. Catches(p[k], x)
    BY <1>1, <1>2, <2>1 DEF Catches
  <2>3. \A j \in k + 1..Len(p) : FALSE
    BY <1>2
  <2> QED BY <2>1, <2>2, <2>3 DEF Reaches, Stops
<1> HIDE DEF p, k
<1>6. ASSUME NEW i \in 1..Len(path)
      PROVE  Same(path[i], path'[i])
  <2>1. i \in 1..Len(p) /\ i < Len(p) /\ Len(p) \in Nat
    BY <1>2 DEF k
  <2>2. Arriving(p, xs, i) = {}
    BY <1>2, <1>5, <2>1, StopsAtTop DEF Arriving, Stops
  <2> QED BY <1>2, <1>3, <2>1, <2>2, JumpedSame
<1>7. Longer(r, path') /\ Len(path') = Len(path) + 1
  BY <1>1, <1>4, <1>6 DEF Longer, k
<1>8. ~ Lost(p, xs, k) /\ Moved(p, xs, k) = {}
  BY <1>1, <1>2, <1>5 DEF Lost, Moved, Going, Arriving
<1>9. path'[k].out = {} /\ path'[k].leaks = FALSE /\ path'[k].thrown = Landed(p, xs, k)
  BY <1>1, <1>4, <1>8
<1>10. Caught(p, xs, k) = xs
  BY <1>5 DEF Caught, Arriving
<1>11. ASSUME NEW x \in Executions
       PROVE  [x EXCEPT !.to = Here].open = x.open /\ [x EXCEPT !.to = Here].to = Here
  BY DEF Executions
<1>12. ASSUME NEW y \in Landed(p, xs, k)
       PROVE  y.to = Here /\ \E x \in live : y.open = x.open
  <2>1. PICK z \in xs : y = [z EXCEPT !.to = Here]
    BY <1>10 DEF Landed
  <2>2. \E x \in live : z.open = x.open
    BY <1>1, TowardsTyped, PairedCallsAssumption DEF Throw
  <2> QED BY <1>1, <1>11, <2>1, <2>2
<1>13. ASSUME catch, NEW x \in live
       PROVE  \E y \in Landed(p, xs, k) : y.open = x.open
  <2>1. PICK z \in xs : z.open = x.open
    BY <1>1, <1>13, TowardsTyped, PairedCallsAssumption DEF Throw
  <2>2. [z EXCEPT !.to = Here] \in Landed(p, xs, k)
    BY <1>10 DEF Landed
  <2>3. [z EXCEPT !.to = Here].open = x.open
    BY <1>1, <1>11, <2>1
  <2> QED BY <2>2, <2>3
<1> QED BY <1>4, <1>7, <1>9, <1>12, <1>13

LEMMA GuardedFlows ==
  ASSUME WalkInv, FlowInv, NEW r, NEW catch \in BOOLEAN, NEW xs, Guarded(r, catch, xs)
  PROVE  FlowInv'
<1> DEFINE q == path'
           k == Len(path')
           m == account[Place]
<1>1. /\ path # <<>> /\ Entered(r) /\ InCode /\ r \in SyntaxNode /\ r.kind = "try" /\ r.part = "block" /\ r.catch = catch
      /\ r.depth = Place /\ r.stack = openerStack /\ r.saved = live /\ live' = live
  BY DEF Guarded, Entered, Enterable, InCode
<1>2. /\ Longer(r, q) /\ SamePart(r, q[k]) /\ q[k].out = {} /\ q[k].leaks = FALSE
      /\ \A y \in q[k].thrown : y.to = Here /\ \E x \in live : y.open = x.open
      /\ catch => \A x \in live : \E y \in q[k].thrown : y.open = x.open
  BY GuardedTop
<1>3. /\ Alike(r, q[k]) /\ q[k].depth = Place /\ q[k].kind = "try" /\ q[k].part = "block" /\ q[k].catch = catch
      /\ q[k].stack = openerStack
  BY <1>1, <1>2 DEF Longer, Alike, SamePart
<1>4. /\ PlaceInv(path, Len(path), live, openerStack, m)
      /\ Tame(m) => Level(live, openerStack)
  BY <1>1, EntersLevel
<1> HIDE DEF q, k, m
<1>5. PlaceInv(q, k, live, openerStack, m)
  BY <1>1, <1>2, <1>4, PlaceEntered DEF k, q
<1>6. TopInv(q[k], <<>>, live, openerStack, m)
  BY <1>3, <1>4 DEF TopInv
<1>7. NodeInv(q, k, <<>>, m)
  <2>1. Silent(m) => OutFits(q, k, <<>>)
    BY <1>2, <1>3, <1>4 DEF OutFits, ThrownFit, PlaceInv, Fits
  <2>2. catch /\ Tame(m) => Level(q[k].thrown, openerStack)
    BY <1>2, <1>4 DEF Level, Over, Under
  <2>3. Tame(m) => OutStays(q[k])
    BY <1>2, <1>3, <2>2 DEF OutStays, Stay
  <2> QED BY <2>1, <2>3 DEF NodeInv
<1> QED BY <1>1, <1>2, <1>3, <1>5, <1>6, <1>7, EnteredFlow DEF q, k, m

LEMMA EnterFunctionFlows == ASSUME WalkInv, FlowInv, EnterFunction PROVE FlowInv'
<1> DEFINE r == Node("function", "body")
           x == [open |-> {}, to |-> Here]
           k == Len(path')
<1>1. /\ nodes < MaxNodes /\ (path # <<>> => Top.part # "between" /\ live # {})
      /\ path' = Append(path, r) /\ openerStack' = {} /\ live' = {x} /\ account' = Append(account, {})
      /\ branchStacks' = branchStacks
  BY DEF EnterFunction, InCode, maps
<1>2. /\ r \in SyntaxNode /\ r.stack = openerStack /\ r.saved = live /\ r.depth = Place + 1
      /\ r.kind = "function" /\ r.part = "body" /\ r.out = {} /\ r.thrown = {} /\ r.leaks = FALSE /\ r.catch = FALSE
      /\ r.id = nodes + 1
  BY <1>1, NodeIs DEF Kinds, PartsOf, Enterable
<1>3. x.open = {} /\ x.to = Here
  OBVIOUS
<1> HIDE DEF r, x
<1>4. Longer(r, path') /\ path'[k] = r /\ k = Len(path) + 1
  BY <1>1, <1>2, LongerAppend DEF Longer
<1>5. /\ account \in Seq(SUBSET Unleaked) /\ {} \in SUBSET Unleaked /\ path \in Seq(SyntaxNode)
      /\ BranchesFollow(path, branchStacks) /\ Syntax(path, Place, nodes)
      /\ nodes \in Nat /\ Place \in Nat /\ Len(path) \in Nat
  BY LenProperties, PairedCallsAssumption DEF WalkInv, Walk, Typed, Unleaked, Place
<1>6. \A d \in 1..Place : account'[d] = account[d]
  BY <1>1, <1>5, AppendIs DEF Place
<1>15. account'[Place + 1] = {}
  BY <1>1, <1>5, AppendIs DEF Place
<1>7. BranchesAt(branchStacks, r.id) = <<>>
  BY <1>2, <1>5, BranchesNew
<1>8. ASSUME path # <<>>, NEW i \in 1..Len(path)
      PROVE  path[i].depth \in 1..Place
  BY <1>8, PlaceKnown
<1>9. path = <<>> => Len(path) = 0
  OBVIOUS
<1>16. ASSUME NEW i \in 1..Len(path)
       PROVE  path # <<>>
  BY <1>9
<1>10. Alongside(path, path', Len(path), branchStacks, branchStacks, account, account')
  <2>1. ASSUME NEW i \in 1..Len(path)
        PROVE  Same(path[i], path'[i]) /\ account[path[i].depth] \subseteq account'[path[i].depth]
    <3>1. path[i].depth \in 1..Place
      BY <1>8, <1>16
    <3> QED BY <3>1, <1>4, <1>6 DEF Longer
  <2> QED BY <2>1, <1>5 DEF Alongside
<1>11. FlowTop(path', branchStacks, account', live', {})
  <2>1. Around(path', k) \in SUBSET {k}
    <3>1. ASSUME NEW j \in 1..k, path'[j].depth = Place + 1
          PROVE  j = k
      <4>1. j # k => j \in 1..Len(path)
        BY <1>4, <1>5
      <4>2. j # k => path'[j].depth = path[j].depth
        BY <1>4, <4>1 DEF Longer, Same, Alike
      <4> QED BY <3>1, <4>1, <4>2, <1>5, <1>8, <1>16
    <3> QED BY <3>1, <1>2, <1>4 DEF Around
  <2>2. PlaceInv(path', k, live', {}, account'[r.depth])
    BY <1>1, <1>2, <1>3, <1>4, <2>1 DEF PlaceInv, Traced, Kept, Fits, Stay
  <2>3. TopInv(r, <<>>, live', {}, account'[r.depth])
    BY <1>1, <1>2, <1>3 DEF TopInv, Level, Over, Under
  <2> QED BY <1>4, <1>7, <2>2, <2>3 DEF FlowTop
<1>12. NodeInv(path', k, BranchesAt(branchStacks, path'[k].id), account'[path'[k].depth])
  BY <1>2, <1>4, <1>7, EmptyNode
<1>13. path # <<>> => Len(path) \in 1..Len(path) /\ live # {} /\ path[Len(path)].part # "between"
  BY <1>1, PlaceKnown DEF Top
<1>17. Alike(r, path'[k])
  BY <1>4 DEF Longer
<1>14. /\ NodesFlow(path', branchStacks, account') /\ SavedFlow(path', branchStacks, account')
       /\ TopFlow(path', branchStacks, account', live', {})
  BY <1>2, <1>4, <1>9, <1>10, <1>11, <1>12, <1>13, <1>17, FlowPush DEF FlowInv
<1> QED BY <1>1, <1>14 DEF FlowInv
-----------------------------------------------------------------------------
(* Calls.                                                                  *)
LEMMA LeastIn ==
  ASSUME NEW T \in SUBSET Nat, T # {}
  PROVE  \E m \in T : \A j \in T : m <= j
<1> DEFINE less == OpToRel(<, Nat)
<1>1. IsWellFoundedOn(less, Nat)
  BY NatLessThanWellFounded
<1>2. \A x, y \in Nat : y < x => <<y, x>> \in less
  BY DEF OpToRel
<1> HIDE DEF less
<1>3. PICK m \in T : \A k \in T : ~ (<<k, m>> \in less)
  BY <1>1, WFMin
<1>4. \A k \in Nat : ~ (k < m) => m <= k
  OBVIOUS
<1> QED BY <1>2, <1>3, <1>4

LEMMA LatestIs ==
  ASSUME NEW cs \in SUBSET Calls, cs # {}, NEW k \in Nat, \A c \in cs : c.index < k
  PROVE  Latest(cs) \in cs /\ \A d \in cs : d.index <= Latest(cs).index
<1>1. \A c \in cs : c.index \in Nat /\ k - c.index \in Nat
  BY PairedCallsAssumption DEF Calls
<1> DEFINE T == {k - c.index : c \in cs}
<1>2. T \in SUBSET Nat /\ T # {}
  BY <1>1
<1>3. PICK m \in T : \A j \in T : m <= j
  BY <1>2, LeastIn
<1>4. PICK c \in cs : m = k - c.index
  BY <1>3
<1>5. \A d \in cs : d.index <= c.index
  <2>1. ASSUME NEW d \in cs
        PROVE  d.index <= c.index
    <3>1. k - c.index <= k - d.index
      BY <1>3, <1>4
    <3> QED BY <1>1, <3>1
  <2> QED BY <2>1
<1>6. \E e \in cs : \A d \in cs : d.index <= e.index
  BY <1>5
<1> QED BY <1>6, Zenon DEF Latest

LEMMA MarksKnown ==
  ASSUME WalkInv, path # <<>>, NEW ms, Marked(ms)
  PROVE  /\ account'[Place] = account[Place] \cup ms /\ account[Place] \subseteq account'[Place]
         /\ \A i \in 1..Len(path) : account[path[i].depth] \subseteq account'[path[i].depth]
<1>1. ASSUME NEW i \in 1..Len(path)
      PROVE  account[path[i].depth] \subseteq account'[path[i].depth]
  <2>1. path[i].depth \in 1..Place
    BY PlaceKnown
  <2> QED BY <2>1 DEF Marked
<1> QED BY <1>1 DEF Marked

LEMMA CallingFlows ==
  ASSUME WalkInv, FlowInv, InCode, NEW k, NEW ms, Calling(k, ms),
         PlaceInv(path, Len(path), live', openerStack', account'[Place]),
         Tame(account'[Place]) => Level(live', openerStack')
  PROVE  FlowInv'
<1>1. /\ path # <<>> /\ live # {} /\ Top.part # "between" /\ Marked(ms) /\ path' = path /\ branchStacks' = branchStacks
  BY DEF InCode, Calling, maps
<1>2. /\ Len(path) \in Nat /\ path[Len(path)] = Top /\ path[Len(path)].depth = Place
  BY <1>1, PlaceKnown DEF Top
<1>3. /\ NodesFlow(path, branchStacks, account) /\ SavedFlow(path, branchStacks, account)
      /\ TopInv(Top, BranchesAt(branchStacks, Top.id), live, openerStack, account[Place])
  BY <1>1, FlowKnown
<1>4. /\ \A i \in 1..Len(path) : account[path[i].depth] \subseteq account'[path[i].depth]
      /\ account[Place] \subseteq account'[Place]
  BY <1>1, MarksKnown
<1>5. TopInv(Top, BranchesAt(branchStacks, Top.id), live', openerStack', account'[Place])
  BY <1>1, <1>3, <1>4, MarksGrow DEF TopInv
<1>6. FlowTop(path, branchStacks, account', live', openerStack')
  BY <1>2, <1>5 DEF FlowTop
<1>7. /\ NodesFlow(path, branchStacks, account') /\ SavedFlow(path, branchStacks, account')
      /\ TopFlow(path, branchStacks, account', live', openerStack')
  BY <1>2, <1>3, <1>4, <1>6, FlowCall
<1> QED BY <1>1, <1>7 DEF FlowInv

(* Executions with the same destination and fewer open calls of before.    *)
LEMMA OutwardsLess ==
  ASSUME NEW p, NEW t, NEW x, NEW y, y.to = x.to, y.open \cap p[t].stack \subseteq x.open, Outwards(p, t, x)
  PROVE  Outwards(p, t, y)
<1>1. LeavesFunction(p, t, x) => LeavesFunction(p, t, y)
  BY DEF LeavesFunction
<1>2. y.open \cap p[t].stack \subseteq x.open \cap p[t].stack
  OBVIOUS
<1> QED BY <1>1, <1>2 DEF Outwards
LEMMA FitsLess ==
  ASSUME NEW p, NEW i, NEW x, NEW s, NEW y, NEW u, Fits(p, i, x, s), y.to = x.to, y.open \subseteq u,
         \A t \in Around(p, i) : y.open \cap p[t].stack \subseteq x.open
  PROVE  Fits(p, i, y, u)
  BY OutwardsLess DEF Fits

LEMMA OpenFlows == ASSUME WalkInv, FlowInv, NEW opener \in Openers, Open(opener) PROVE FlowInv'
<1> DEFINE k == stackIndexCounter
           c == Call(opener)
           m == account[Place]
           n == Len(path)
<1>1. /\ InCode /\ path # <<>> /\ openerStack' = openerStack \cup {c} /\ account' = account /\ k < MaxOpeners
      /\ live' = {[x EXCEPT !.open = @ \cup {c}] : x \in live}
  BY DEF Open, InCode, Unmarked
<1>2. Calling(k + 1, {})
  BY OpenCalls
<1>3. /\ c.index = k /\ c.loops = IdsIn(path, {"loop"}) /\ k \in Nat /\ live \in SUBSET Executions
      /\ \A i \in 1..n : path[i] \in SyntaxNode /\ NodeKnown(path[i], k)
  <2>1. \A i \in 1..n : path[i] \in SyntaxNode /\ NodeKnown(path[i], k)
    BY ElementOfSeq DEF WalkInv, Typed, Walk, CallsKnown
  <2> QED BY <1>1, <2>1, CallIsNew DEF WalkInv, Typed
<1>4. Around(path, n) \in SUBSET (1..n)
  BY DEF Around
<1> HIDE DEF k, c, m, n
<1>5. ASSUME NEW i \in 1..n
      PROVE  c \notin path[i].stack
  <2>1. Numbered(path[i].stack, k, path[i].id - 1)
    BY <1>3 DEF NodeKnown
  <2>2. ~ (k < k)
    BY <1>3
  <2> QED BY <2>1, <2>2, <1>3 DEF Numbered
<1>6. PlaceInv(path, n, live, openerStack, m) /\ (Tame(m) => Level(live, openerStack))
  BY <1>1, EntersLevel DEF m, n
<1>7. ASSUME NEW x \in Executions
      PROVE  [x EXCEPT !.open = @ \cup {c}].open = x.open \cup {c} /\ [x EXCEPT !.open = @ \cup {c}].to = x.to
  BY DEF Executions
<1>8. \A y \in live' : \E x \in live : y.open = x.open \cup {c} /\ y.to = x.to
  <2> SUFFICES ASSUME NEW y \in live' PROVE \E x \in live : y.open = x.open \cup {c} /\ y.to = x.to
    OBVIOUS
  <2>1. PICK x \in live : y = [x EXCEPT !.open = @ \cup {c}]
    BY <1>1
  <2>2. x \in Executions
    BY <1>3
  <2> QED BY <2>1, <2>2, <1>7
<1>9. \A x \in live : \E y \in live' : y.open = x.open \cup {c}
  <2> SUFFICES ASSUME NEW x \in live PROVE \E y \in live' : y.open = x.open \cup {c}
    OBVIOUS
  <2>1. [x EXCEPT !.open = @ \cup {c}] \in live'
    BY <1>1
  <2>2. x \in Executions
    BY <1>3
  <2> QED BY <2>1, <2>2, <1>7
<1>10. PlaceInv(path, n, live', openerStack', m)
  <2>1. Traced(path, n, openerStack')
    <3>1. \A j \in Around(path, n) : path[j].kind = "loop" => path[j].id \in c.loops
      BY <1>3, <1>4 DEF IdsIn, n
    <3> QED BY <1>1, <1>6, <3>1 DEF PlaceInv, Traced
  <2>2. Silent(m) => Kept(path, n, openerStack')
    BY <1>1, <1>6 DEF PlaceInv, Kept
  <2>3. ASSUME Silent(m), NEW y \in live'
        PROVE  Fits(path, n, y, openerStack')
    <3>1. PICK x \in live : y.open = x.open \cup {c} /\ y.to = x.to
      BY <1>8
    <3>2. Fits(path, n, x, openerStack)
      BY <1>6, <2>3 DEF PlaceInv
    <3>3. y.open \subseteq openerStack'
      BY <1>1, <3>1, <3>2 DEF Fits
    <3>4. \A t \in Around(path, n) : y.open \cap path[t].stack \subseteq x.open
      BY <1>4, <1>5, <3>1
    <3> QED BY <3>1, <3>2, <3>3, <3>4, FitsLess
  <2>4. Tame(m) => Stay(live')
    BY <1>6, <1>8 DEF PlaceInv, Stay
  <2> QED BY <2>1, <2>2, <2>3, <2>4 DEF PlaceInv
<1>11. Tame(m) => Level(live', openerStack')
  BY <1>1, <1>6, <1>9 DEF Level, Over, Under
<1> QED BY <1>1, <1>2, <1>10, <1>11, CallingFlows DEF m, n

(* A loop that is open is at most as deep as the innermost one.            *)
LEMMA LastLoop ==
  ASSUME WalkInv, NEW j \in 1..Len(path), path[j].kind = "loop"
  PROVE  loopStack # <<>> /\ path[j].id <= Last(loopStack) /\ Last(loopStack) \in Nat
<1>1. /\ LoopsFollow(path, loopStack) /\ loopStack \in Seq(1..MaxNodes)
  BY DEF WalkInv, Typed, Walk
<1>2. path[j].id \in IdsIn(path, {"loop"})
  BY DEF IdsIn
<1>3. ToSet(loopStack) = {loopStack[i] : i \in 1..Len(loopStack)} /\ Len(loopStack) \in Nat
  BY <1>1, ElementsOf
<1>4. PICK i \in 1..Len(loopStack) : path[j].id = loopStack[i]
  BY <1>1, <1>2, <1>3 DEF LoopsFollow
<1>5. loopStack # <<>>
  BY <1>4
<1>6. Last(loopStack) = loopStack[Len(loopStack)] /\ Last(loopStack) \in 1..MaxNodes
  BY <1>1, <1>5, FrontIs
<1>7. Len(loopStack) \in 1..Len(loopStack) /\ (i = Len(loopStack) \/ i < Len(loopStack))
  BY <1>3, <1>4
<1>8. loopStack[i] \in 1..MaxNodes
  BY <1>1, ElementOfSeq
<1>9. loopStack[i] = loopStack[Len(loopStack)] \/ loopStack[i] < loopStack[Len(loopStack)]
  BY <1>1, <1>4, <1>7 DEF LoopsFollow
<1> QED BY <1>4, <1>5, <1>6, <1>8, <1>9, PairedCallsAssumption

(* A yield takes everything from the stack. A silent function has then     *)
(* lost calls of one platform pair only, which it opened where it is: the  *)
(* executions have lost them too.                                          *)
LEMMA YieldFlows == ASSUME WalkInv, FlowInv, Yield PROVE FlowInv'
<1> DEFINE k == stackIndexCounter
           m == account[Place]
           l == account'[Place]
           n == Len(path)
           s == openerStack
<1>1. /\ InCode /\ path # <<>> /\ openerStack' = {} /\ Calling(k, YieldMarks)
      /\ live' = {[x EXCEPT !.open = {c \in @ : c.opener \notin Roblox}] : x \in live}
      /\ \E c \in s : c.opener \in Roblox
  BY YieldCalls DEF Yield, InCode
<1>2. l = m \cup YieldMarks
  BY <1>1, MarksKnown DEF Calling
<1>3. /\ live \in SUBSET Executions
      /\ \A i \in 1..n : path[i] \in SyntaxNode /\ NodeKnown(path[i], k)
  <2>1. \A i \in 1..n : path[i] \in SyntaxNode /\ NodeKnown(path[i], k)
    BY ElementOfSeq DEF WalkInv, Typed, Walk, CallsKnown
  <2> QED BY <1>1, <2>1, StateKnown, PlaceKnown DEF WalkInv, Typed
<1>4. Around(path, n) \in SUBSET (1..n)
  BY DEF Around
<1> HIDE DEF k, m, l, n, s
<1>5. PlaceInv(path, n, live, s, m)
  BY <1>1, EntersLevel DEF m, n, s
<1>6. ~ Tame(l)
  BY <1>2 DEF Tame, YieldMarks
<1>7. (Silent(l) => Silent(m)) /\ (Silent(l) => Regular(l))
  BY <1>1, <1>2, MarksGrow DEF Calling
<1>8. Regular(l) => ~ Dropped
  BY <1>2 DEF Regular, YieldMarks, If
<1>9. ASSUME Silent(l)
      PROVE  /\ \A c \in s : c.opener \in Roblox /\ ~ Outside(c)
             /\ Kept(path, n, s) /\ \A x \in live : Fits(path, n, x, s)
  BY <1>1, <1>5, <1>7, <1>8, <1>9 DEF Dropped, PlaceInv, s
<1>10. ASSUME Silent(l)
       PROVE  Kept(path, n, openerStack')
  <2> SUFFICES ASSUME NEW j \in Around(path, n), path[j].kind = "loop", NEW c \in path[j].stack
               PROVE  FALSE
    BY DEF Kept
  <2>1. c \in s /\ ~ Outside(c)
    BY <1>9, <1>10 DEF Kept
  <2>2. j \in 1..n /\ path[j] \in SyntaxNode /\ Numbered(path[j].stack, k, path[j].id - 1)
    BY <1>3, <1>4 DEF NodeKnown
  <2>3. loopStack # <<>> /\ path[j].id <= Last(loopStack) /\ Last(loopStack) \in Nat
    BY <2>2, LastLoop DEF n
  <2>4. Last(loopStack) \in c.loops
    BY <2>1, <2>3 DEF Outside
  <2>5. path[j].id \in Nat
    BY <2>2, PairedCallsAssumption DEF SyntaxNode
  <2>6. Last(loopStack) \notin 1..path[j].id - 1
    BY <2>3, <2>5
  <2> QED BY <2>2, <2>4, <2>6 DEF Numbered
<1>11. ASSUME Silent(l), NEW y \in live'
       PROVE  Fits(path, n, y, openerStack')
  <2>1. PICK x \in live : y = [x EXCEPT !.open = {c \in @ : c.opener \notin Roblox}]
    BY <1>1
  <2>2. x \in Executions
    BY <1>3
  <2>3. y.open = {c \in x.open : c.opener \notin Roblox} /\ y.to = x.to
    BY <2>1, <2>2 DEF Executions
  <2>4. Fits(path, n, x, s)
    BY <1>9, <1>11
  <2>5. y.open \subseteq openerStack'
    BY <1>9, <1>11, <2>3, <2>4 DEF Fits
  <2>6. \A t \in Around(path, n) : y.open \cap path[t].stack \subseteq x.open
    BY <2>3
  <2> QED BY <2>3, <2>4, <2>5, <2>6, FitsLess
<1>12. Traced(path, n, openerStack')
  BY <1>1 DEF Traced
<1>13. PlaceInv(path, n, live', openerStack', l)
  BY <1>6, <1>10, <1>11, <1>12 DEF PlaceInv
<1> QED BY <1>1, <1>6, <1>13, CallingFlows DEF k, l, n

(* A closer takes from an execution what it takes from the stack.          *)
LEMMA EndsLatest ==
  ASSUME NEW s, NEW closer, NEW l, l \in Matching(s, closer), \A d \in Matching(s, closer) : d.index <= l.index,
         NEW x
  PROVE  x.open \subseteq s /\ l \in x.open => l \in Ends(x, closer)
  BY DEF Ends, Matching

LEMMA CloseFlows == ASSUME WalkInv, FlowInv, NEW closer, Close(closer) PROVE FlowInv'
<1> DEFINE k == stackIndexCounter
           m == account[Place]
           l == account'[Place]
           n == Len(path)
           s == openerStack
           c == Latest(Matching(s, closer))
<1>1. /\ InCode /\ path # <<>> /\ openerStack' = Closed(s, closer)
      /\ live' = {[x EXCEPT !.open = @ \ Ends(x, closer)] : x \in live}
  BY DEF Close, InCode
<1>2. Calling(k, CloseMarks(closer)) /\ l = m \cup CloseMarks(closer)
  BY <1>1, CloseCalls, MarksKnown DEF Calling
<1>3. /\ s \in SUBSET Calls /\ live \in SUBSET Executions /\ Numbered(s, k, nodes) /\ Sound(live, k) /\ k \in Nat
      /\ \A i \in 1..n : path[i] \in SyntaxNode /\ NodeKnown(path[i], k)
  <2>1. \A i \in 1..n : path[i] \in SyntaxNode /\ NodeKnown(path[i], k)
    BY ElementOfSeq DEF WalkInv, Typed, Walk, CallsKnown
  <2> QED BY <1>1, <2>1, StateKnown, PlaceKnown DEF WalkInv, Typed
<1>4. Around(path, n) \in SUBSET (1..n)
  BY DEF Around
<1> HIDE DEF k, m, l, n
<1>5. Matching(s, closer) \in SUBSET s
  BY DEF Matching
<1>6. ASSUME Matching(s, closer) # {}
      PROVE  c \in Matching(s, closer) /\ \A d \in Matching(s, closer) : d.index <= c.index
  <2>1. Matching(s, closer) \in SUBSET Calls /\ \A d \in Matching(s, closer) : d.index < k
    BY <1>3, <1>5 DEF Numbered
  <2> QED BY <1>3, <1>6, <2>1, LatestIs
<1> HIDE DEF c
<1>7. openerStack' = (IF Matching(s, closer) = {} THEN s ELSE s \ {c})
  BY <1>1 DEF Closed, c
<1> HIDE DEF s
<1>8. PlaceInv(path, n, live, s, m) /\ (Tame(m) => Level(live, s))
  BY <1>1, EntersLevel DEF m, n, s
<1>9. (Silent(l) => Silent(m)) /\ (Tame(l) => Tame(m)) /\ (Silent(l) => Regular(l))
  BY <1>2, MarksGrow
<1>10. ASSUME NEW x \in Executions
       PROVE  /\ [x EXCEPT !.open = @ \ Ends(x, closer)].open = x.open \ Ends(x, closer)
              /\ [x EXCEPT !.open = @ \ Ends(x, closer)].to = x.to
  BY DEF Executions
<1>11. \A y \in live' : \E x \in live : y.open = x.open \ Ends(x, closer) /\ y.to = x.to
  <2> SUFFICES ASSUME NEW y \in live' PROVE \E x \in live : y.open = x.open \ Ends(x, closer) /\ y.to = x.to
    OBVIOUS
  <2>1. PICK x \in live : y = [x EXCEPT !.open = @ \ Ends(x, closer)]
    BY <1>1
  <2>2. x \in Executions
    BY <1>3
  <2> QED BY <2>1, <2>2, <1>10
<1>12. \A x \in live : \E y \in live' : y.open = x.open \ Ends(x, closer)
  <2> SUFFICES ASSUME NEW x \in live PROVE \E y \in live' : y.open = x.open \ Ends(x, closer)
    OBVIOUS
  <2>1. [x EXCEPT !.open = @ \ Ends(x, closer)] \in live'
    BY <1>1
  <2>2. x \in Executions
    BY <1>3
  <2> QED BY <2>1, <2>2, <1>10
<1>13. Regular(l) /\ Matching(s, closer) # {} => ~ Outside(c)
  BY <1>2 DEF Regular, CloseMarks, If, c, s
<1>14. ASSUME Silent(l)
       PROVE  Kept(path, n, openerStack')
  <2>1. Kept(path, n, s)
    BY <1>8, <1>9, <1>14 DEF PlaceInv
  <2>2. ASSUME Matching(s, closer) # {}, NEW j \in Around(path, n), path[j].kind = "loop"
        PROVE  c \notin path[j].stack
    <3>1. j \in 1..n /\ path[j] \in SyntaxNode /\ Numbered(path[j].stack, k, path[j].id - 1)
      BY <1>3, <1>4 DEF NodeKnown
    <3>2. loopStack # <<>> /\ path[j].id <= Last(loopStack) /\ Last(loopStack) \in Nat
      BY <2>2, <3>1, LastLoop DEF n
    <3>3. Last(loopStack) \in c.loops
      BY <1>9, <1>13, <1>14, <2>2, <3>2 DEF Outside
    <3>4. path[j].id \in Nat
      BY <3>1, PairedCallsAssumption DEF SyntaxNode
    <3>5. Last(loopStack) \notin 1..path[j].id - 1
      BY <3>2, <3>4
    <3> QED BY <3>1, <3>3, <3>5 DEF Numbered
  <2> QED BY <1>7, <2>1, <2>2 DEF Kept
<1>15. ASSUME NEW x \in live, x.open \subseteq s
       PROVE  x.open \ Ends(x, closer) \subseteq openerStack'
  <2>1. CASE Matching(s, closer) = {}
    BY <1>7, <1>15, <2>1
  <2>2. CASE Matching(s, closer) # {}
    BY <1>6, <1>7, <1>15, <2>2, EndsLatest
  <2> QED BY <2>1, <2>2
<1>16. PlaceInv(path, n, live', openerStack', l)
  <2>1. Traced(path, n, openerStack')
    BY <1>7, <1>8 DEF PlaceInv, Traced
  <2>2. ASSUME Silent(l), NEW y \in live'
        PROVE  Fits(path, n, y, openerStack')
    <3>1. PICK x \in live : y.open = x.open \ Ends(x, closer) /\ y.to = x.to
      BY <1>11
    <3>2. Fits(path, n, x, s)
      BY <1>8, <1>9, <2>2 DEF PlaceInv
    <3>3. y.open \subseteq openerStack'
      BY <1>15, <3>1, <3>2 DEF Fits
    <3>4. \A t \in Around(path, n) : y.open \cap path[t].stack \subseteq x.open
      BY <3>1
    <3> QED BY <3>1, <3>2, <3>3, <3>4, FitsLess
  <2>3. Tame(l) => Stay(live')
    BY <1>8, <1>9, <1>11 DEF PlaceInv, Stay
  <2> QED BY <1>14, <2>1, <2>2, <2>3 DEF PlaceInv
<1>17. ASSUME Tame(l)
       PROVE  Level(live', openerStack')
  <2>1. Level(live, s) /\ \A x \in live : Ends(x, closer) # {}
    BY <1>2, <1>8, <1>9, <1>17 DEF Tame, CloseMarks, If
  <2>2. PICK y \in live : y.open \subseteq s
    BY <2>1 DEF Level, Under
  <2>3. Matching(s, closer) # {}
    BY <2>1, <2>2 DEF Ends, Matching
  <2>4. PICK x \in live : s \subseteq x.open
    BY <2>1 DEF Level, Over
  <2>5. s \ {c} \subseteq x.open \ Ends(x, closer)
    <3>1. ASSUME NEW e \in Ends(x, closer), e \in s
          PROVE  e = c
      <4>1. e \in Matching(s, closer) /\ e \in x.open /\ c \in x.open /\ c \in Matching(x.open, closer)
        BY <1>6, <2>3, <2>4, <3>1 DEF Ends, Matching
      <4>2. e.index <= c.index /\ c.index <= e.index
        BY <1>6, <2>3, <4>1, <3>1 DEF Ends
      <4>3. e \in Calls /\ c \in Calls
        BY <1>3, <4>1 DEF Executions
      <4>4. e.index \in Nat /\ c.index \in Nat
        BY <4>3, PairedCallsAssumption DEF Calls
      <4>5. e.index = c.index
        BY <4>2, <4>4
      <4> QED BY <1>3, <4>1, <4>5 DEF Sound
    <3> QED BY <2>4, <3>1
  <2>6. Over(live', openerStack')
    BY <1>7, <1>12, <2>3, <2>5 DEF Over
  <2>7. Under(live', openerStack')
    BY <1>12, <1>15, <2>2 DEF Under
  <2> QED BY <2>6, <2>7 DEF Level
<1> QED BY <1>1, <1>2, <1>16, <1>17, CallingFlows DEF l, n
-----------------------------------------------------------------------------
(* The steps from one part of a node to the next.                          *)
LEMMA SavedKnown ==
  ASSUME WalkInv, FlowInv, path # <<>>, Top.kind # "function"
  PROVE  /\ Len(path) - 1 \in 1..Len(path) /\ Len(path) \in Nat /\ Len(path) > 1 /\ Len(path) - 1 \in Nat \ {0}
         /\ path[Len(path) - 1].depth = Place /\ path[Len(path)].depth = Place
         /\ SavedInv(path, Len(path) - 1, Top, BranchesAt(branchStacks, path[Len(path) - 1].id), account[Place])
         /\ PlaceInv(path, Len(path) - 1, Top.saved, Top.stack, account[Place])
         /\ PlaceInv(path, Len(path), Top.saved, Top.stack, account[Place])
         /\ Tame(account[Place]) => Level(Top.saved, Top.stack)
<1>1. /\ Len(path) \in 1..Len(path) /\ Len(path) \in Nat \ {0} /\ path[Len(path)].depth = Place /\ Top = path[Len(path)]
      /\ NodePlace(path, Len(path))
  BY PlaceKnown DEF Top
<1> DEFINE n == Len(path)
<1>2. n > 1 /\ path[n].depth = path[n - 1].depth
  BY <1>1 DEF NodePlace
<1>3. n - 1 \in 1..n /\ n - 1 \in Nat \ {0} /\ n \in 1..n /\ n = (n - 1) + 1
  BY <1>1, <1>2
<1> HIDE DEF n
<1>4. SavedInv(path, n - 1, Top, BranchesAt(branchStacks, path[n - 1].id), account[Place])
  BY <1>1, <1>2, <1>3 DEF FlowInv, SavedFlow, n
<1>5. PlaceInv(path, n - 1, Top.saved, Top.stack, account[Place]) /\ (Tame(account[Place]) => Level(Top.saved, Top.stack))
  BY <1>4 DEF SavedInv
<1>6. n \in Nat
  BY <1>1 DEF n
<1>7. path[n].kind = "loop" => Top.stack = path[n].stack
  BY <1>1 DEF n
<1>8. PlaceInv(path, n, Top.saved, Top.stack, account[Place])
  BY <1>2, <1>5, <1>6, <1>7, PlaceDeeper
<1> QED BY <1>1, <1>2, <1>3, <1>4, <1>5, <1>8 DEF n

Turns(r, ms) ==
  /\ path # <<>> /\ Top.part # "finally" /\ r \in SyntaxNode /\ Alike(Top, r) /\ TopBecomes(r) /\ Marked(ms)
  /\ \A id : id # Top.id => BranchesAt(branchStacks', id) = BranchesAt(branchStacks, id)
LEMMA TurnsNear ==
  ASSUME WalkInv, NEW r, NEW ms, Turns(r, ms)
  PROVE  /\ Near(path, path', Len(path)) /\ Len(path) \in 1..Len(path) /\ Len(path') = Len(path)
         /\ path'[Len(path)] = r /\ path[Len(path)] = Top /\ path[Len(path)].depth = Place
         /\ \A i \in 1..Len(path) : i < Len(path) => path'[i] = path[i]
         /\ account'[Place] = account[Place] \cup ms /\ account[Place] \subseteq account'[Place]
<1>1. /\ path # <<>> /\ Top.part # "finally" /\ Follows(path, path') /\ path'[Len(path)] = r /\ Len(path') = Len(path)
      /\ \A i \in 1..Len(path) : i < Len(path) => path'[i] = path[i]
  BY TopTurns DEF Turns
<1>2. Len(path) \in Nat \ {0} /\ Len(path) \in 1..Len(path) /\ path[Len(path)] = Top /\ path[Len(path)].depth = Place
  BY <1>1, PlaceKnown DEF Top
<1>3. ASSUME NEW j \in 1..Len(path)
      PROVE  Alike(path[j], path'[j]) /\ (path[j].part = "finally" => path'[j].part = "finally")
  <2>1. j = Len(path) \/ j < Len(path)
    BY <1>2
  <2> QED BY <2>1, <1>1, <1>2 DEF Follows
<1> QED BY <1>1, <1>2, <1>3, MarksKnown DEF Near, Turns
LEMMA TurnedFlows ==
  ASSUME WalkInv, FlowInv, NEW r, NEW ms, Turns(r, ms),
         NodeInv(path', Len(path), BranchesAt(branchStacks', Top.id), account'[Place]),
         PlaceInv(path', Len(path), live', openerStack', account'[Place]),
         TopInv(r, BranchesAt(branchStacks', Top.id), live', openerStack', account'[Place])
  PROVE  FlowInv'
<1> DEFINE n == Len(path)
<1>1. /\ Len(path') = n /\ path'[n] = r /\ path[n] = Top /\ path[n].depth = Place /\ n \in 1..n
      /\ \A i \in 1..n : i < n => path'[i] = path[i]
  BY TurnsNear
<1>2. /\ path # <<>> /\ r.id = Top.id /\ r.depth = Top.depth /\ Alike(path[n], path'[n]) /\ n \in Nat \ {0}
      /\ \A id : id # Top.id => BranchesAt(branchStacks', id) = BranchesAt(branchStacks, id)
  BY <1>1, PlaceKnown DEF Turns, Alike
<1>3. /\ NodesFlow(path, branchStacks, account) /\ SavedFlow(path, branchStacks, account)
      /\ \A i \in 1..n : account[path[i].depth] \subseteq account'[path[i].depth]
  BY <1>2, FlowKnown, MarksKnown DEF Turns
<1> HIDE DEF n
<1>4. n \in Nat
  BY <1>2
<1>5. ASSUME NEW i \in 1..n - 1
      PROVE  /\ Same(path[i], path'[i]) /\ account[path[i].depth] \subseteq account'[path[i].depth]
             /\ BranchesAt(branchStacks', path[i].id) = BranchesAt(branchStacks, path[i].id)
  <2>1. i \in 1..n /\ i < n
    BY <1>4
  <2>2. path[i].id # path[n].id
    <3>1. path \in Seq(SyntaxNode) /\ Syntax(path, Place, nodes) /\ n \in 1..Len(path) /\ i \in 1..Len(path) /\ i # n
      BY <1>1, <1>4, <2>1 DEF WalkInv, Walk, Typed, n
    <3> QED BY <3>1, IdsDiffer
  <2>3. path'[i] = path[i]
    BY <1>1, <2>1
  <2>4. Same(path[i], path'[i])
    BY <2>3 DEF Same, Alike, SamePart, SameOut
  <2>5. BranchesAt(branchStacks', path[i].id) = BranchesAt(branchStacks, path[i].id)
    BY <1>1, <1>2, <2>2
  <2> QED BY <2>1, <2>4, <2>5, <1>3
<1>6. Alongside(path, path', n - 1, branchStacks, branchStacks', account, account')
  <2>1. n - 1 \in Nat /\ n - 1 <= Len(path) /\ Len(path) \in Nat
    BY <1>2 DEF n
  <2> QED BY <2>1, <1>5 DEF Alongside
<1>7. FlowTop(path', branchStacks', account', live', openerStack')
  BY <1>1, <1>2 DEF FlowTop, n
<1>8. NodeInv(path', Len(path'), BranchesAt(branchStacks', path'[Len(path')].id), account'[path'[Len(path')].depth])
  BY <1>1, <1>2 DEF n
<1>9. /\ NodesFlow(path', branchStacks', account') /\ SavedFlow(path', branchStacks', account')
      /\ TopFlow(path', branchStacks', account', live', openerStack')
  BY <1>1, <1>2, <1>3, <1>6, <1>7, <1>8, FlowTurn DEF n
<1> QED BY <1>9 DEF FlowInv
LEMMA RecordedBranches ==
  ASSUME WalkInv, path # <<>>, Top.kind \in Branching, RecordAndRestore(Top.id)
  PROVE  /\ openerStack' = Top.stack
         /\ \A id : id # Top.id => BranchesAt(branchStacks', id) = BranchesAt(branchStacks, id)
         /\ BranchesAt(branchStacks', Top.id) = Append(BranchesAt(branchStacks, Top.id), openerStack)
         /\ Len(BranchesAt(branchStacks, Top.id)) \in Nat
         /\ Len(BranchesAt(branchStacks', Top.id)) = Len(BranchesAt(branchStacks, Top.id)) + 1
         /\ \A b \in 1..Len(BranchesAt(branchStacks, Top.id)) :
              BranchesAt(branchStacks', Top.id)[b] = BranchesAt(branchStacks, Top.id)[b]
         /\ BranchesAt(branchStacks', Top.id)[Len(BranchesAt(branchStacks, Top.id)) + 1] = openerStack
<1>1. /\ Branches(Top.id) = BranchesAt(branchStacks, Top.id) /\ Branches(Top.id) \in Seq(SUBSET Calls)
      /\ Recorded(Top.id) = Append(Branches(Top.id), openerStack) /\ stackSnapshots[Top.id] = Top.stack
  BY OriginalIs
<1>2. openerStack \in SUBSET Calls
  BY DEF WalkInv, Typed
<1>3. branchStacks' = With(branchStacks, Top.id, Recorded(Top.id)) /\ openerStack' = Top.stack
  BY <1>1 DEF RecordAndRestore
<1>4. /\ BranchesAt(branchStacks', Top.id) = Append(BranchesAt(branchStacks, Top.id), openerStack)
      /\ \A id : id # Top.id => BranchesAt(branchStacks', id) = BranchesAt(branchStacks, id)
  <2> DEFINE value == Recorded(Top.id)
             map == With(branchStacks, Top.id, value)
  <2>1. BranchesAt(map, Top.id) = value /\ \A id : id # Top.id => BranchesAt(map, id) = BranchesAt(branchStacks, id)
    BY BranchesAtMore
  <2>2. branchStacks' = map /\ value = Append(BranchesAt(branchStacks, Top.id), openerStack)
    BY <1>1, <1>3
  <2> QED BY <2>1, <2>2
<1>5. BranchesAt(branchStacks, Top.id) \in Seq(SUBSET Calls)
  BY <1>1
<1> DEFINE bs == BranchesAt(branchStacks, Top.id)
<1>6. /\ Len(bs) \in Nat /\ Len(Append(bs, openerStack)) = Len(bs) + 1
      /\ \A b \in 1..Len(bs) : Append(bs, openerStack)[b] = bs[b]
      /\ Append(bs, openerStack)[Len(bs) + 1] = openerStack
  BY <1>2, <1>5, AppendIs
<1> QED BY <1>3, <1>4, <1>6

LEMMA ElseFlows == ASSUME WalkInv, FlowInv, Else PROVE FlowInv'
<1> DEFINE r == [Top EXCEPT !.part = "else", !.out = @ \cup live]
           n == Len(path)
           m == account[Place]
           s == openerStack
           bs == BranchesAt(branchStacks', Top.id)
<1>1. /\ path # <<>> /\ Top.kind = "if" /\ Top.part = "then" /\ TopBecomes(r) /\ live' = Top.saved
      /\ RecordAndRestore(Top.id) /\ Unmarked
  BY DEF Else
<1>2. r = Turn(Top, "else", live)
  BY Zenon DEF Turn
<1> HIDE DEF r
<1>3. /\ r \in SyntaxNode /\ Alike(Top, r) /\ r.part = "else" /\ r.out = Top.out \cup live /\ r.thrown = Top.thrown
  <2>1. Top \in SyntaxNode /\ live \in SUBSET Executions /\ "else" \in Parts
    BY <1>1, PlaceKnown, TopKnown DEF Parts
  <2> QED BY <2>1, <1>2, PartChanged
<1>4. /\ openerStack' = Top.stack /\ Len(BranchesAt(branchStacks, Top.id)) = 0 /\ Len(bs) = 1 /\ bs[1] = s
      /\ \A id : id # Top.id => BranchesAt(branchStacks', id) = BranchesAt(branchStacks, id)
  <2>1. Top.kind \in Branching
    BY <1>1 DEF Branching
  <2>2. Len(BranchesAt(branchStacks, Top.id)) = 0
    BY <1>1, <2>1, OriginalIs DEF BranchCount
  <2> QED BY <1>1, <2>1, <2>2, RecordedBranches
<1>5. Turns(r, {})
  <2>1. Marked({})
    BY <1>1, Marking
  <2>2. Top.part # "finally"
    BY <1>1
  <2> QED BY <1>1, <1>3, <1>4, <2>1, <2>2 DEF Turns
<1>6. /\ Near(path, path', n) /\ path'[n] = r /\ path[n] = Top /\ n \in 1..n /\ account'[Place] = m
  <2> DEFINE ms == {}
  <2>1. Turns(r, ms)
    BY <1>5
  <2> HIDE DEF ms
  <2>2. /\ Near(path, path', n) /\ path'[n] = r /\ path[n] = Top /\ n \in 1..n /\ account'[Place] = m \cup ms
    BY <2>1, TurnsNear
  <2> QED BY <2>2 DEF ms
<1>7. PlaceInv(path, n, live, s, m) /\ NodeInv(path, n, BranchesAt(branchStacks, Top.id), m) /\ (Tame(m) => Level(live, s))
  BY <1>1, FlowKnown DEF TopInv
<1>8. PlaceInv(path, n, Top.saved, Top.stack, m) /\ (Tame(m) => Level(Top.saved, Top.stack))
  BY <1>1, SavedKnown
<1>9. r.kind = "if" /\ path'[n].kind = "if"
  BY <1>1, <1>3, <1>6 DEF Alike
<1> HIDE DEF n, m, s, bs
<1>10. PlaceInv(path', n, live, s, m) /\ PlaceInv(path', n, Top.saved, Top.stack, m)
  BY <1>6, <1>7, <1>8, PlaceNear
<1>11. NodeInv(path', n, bs, m)
  <2>1. Level(live, s) => Level(r.out, s)
    BY <1>3, LevelMore
  <2>2. BranchInv(path', n, s, m)
    BY <2>1, <1>3, <1>6, <1>7, <1>9, <1>10 DEF BranchInv, PlaceInv
  <2>3. ASSUME Silent(m)
        PROVE  OutFits(path', n, bs)
    <3>1. Top.out = {}
      BY <2>3, <1>1, <1>6, <1>7 DEF NodeInv, OutFits, OutFit
    <3>2. \A x \in r.out : Fits(path', n, x, bs[1])
      BY <2>3, <3>1, <1>3, <1>4, <1>10 DEF PlaceInv
    <3> QED BY <3>2, <1>3, <1>6, <1>9 DEF OutFits, OutFit, ThrownFit
  <2>4. Tame(m) => OutStays(r)
    BY <1>3, <1>6, <1>7 DEF NodeInv, OutStays, PlaceInv, Stay
  <2>5. \A b \in 1..Len(bs) : BranchInv(path', n, bs[b], m)
    BY <2>2, <1>4
  <2> QED BY <2>3, <2>4, <2>5, <1>6 DEF NodeInv
<1>12. TopInv(r, bs, Top.saved, Top.stack, m)
  BY <1>3, <1>8, <1>9 DEF TopInv
<1> QED BY <1>1, <1>4, <1>5, <1>6, <1>10, <1>11, <1>12, TurnedFlows DEF n, bs

LEMMA BeginCaseFlows == ASSUME WalkInv, FlowInv, NEW default \in BOOLEAN, BeginCase(default) PROVE FlowInv'
<1> DEFINE r == [Top EXCEPT !.part = "case", !.cases = @ + 1, !.default = @ \/ default]
           ms == If(live # {}, "beyond")
           n == Len(path)
           m == account[Place]
           l == account'[Place]
           s == openerStack
           bs == BranchesAt(branchStacks, Top.id)
<1>1. /\ path # <<>> /\ Top.part = "between" /\ TopBecomes(r) /\ live' = Top.saved \cup live /\ Mark(ms)
      /\ openerStack' = s /\ branchStacks' = branchStacks
  BY DEF BeginCase, stacks, maps
<1>2. NodeShape(Top) /\ Top = path[n] /\ Top \in SyntaxNode /\ n \in 1..n
  BY <1>1, PlaceKnown DEF Top
<1>3. Top.kind = "switch"
  BY <1>1, <1>2 DEF NodeShape, PartsOf
<1>4. r \in SyntaxNode /\ Alike(Top, r) /\ r.part = "case" /\ r.out = Top.out /\ r.thrown = Top.thrown
  <2>1. Top.cases \in Nat /\ Top.default \in BOOLEAN /\ (Top.default \/ default) \in BOOLEAN /\ Top.cases + 1 \in Nat
    BY <1>2 DEF SyntaxNode
  <2> DEFINE c == Top.cases + 1
             d == Top.default \/ default
  <2>2. c \in Nat /\ d \in BOOLEAN /\ r = [Top EXCEPT !.part = "case", !.cases = c, !.default = d]
    BY <1>2, <2>1 DEF SyntaxNode
  <2> HIDE DEF c, d, r
  <2> QED BY <2>2, <1>2 DEF SyntaxNode, Alike, Parts
<1>5. ms \in SUBSET Unleaked
  BY DEF If, Unleaked, Marks
<1>6. "beyond" \notin ms => live = {}
  BY DEF If
<1> HIDE DEF r, ms
<1>7. Turns(r, ms)
  <2>1. Marked(ms)
    BY <1>1, <1>5, Marking
  <2>2. Top.part # "finally"
    BY <1>1
  <2> QED BY <1>1, <1>4, <2>1, <2>2 DEF Turns
<1>8. Near(path, path', n) /\ path'[n] = r /\ l = m \cup ms /\ m \subseteq l
  BY <1>7, TurnsNear
<1>9. /\ PlaceInv(path, n, live, s, m) /\ NodeInv(path, n, bs, m) /\ TopInv(Top, bs, live, s, m)
      /\ PlaceInv(path, n, Top.saved, Top.stack, m) /\ (Tame(m) => Level(Top.saved, Top.stack))
  BY <1>1, <1>3, FlowKnown, SavedKnown
<1>10. s = Top.stack
  BY <1>1, <1>2 DEF WalkInv, Walk, StacksFollow
<1>11. r.kind = "switch" /\ r.stack = Top.stack
  BY <1>3, <1>4 DEF Alike
<1>12. (Silent(l) => Silent(m)) /\ (Tame(l) => Tame(m) /\ live = {}) /\ (Regular(l) => Regular(m))
  <2>1. Tame(l) => live = {}
    BY <1>6, <1>8 DEF Tame
  <2> QED BY <2>1, <1>8, MarksGrow
<1> HIDE DEF n, m, l, s, bs
<1>13. PlaceInv(path', n, live', s, l)
  <2>1. PlaceInv(path, n, Top.saved \cup live, s, m)
    BY <1>9, <1>10, PlaceTogether
  <2> QED BY <2>1, <1>1, <1>8, PlaceNear
<1>14. NodeInv(path', n, bs, l)
  <2>1. ASSUME NEW b \in 1..Len(bs)
        PROVE  BranchInv(path', n, bs[b], l)
    <3>1. BranchInv(path, n, bs[b], m)
      BY <1>9 DEF NodeInv
    <3>2. Tame(l) => Level(r.out, bs[b])
      <4>1. Tame(l) => Level(Top.out \cup live, bs[b])
        BY <1>1, <1>9, <1>12 DEF TopInv
      <4>2. Tame(l) => Top.out \cup live = r.out
        BY <1>4, <1>12
      <4> QED BY <4>1, <4>2
    <3>3. (Traced(path, n, bs[b]) => Traced(path', n, bs[b])) /\ (Kept(path, n, bs[b]) => Kept(path', n, bs[b]))
      BY <1>8, TracedNear
    <3> QED BY <3>1, <3>2, <3>3, <1>2, <1>3, <1>8, <1>11, <1>12 DEF BranchInv
  <2>2. Silent(l) => OutFits(path', n, bs)
    BY <1>2, <1>3, <1>4, <1>8, <1>9, <1>11, <1>12 DEF NodeInv, OutFits, OutFit, ThrownFit
  <2>3. Tame(l) => OutStays(r)
    BY <1>2, <1>4, <1>9, <1>12 DEF NodeInv, OutStays
  <2> QED BY <2>1, <2>2, <2>3, <1>8 DEF NodeInv
<1>15. TopInv(r, bs, live', s, l)
  <2>1. Tame(l) => Level(live', s)
    BY <1>1, <1>9, <1>10, <1>12, LevelMore
  <2>2. Silent(l) => \A x \in r.out : InBranch(x, bs)
    BY <1>1, <1>3, <1>4, <1>9, <1>12 DEF TopInv
  <2> QED BY <2>1, <2>2, <1>4 DEF TopInv
<1> QED BY <1>1, <1>7, <1>13, <1>14, <1>15, TurnedFlows DEF n, l, s, bs

LEMMA EndCaseFlows == ASSUME WalkInv, FlowInv, EndCase PROVE FlowInv'
<1> DEFINE r == [Top EXCEPT !.part = "between"]
           ms == If(NewIn(openerStack, stackSnapshots[Top.id]), "irregular")
           n == Len(path)
           m == account[Place]
           l == account'[Place]
           s == openerStack
           old == BranchesAt(branchStacks, Top.id)
           bs == BranchesAt(branchStacks', Top.id)
<1>1. /\ path # <<>> /\ Top.part = "case" /\ TopBecomes(r) /\ RecordAndRestore(Top.id) /\ Mark(ms) /\ live' = live
  BY DEF EndCase
<1>2. NodeShape(Top) /\ Top = path[n] /\ Top \in SyntaxNode /\ n \in 1..n
  BY <1>1, PlaceKnown DEF Top
<1>3. Top.kind = "switch" /\ Top.kind \in Branching
  BY <1>1, <1>2 DEF NodeShape, PartsOf, Branching
<1>4. r \in SyntaxNode /\ Alike(Top, r) /\ r.part = "between" /\ r.out = Top.out /\ r.thrown = Top.thrown
  BY <1>2 DEF SyntaxNode, Alike, Parts
<1>5. ms \in SUBSET Unleaked
  BY DEF If, Unleaked, Marks
<1>6. "irregular" \notin ms => s \subseteq Top.stack
  BY <1>1, <1>3, OriginalIs DEF If, NewIn
<1>7. /\ openerStack' = Top.stack /\ \A id : id # Top.id => BranchesAt(branchStacks', id) = BranchesAt(branchStacks, id)
      /\ Len(old) \in Nat /\ Len(bs) = Len(old) + 1 /\ bs[Len(old) + 1] = s
      /\ \A b \in 1..Len(old) : bs[b] = old[b]
  BY <1>1, <1>3, RecordedBranches
<1> HIDE DEF r, ms
<1>8. Turns(r, ms)
  <2>1. Marked(ms)
    BY <1>1, <1>5, Marking
  <2>2. Top.part # "finally"
    BY <1>1
  <2> QED BY <1>1, <1>4, <1>7, <2>1, <2>2 DEF Turns
<1>9. Near(path, path', n) /\ path'[n] = r /\ l = m \cup ms /\ m \subseteq l
  BY <1>8, TurnsNear
<1>10. /\ PlaceInv(path, n, live, s, m) /\ NodeInv(path, n, old, m) /\ TopInv(Top, old, live, s, m)
       /\ PlaceInv(path, n, Top.saved, Top.stack, m)
  BY <1>1, <1>3, FlowKnown, SavedKnown
<1>11. r.kind = "switch" /\ r.stack = Top.stack
  BY <1>3, <1>4 DEF Alike
<1>12. (Silent(l) => Silent(m) /\ s \subseteq Top.stack) /\ (Tame(l) => Tame(m)) /\ (Regular(l) => Regular(m) /\ s \subseteq Top.stack)
  <2>1. Regular(l) => s \subseteq Top.stack
    BY <1>6, <1>9 DEF Regular
  <2> QED BY <2>1, <1>9, MarksGrow
<1> HIDE DEF n, m, l, s, bs, old
<1>13. ASSUME NEW b \in 1..Len(bs)
       PROVE  (b \in 1..Len(old) /\ bs[b] = old[b]) \/ bs[b] = s
  <2>1. b \in 1..Len(old) \/ b = Len(old) + 1
    BY <1>7
  <2> QED BY <2>1, <1>7
<1>17. 1..Len(old) \subseteq 1..Len(bs) /\ Len(old) + 1 \in 1..Len(bs)
  BY <1>7
<1>18. ASSUME NEW x
       PROVE  (InBranch(x, old) => InBranch(x, bs)) /\ (x.open \subseteq s => InBranch(x, bs))
  BY <1>7, <1>17 DEF InBranch
<1>19. PlaceInv(path', n, Top.saved, Top.stack, l) /\ PlaceInv(path', n, live, s, l)
  BY <1>9, <1>10, PlaceNear
<1>14. PlaceInv(path', n, live, Top.stack, l)
  <2>1. ASSUME Silent(l), NEW x \in live
        PROVE  Fits(path', n, x, Top.stack)
    BY <2>1, <1>12, <1>19 DEF PlaceInv, Fits
  <2> QED BY <2>1, <1>19 DEF PlaceInv
<1>15. NodeInv(path', n, bs, l)
  <2>1. ASSUME NEW b \in 1..Len(bs)
        PROVE  BranchInv(path', n, bs[b], l)
    <3>1. CASE b \in 1..Len(old) /\ bs[b] = old[b]
      <4>1. BranchInv(path, n, old[b], m)
        BY <1>10, <3>1 DEF NodeInv
      <4>2. (Traced(path, n, bs[b]) => Traced(path', n, bs[b])) /\ (Kept(path, n, bs[b]) => Kept(path', n, bs[b]))
        BY <1>9, TracedNear
      <4> QED BY <3>1, <4>1, <4>2, <1>2, <1>3, <1>4, <1>9, <1>11, <1>12 DEF BranchInv
    <3>2. CASE bs[b] = s
      BY <3>2, <1>4, <1>9, <1>11, <1>12, <1>19 DEF BranchInv, PlaceInv
    <3> QED BY <3>1, <3>2, <1>13
  <2>2. Silent(l) => OutFits(path', n, bs)
    BY <1>2, <1>3, <1>4, <1>9, <1>10, <1>11, <1>12 DEF NodeInv, OutFits, OutFit, ThrownFit
  <2>3. Tame(l) => OutStays(r)
    BY <1>2, <1>4, <1>10, <1>12 DEF NodeInv, OutStays
  <2> QED BY <2>1, <2>2, <2>3, <1>9 DEF NodeInv
<1>16. TopInv(r, bs, live, Top.stack, l)
  <2>1. ASSUME Silent(l)
        PROVE  (\A x \in r.out : InBranch(x, bs)) /\ (\A x \in live : InBranch(x, bs))
    BY <2>1, <1>1, <1>3, <1>4, <1>10, <1>12, <1>18 DEF TopInv, PlaceInv, Fits
  <2>2. ASSUME Tame(l), NEW b \in 1..Len(bs)
        PROVE  Level(r.out \cup live, bs[b])
    <3>1. CASE b \in 1..Len(old) /\ bs[b] = old[b]
      <4>1. BranchInv(path, n, old[b], m)
        BY <1>10, <3>1 DEF NodeInv
      <4>2. Level(Top.out, bs[b])
        BY <4>1, <3>1, <2>2, <1>1, <1>2, <1>12 DEF BranchInv
      <4> QED BY <4>2, <1>4, LevelMore
    <3>2. CASE bs[b] = s
      <4>1. Level(live, s) \/ Level(Top.out, s)
        BY <2>2, <1>1, <1>10, <1>12 DEF TopInv
      <4> QED BY <4>1, <3>2, <1>4, LevelMore
    <3> QED BY <3>1, <3>2, <1>13
  <2> QED BY <2>1, <2>2, <1>4 DEF TopInv
<1> QED BY <1>1, <1>7, <1>8, <1>14, <1>15, <1>16, TurnedFlows DEF n, l, bs

(* No finally block is around a try statement, before its own.             *)
LEMMA NoFinallyAround ==
  ASSUME WalkInv, path # <<>>, Top.kind = "try", NEW t \in Around(path, Len(path)), path[t].part = "finally"
  PROVE  t = Len(path)
<1>1. /\ Len(path) \in 1..Len(path) /\ Len(path) \in Nat /\ Top = path[Len(path)] /\ t \in 1..Len(path)
      /\ path[t].depth = path[Len(path)].depth
  BY PlaceKnown DEF Top, Around
<1>2. t < Len(path) => Before(path[t], path[Len(path)])
  BY <1>1 DEF WalkInv, Walk, Syntax
<1> QED BY <1>1, <1>2 DEF Before

LEMMA NextPartFlows == ASSUME WalkInv, FlowInv, NextPart PROVE FlowInv'
<1> DEFINE part == IF Top.part = "block" /\ Top.catch THEN "catch" ELSE "finally"
           original == stackSnapshots[Top.id]
           branches == Recorded(Top.id)
           r == [Top EXCEPT !.part = part, !.out = @ \cup live]
           ms == If(NewIn(openerStack, original), "irregular")
                   \cup If(/\ part = "finally"
                           /\ \E b \in DOMAIN branches : NewIn(original, branches[b]), "beyond")
           n == Len(path)
           m == account[Place]
           l == account'[Place]
           s == openerStack
           old == BranchesAt(branchStacks, Top.id)
           bs == BranchesAt(branchStacks', Top.id)
<1>1. /\ path # <<>> /\ Top.kind = "try" /\ (Top.part = "block" \/ (Top.part = "catch" /\ Top.finally))
      /\ TopBecomes(r) /\ live' = (IF part = "catch" THEN Top.thrown ELSE Top.out \cup live)
      /\ Mark(ms) /\ RecordAndRestore(Top.id)
  BY DEF NextPart
<1>2. part \in Parts /\ part \in {"catch", "finally"} /\ (part = "catch" => Top.part = "block" /\ Top.catch)
  BY <1>1 DEF Parts
<1>3. Top = path[n] /\ Top \in SyntaxNode /\ Top.kind \in Branching /\ n \in 1..n
  BY <1>1, PlaceKnown DEF Top, Branching
<1>4. ms \in SUBSET Unleaked
  BY DEF If, Unleaked, Marks
<1>5. original = Top.stack /\ branches \in Seq(SUBSET Calls) /\ branches = bs
      /\ (Top.part = "block" => Len(old) = 0)
  <2>1. /\ original = Top.stack /\ branches \in Seq(SUBSET Calls) /\ branches = Append(old, openerStack)
        /\ BranchCount(Top, Len(old))
    BY <1>1, <1>3, OriginalIs
  <2> QED BY <2>1, <1>1, <1>3, RecordedBranches DEF BranchCount
<1>6. DOMAIN branches = 1..Len(branches)
  BY <1>5, LenProperties
<1>7. /\ "irregular" \notin ms => s \subseteq Top.stack
      /\ "beyond" \notin ms /\ part = "finally" => \A b \in 1..Len(bs) : Top.stack \subseteq bs[b]
  BY <1>5, <1>6 DEF If, NewIn
<1>8. /\ openerStack' = Top.stack /\ \A id : id # Top.id => BranchesAt(branchStacks', id) = BranchesAt(branchStacks, id)
      /\ Len(old) \in Nat /\ Len(bs) = Len(old) + 1 /\ bs[Len(old) + 1] = s
      /\ \A b \in 1..Len(old) : bs[b] = old[b]
  BY <1>1, <1>3, RecordedBranches
<1> HIDE DEF ms, part, branches, original
<1>9. r = Turn(Top, part, live)
  BY Zenon DEF Turn
<1> HIDE DEF r
<1>10. r \in SyntaxNode /\ Alike(Top, r) /\ r.part = part /\ r.out = Top.out \cup live /\ r.thrown = Top.thrown
  BY <1>1, <1>2, <1>3, <1>9, TopKnown, PartChanged
<1>11. Turns(r, ms)
  <2>1. Marked(ms)
    BY <1>1, <1>4, Marking
  <2>2. Top.part # "finally"
    BY <1>1
  <2> QED BY <1>1, <1>8, <1>10, <2>1, <2>2 DEF Turns
<1>12. Near(path, path', n) /\ path'[n] = r /\ l = m \cup ms /\ m \subseteq l
  BY <1>11, TurnsNear
<1>13. /\ PlaceInv(path, n, live, s, m) /\ NodeInv(path, n, old, m) /\ (Tame(m) => Level(live, s))
       /\ PlaceInv(path, n, Top.saved, Top.stack, m)
  BY <1>1, FlowKnown, SavedKnown DEF TopInv
<1>14. r.kind = "try" /\ r.stack = Top.stack /\ r.finally = Top.finally
  BY <1>1, <1>10 DEF Alike
<1>15. /\ Silent(l) => Silent(m) /\ s \subseteq Top.stack
       /\ Tame(l) => Tame(m) /\ s \subseteq Top.stack
       /\ Regular(l) => Regular(m) /\ s \subseteq Top.stack
  <2>1. Regular(l) => s \subseteq Top.stack
    BY <1>7, <1>12 DEF Regular
  <2> QED BY <2>1, <1>12, MarksGrow
<1>16. Tame(l) /\ part = "finally" => s = Top.stack
  <2>1. Tame(l) /\ part = "finally" => \A b \in 1..Len(bs) : Top.stack \subseteq bs[b]
    BY <1>7, <1>12 DEF Tame
  <2>2. Len(old) + 1 \in 1..Len(bs)
    BY <1>8
  <2> QED BY <2>1, <2>2, <1>8, <1>15
<1> HIDE DEF n, m, l, s, bs, old
<1>17. ASSUME NEW b \in 1..Len(bs)
       PROVE  (b \in 1..Len(old) /\ bs[b] = old[b]) \/ bs[b] = s
  <2>1. b \in 1..Len(old) \/ b = Len(old) + 1
    BY <1>8
  <2> QED BY <2>1, <1>8
<1>18. 1..Len(old) \subseteq 1..Len(bs) /\ Len(old) + 1 \in 1..Len(bs)
  BY <1>8
<1>19. ASSUME NEW x
       PROVE  (InBranch(x, old) => InBranch(x, bs)) /\ (x.open \subseteq s => InBranch(x, bs))
  BY <1>8, <1>18 DEF InBranch
<1>20. PlaceInv(path', n, Top.saved, Top.stack, l) /\ PlaceInv(path', n, live, s, l)
  BY <1>12, <1>13, PlaceNear
<1>21. ASSUME Silent(l), NEW x \in live
       PROVE  x.to = Here /\ x.open \subseteq s /\ x.open \subseteq Top.stack
  <2>1. Fits(path, n, x, s)
    BY <1>21, <1>13, <1>15 DEF PlaceInv
  <2>2. x.to # Here => \E t \in Around(path, n) : path[t].part = "finally"
    BY <2>1 DEF Fits
  <2>3. x.to = Here
    BY <2>2, <1>1, <1>3, NoFinallyAround DEF n
  <2> QED BY <2>1, <2>3, <1>15, <1>21 DEF Fits
<1>22. ASSUME Silent(l), NEW x \in Top.out
       PROVE  /\ x.open \subseteq Top.stack /\ (x.to # Here => Top.finally /\ Outwards(path', n, x))
              /\ (~ Top.finally => InBranch(x, old))
  <2>1. OutFit(path, n, old, x)
    BY <1>22, <1>3, <1>13, <1>15 DEF NodeInv, OutFits
  <2>2. Outwards(path, n, x) => Outwards(path', n, x)
    BY <1>12, <1>3, OutwardsNear
  <2> QED BY <2>1, <2>2, <1>1, <1>3 DEF OutFit
<1>23. NodeInv(path', n, bs, l)
  <2>1. ASSUME NEW b \in 1..Len(bs)
        PROVE  BranchInv(path', n, bs[b], l)
    <3>1. CASE b \in 1..Len(old) /\ bs[b] = old[b]
      <4>1. BranchInv(path, n, old[b], m)
        BY <1>13, <3>1 DEF NodeInv
      <4>2. (Traced(path, n, bs[b]) => Traced(path', n, bs[b])) /\ (Kept(path, n, bs[b]) => Kept(path', n, bs[b]))
        BY <1>12, TracedNear
      <4>3. part = "finally"
        BY <3>1, <1>2, <1>5 DEF old
      <4> QED BY <3>1, <4>1, <4>2, <4>3, <1>1, <1>3, <1>10, <1>12, <1>14, <1>15 DEF BranchInv
    <3>2. CASE bs[b] = s
      <4>1. Tame(l) => Level(r.out, s)
        BY <1>10, <1>13, <1>15, LevelMore
      <4> QED BY <3>2, <4>1, <1>12, <1>14, <1>15, <1>20 DEF BranchInv, PlaceInv
    <3> QED BY <3>1, <3>2, <1>17
  <2>2. ASSUME Silent(l)
        PROVE  OutFits(path', n, bs)
    <3>1. ASSUME NEW x \in r.out
          PROVE  OutFit(path', n, bs, x)
      <4>1. /\ x.open \subseteq Top.stack /\ (x.to # Here => Top.finally /\ Outwards(path', n, x))
            /\ (~ Top.finally => InBranch(x, bs))
        BY <2>2, <3>1, <1>10, <1>19, <1>21, <1>22
      <4> QED BY <4>1, <1>2, <1>10, <1>12, <1>14 DEF OutFit
    <3> QED BY <3>1, <1>2, <1>10, <1>12, <1>14 DEF OutFits, ThrownFit
  <2>3. Tame(l) => OutStays(r)
    BY <1>2, <1>3, <1>10, <1>13, <1>15 DEF NodeInv, OutStays, PlaceInv, Stay
  <2> QED BY <2>1, <2>2, <2>3, <1>12 DEF NodeInv
<1>24. PlaceInv(path', n, live', Top.stack, l)
  <2>1. ASSUME Silent(l), NEW x \in live'
        PROVE  Fits(path', n, x, Top.stack)
    <3>1. CASE part = "catch"
      <4>1. ThrownFit(Top, x) /\ Top.part = "block"
        BY <2>1, <3>1, <1>1, <1>2, <1>3, <1>13, <1>15 DEF NodeInv, OutFits
      <4> QED BY <4>1 DEF ThrownFit, Fits
    <3>2. CASE part = "finally"
      <4>1. x.open \subseteq Top.stack /\ (x.to # Here => Outwards(path', n, x))
        BY <2>1, <3>2, <1>1, <1>21, <1>22
      <4>2. n \in Around(path', n)
        BY <1>3 DEF Around
      <4> QED BY <3>2, <4>1, <4>2, <1>10, <1>12 DEF Fits
    <3> QED BY <3>1, <3>2, <1>2
  <2>2. Tame(l) => Stay(live')
    BY <1>1, <1>2, <1>3, <1>13, <1>15 DEF NodeInv, OutStays, PlaceInv, Stay
  <2> QED BY <2>1, <2>2, <1>20 DEF PlaceInv
<1>25. TopInv(r, bs, live', Top.stack, l)
  <2>1. ASSUME Tame(l)
        PROVE  Level(live', Top.stack)
    <3>1. CASE part = "catch"
      BY <2>1, <3>1, <1>1, <1>2, <1>3, <1>13, <1>15 DEF NodeInv, OutStays
    <3>2. CASE part = "finally"
      BY <2>1, <3>2, <1>1, <1>13, <1>15, <1>16, LevelMore
    <3> QED BY <3>1, <3>2, <1>2
  <2> QED BY <2>1, <1>2, <1>10, <1>14 DEF TopInv
<1> QED BY <1>8, <1>11, <1>23, <1>24, <1>25, TurnedFlows DEF n, l, bs
-----------------------------------------------------------------------------
(* Leaving a node inside a function.                                       *)
LEMMA PlaceWider ==
  ASSUME NEW p, NEW i, NEW xs, NEW s, NEW m, PlaceInv(p, i, xs, s, m), NEW u,
         Traced(p, i, u), Silent(m) => Kept(p, i, u), Silent(m) => \A x \in xs : x.open \subseteq u
  PROVE  PlaceInv(p, i, xs, u, m)
  BY DEF PlaceInv, Fits
LEMMA PlaceShallower ==
  ASSUME NEW p, NEW i \in Nat, i > 1, p[i].depth = p[i - 1].depth, p[i].part # "finally",
         NEW xs, NEW s, NEW m, PlaceInv(p, i, xs, s, m)
  PROVE  PlaceInv(p, i - 1, xs, s, m)
<1>1. /\ Traced(p, i, s) => Traced(p, i - 1, s)
      /\ Kept(p, i, s) => Kept(p, i - 1, s)
  BY TracedShallower
<1>2. \A x : Fits(p, i, x, s) => Fits(p, i - 1, x, s)
  BY FitsDeeper
<1> QED BY <1>1, <1>2 DEF PlaceInv

Leaves(ms) ==
  /\ path # <<>> /\ Top.kind # "function" /\ Marked(ms)
  /\ branchStacks' = MapWithout(Top, branchStacks)
Pops(ms) ==
  /\ path # <<>> /\ Top.kind # "function" /\ path' = Front(path) /\ Marked(ms)
  /\ branchStacks' = MapWithout(Top, branchStacks)
LEMMA TopBefore ==
  ASSUME WalkInv, path # <<>>, NEW i \in 1..Len(path), i < Len(path)
  PROVE  path[i].part # "between" /\ Before(path[i], Top)
<1>1. Len(path) \in 1..Len(path) /\ Top = path[Len(path)]
  BY PlaceKnown DEF Top
<1> QED BY <1>1 DEF WalkInv, Walk, Syntax, Before
LEMMA LessPath ==
  ASSUME WalkInv, path # <<>>, NEW map, map = MapWithout(Top, branchStacks)
  PROVE  /\ Len(Front(path)) = Len(path) - 1 /\ Len(path) \in Nat \ {0} /\ Len(path) - 1 \in Nat
         /\ \A i \in 1..Len(path) - 1 : Front(path)[i] = path[i]
         /\ \A i \in 1..Len(path) - 1 : BranchesAt(map, path[i].id) = BranchesAt(branchStacks, path[i].id)
<1>1. /\ path \in Seq(SyntaxNode) /\ Syntax(path, Place, nodes) /\ BranchesFollow(path, branchStacks)
      /\ branchStacks \in [DOMAIN branchStacks -> Seq(SUBSET Calls)]
  BY DEF WalkInv, Walk, Typed
<1>2. \A i \in 1..Len(path) - 1 : BranchesAt(map, path[i].id) = BranchesAt(branchStacks, path[i].id)
  BY <1>1, BranchesPop DEF MapWithout, Top
<1>3. /\ Len(Front(path)) = Len(path) - 1 /\ Len(path) \in Nat \ {0}
      /\ \A i \in 1..Len(path) - 1 : Front(path)[i] = path[i]
  BY <1>1, FrontIs
<1> QED BY <1>2, <1>3
LEMMA LeavesFlow ==
  ASSUME WalkInv, FlowInv, NEW ms, Leaves(ms),
         PlaceInv(path, Len(path) - 1, live', openerStack', account'[Place]),
         Tame(account'[Place]) => Level(live', openerStack')
  PROVE  /\ NodesFlow(Front(path), branchStacks', account') /\ SavedFlow(Front(path), branchStacks', account')
         /\ TopFlow(Front(path), branchStacks', account', live', openerStack')
         /\ FlowTop(Front(path), branchStacks', account', live', openerStack')
<1> DEFINE n == Len(path)
           q == Front(path)
           k == n - 1
           l == account'[Place]
<1>1. path # <<>> /\ Top.kind # "function"
  BY DEF Leaves
<1>2. /\ Len(q) = k /\ n \in Nat \ {0} /\ \A i \in 1..k : q[i] = path[i]
      /\ \A i \in 1..k : BranchesAt(branchStacks', path[i].id) = BranchesAt(branchStacks, path[i].id)
  BY <1>1, LessPath DEF Leaves
<1>3. /\ k \in 1..n /\ k \in Nat \ {0} /\ path[k].depth = Place /\ n \in Nat
      /\ SavedInv(path, k, Top, BranchesAt(branchStacks, path[k].id), account[Place])
  BY <1>1, SavedKnown
<1>4. path[k].part # "between"
  <2>1. k < n
    BY <1>3
  <2> QED BY <1>1, <1>3, <2>1, TopBefore
<1>5. /\ NodesFlow(path, branchStacks, account) /\ SavedFlow(path, branchStacks, account)
      /\ \A i \in 1..n : account[path[i].depth] \subseteq account'[path[i].depth]
      /\ account[Place] \subseteq l
  BY <1>1, FlowKnown, MarksKnown DEF Leaves
<1>6. k \in 1..k /\ 1..k \subseteq 1..n /\ k <= n /\ n \in Nat /\ k \in Nat
  BY <1>3
<1> HIDE DEF k, l, q
<1>7. Alongside(path, q, k, branchStacks, branchStacks', account, account')
  <2>1. ASSUME NEW i \in 1..k
        PROVE  Same(path[i], q[i]) /\ account[path[i].depth] \subseteq account'[path[i].depth]
    BY <1>2, <1>5, <1>6 DEF Same, Alike, SamePart, SameOut
  <2> QED BY <1>2, <1>6, <2>1 DEF Alongside
<1>8. Near(path, q, k) /\ q[k] = path[k]
  BY <1>2, <1>6, <1>7, NearAlong
<1>9. PlaceInv(q, k, live', openerStack', l)
  <2>1. PlaceInv(path, k, live', openerStack', l)
    BY DEF k, l
  <2> QED BY <2>1, <1>8, PlaceNear
<1>10. TopInv(path[k], BranchesAt(branchStacks, path[k].id), live', openerStack', l)
  <2>1. Silent(l) => Silent(account[Place])
    BY <1>5, MarksGrow
  <2>2. Tame(l) => Level(live', openerStack')
    BY DEF l
  <2> QED BY <2>1, <2>2, <1>3, <1>4 DEF SavedInv, TopInv
<1>11. FlowTop(q, branchStacks', account', live', openerStack')
  BY <1>2, <1>3, <1>6, <1>8, <1>9, <1>10 DEF FlowTop, l
<1>12. /\ NodesFlow(q, branchStacks', account') /\ SavedFlow(q, branchStacks', account')
       /\ TopFlow(q, branchStacks', account', live', openerStack')
  BY <1>2, <1>5, <1>7, <1>11, FlowPop DEF k
<1> QED BY <1>11, <1>12 DEF q

LEMMA PoppedFlows ==
  ASSUME WalkInv, FlowInv, NEW ms, Pops(ms),
         PlaceInv(path, Len(path) - 1, live', openerStack', account'[Place]),
         Tame(account'[Place]) => Level(live', openerStack')
  PROVE  FlowInv'
<1>1. Leaves(ms) /\ path' = Front(path)
  BY DEF Pops, Leaves
<1> QED BY <1>1, LeavesFlow DEF FlowInv

(* What the branches have in common.                                       *)
LEMMA AllEqual ==
  ASSUME NEW o, NEW bs, NEW n \in Nat, DOMAIN bs = 1..n, \A b \in 1..n : bs[b] \subseteq o,
         ~ AllowConditionalClosers, ~ Partial(o, bs), NEW b \in 1..n
  PROVE  bs[b] = Common(o, bs)
<1>1. ASSUME NEW c \in bs[b], NEW a \in 1..n
      PROVE  c \in bs[a]
  BY <1>1 DEF Partial
<1> QED BY <1>1 DEF Common
LEMMA OrderedBranches ==
  ASSUME NEW o, NEW bs, NEW n \in Nat, DOMAIN bs = 1..n, \A b \in 1..n : bs[b] \subseteq o,
         ~ Exchanged(o, bs), NEW a \in 1..n, NEW b \in 1..n
  PROVE  bs[a] \subseteq bs[b] \/ bs[b] \subseteq bs[a]
  BY DEF Exchanged
LEMMA LeastBranch ==
  ASSUME NEW o, NEW bs, NEW n \in Nat, n > 0, DOMAIN bs = 1..n, \A b \in 1..n : bs[b] \subseteq o /\ IsFiniteSet(bs[b]),
         ~ Exchanged(o, bs)
  PROVE  \E b \in 1..n : Common(o, bs) = bs[b]
<1> DEFINE T == {Cardinality(bs[b]) : b \in 1..n}
<1>1. T \in SUBSET Nat /\ T # {}
  <2>1. 1 \in 1..n
    OBVIOUS
  <2> QED BY <2>1, FS_CardinalityType
<1> HIDE DEF T
<1>2. PICK m \in T : \A j \in T : m <= j
  BY <1>1, LeastIn
<1>3. PICK b \in 1..n : m = Cardinality(bs[b])
  BY <1>2 DEF T
<1>4. ASSUME NEW a \in 1..n
      PROVE  bs[b] \subseteq bs[a]
  <2>1. bs[a] \subseteq bs[b] \/ bs[b] \subseteq bs[a]
    BY OrderedBranches
  <2>2. ASSUME bs[a] \subseteq bs[b]
        PROVE  bs[b] \subseteq bs[a]
    <3>1. Cardinality(bs[a]) <= Cardinality(bs[b]) /\ (Cardinality(bs[b]) = Cardinality(bs[a]) => bs[b] = bs[a])
      BY <2>2, FS_Subset
    <3>2. Cardinality(bs[b]) <= Cardinality(bs[a])
      BY <1>2, <1>3 DEF T
    <3>3. Cardinality(bs[a]) \in Nat /\ Cardinality(bs[b]) \in Nat
      BY FS_CardinalityType
    <3> QED BY <3>1, <3>2, <3>3
  <2> QED BY <2>1, <2>2
<1>5. Common(o, bs) = bs[b]
  BY <1>4 DEF Common
<1> QED BY <1>5
LEMMA OverIsFinite ==
  ASSUME NEW xs, NEW k, Sound(xs, k), NEW s, Level(xs, s)
  PROVE  IsFiniteSet(s)
<1>1. PICK x \in xs : s \subseteq x.open
  BY DEF Level, Over
<1> QED BY <1>1, FS_Subset DEF Sound

LEMMA ExitLoopFlows == ASSUME WalkInv, FlowInv, ExitLoop PROVE FlowInv'
<1> DEFINE n == Len(path)
           m == account[Place]
           s == openerStack
<1>1. /\ path # <<>> /\ Top.kind = "loop" /\ live' = Top.saved \cup Top.out \cup live /\ Unmarked
      /\ path' = Front(path) /\ openerStack' = s /\ branchStacks' = branchStacks
  BY DEF ExitLoop, maps
<1>2. Top = path[n] /\ NodeShape(Top) /\ n \in 1..n /\ n \in Nat
  BY <1>1, PlaceKnown DEF Top
<1>3. Top.part = "body"
  BY <1>1, <1>2 DEF NodeShape, PartsOf
<1>4. Pops({}) /\ account'[Place] = m
  <2> DEFINE ms == {}
  <2>1. Marked(ms)
    BY <1>1, Marking
  <2> HIDE DEF ms
  <2>2. Pops(ms)
    BY <1>1, <2>1 DEF Pops, MapWithout, Branching
  <2>3. account'[Place] = m \cup ms
    BY <1>1, <2>1, MarksKnown
  <2> QED BY <2>2, <2>3 DEF ms
<1>5. /\ PlaceInv(path, n, live, s, m) /\ NodeInv(path, n, BranchesAt(branchStacks, Top.id), m) /\ (Tame(m) => Level(live, s))
      /\ n > 1 /\ path[n].depth = path[n - 1].depth
      /\ PlaceInv(path, n - 1, Top.saved, Top.stack, m) /\ n - 1 \in Nat \ {0}
  BY <1>1, <1>3, FlowKnown, SavedKnown DEF TopInv
<1> HIDE DEF n, m, s
<1>6. PlaceInv(path, n - 1, live, s, m)
  BY <1>2, <1>3, <1>5, PlaceShallower
<1>7. Silent(m) => Top.stack \subseteq s
  <2>1. n \in Around(path, n)
    BY <1>2 DEF Around
  <2> QED BY <2>1, <1>1, <1>2, <1>5 DEF PlaceInv, Kept
<1>8. PlaceInv(path, n - 1, Top.saved, s, m)
  BY <1>5, <1>6, <1>7, PlaceWider DEF PlaceInv, Fits
<1>9. PlaceInv(path, n - 1, Top.out, s, m)
  <2>1. Silent(m) => \A x \in Top.out : x.to = Here /\ x.open \subseteq s
    BY <1>1, <1>2, <1>5, <1>7 DEF NodeInv, OutFits, OutFit
  <2>2. Tame(m) => Stay(Top.out)
    BY <1>2, <1>5 DEF NodeInv, OutStays
  <2> QED BY <2>1, <2>2, <1>6 DEF PlaceInv, Fits
<1>10. PlaceInv(path, n - 1, live', s, m)
  BY <1>1, <1>6, <1>8, <1>9, PlaceTogether
<1>11. Tame(m) => Level(live', s)
  BY <1>1, <1>5, LevelMore
<1> QED BY <1>1, <1>4, <1>10, <1>11, PoppedFlows DEF n

(* Two branches, the first of which is recorded, and what they leave.      *)
MergesTwo(o, bs, t, s, l) ==
  /\ DOMAIN bs = 1..2 /\ bs[1] = t /\ bs[2] = s
  /\ Silent(l) => t \subseteq o /\ s \subseteq o /\ ~ Partial(o, bs)
  /\ Tame(l) => t \subseteq o /\ s \subseteq o /\ ~ Exchanged(o, bs)
LEMMA MergedTwo ==
  ASSUME WalkInv, path # <<>>, NEW o, NEW bs, NEW t, NEW s, NEW l, MergesTwo(o, bs, t, s, l),
         PlaceInv(path, Len(path), live, s, l), Tame(l) => Level(live, s) /\ Level(Top.out, t) /\ Stay(Top.out),
         Silent(l) => \A x \in Top.out : Fits(path, Len(path), x, t),
         Top.kind # "function", Top.part # "finally"
  PROVE  /\ PlaceInv(path, Len(path) - 1, Top.out \cup live, Common(o, bs), l)
         /\ Tame(l) => Level(Top.out \cup live, Common(o, bs))
<1> DEFINE n == Len(path)
           c == Common(o, bs)
<1>1. /\ Top = path[n] /\ n \in Nat /\ n > 1 /\ path[n].depth = path[n - 1].depth
  <2>1. Top = path[n] /\ n \in Nat \ {0} /\ n \in 1..n /\ NodePlace(path, n)
    BY PlaceKnown DEF Top
  <2> QED BY <2>1 DEF NodePlace
<1>2. DOMAIN bs = 1..2 /\ bs[1] = t /\ bs[2] = s /\ 1 \in 1..2 /\ 2 \in 1..2 /\ \A b \in 1..2 : b = 1 \/ b = 2
  BY DEF MergesTwo
<1>3. c \subseteq s /\ c \subseteq t
  BY <1>2 DEF Common
<1>4. Silent(l) => c = s /\ c = t
  <2>1. Silent(l) => \A b \in 1..2 : bs[b] \subseteq o
    BY <1>2 DEF MergesTwo
  <2>2. Silent(l) => ~ AllowConditionalClosers /\ ~ Partial(o, bs)
    BY DEF MergesTwo, Silent
  <2>3. Silent(l) => bs[1] = c /\ bs[2] = c
    BY <2>1, <2>2, <1>2, AllEqual
  <2> QED BY <2>3, <1>2
<1>5. Tame(l) => c = s \/ c = t
  <2> HAVE Tame(l)
  <2>1. Level(live, s) /\ Level(Top.out, t) /\ Sound(live, stackIndexCounter) /\ Sound(Top.out, stackIndexCounter)
    BY TopKnown
  <2>2. IsFiniteSet(s) /\ IsFiniteSet(t)
    BY <2>1, OverIsFinite
  <2>3. \A b \in 1..2 : bs[b] \subseteq o /\ IsFiniteSet(bs[b])
    BY <2>2, <1>2 DEF MergesTwo
  <2>4. ~ Exchanged(o, bs)
    BY DEF MergesTwo
  <2>5. \E b \in 1..2 : Common(o, bs) = bs[b]
    <3> DEFINE k == 2
    <3>1. k \in Nat /\ k > 0 /\ DOMAIN bs = 1..k /\ \A b \in 1..k : bs[b] \subseteq o /\ IsFiniteSet(bs[b])
      BY <1>2, <2>3
    <3> HIDE DEF k
    <3>2. \E b \in 1..k : Common(o, bs) = bs[b]
      BY <2>4, <3>1, LeastBranch
    <3> QED BY <3>2 DEF k
  <2> QED BY <2>5, <1>2
<1> HIDE DEF n, c
<1>6. PlaceInv(path, n, live, s, l)
  BY DEF n
<1>7. Traced(path, n, c)
  BY <1>3, <1>6 DEF PlaceInv, Traced
<1>8. PlaceInv(path, n, Top.out \cup live, c, l)
  <2>1. ASSUME Silent(l), NEW x \in Top.out
        PROVE  Fits(path, n, x, c)
    <3>1. Fits(path, n, x, t)
      BY <2>1 DEF n
    <3> QED BY <2>1, <3>1, <1>4
  <2> QED BY <2>1, <1>4, <1>6, <1>7 DEF PlaceInv, Stay
<1>9. PlaceInv(path, n - 1, Top.out \cup live, c, l)
  BY <1>1, <1>8, PlaceShallower
<1>10. Tame(l) => Level(Top.out \cup live, c)
  BY <1>5, LevelMore
<1> QED BY <1>9, <1>10 DEF n, c

LEMMA RecordedTwo ==
  ASSUME WalkInv, path # <<>>, Top.part \in {"else", "catch"}, Top.kind \in Branching
  PROVE  /\ DOMAIN Recorded(Top.id) = 1..2 /\ Recorded(Top.id)[2] = openerStack
         /\ Recorded(Top.id)[1] = BranchesAt(branchStacks, Top.id)[1] /\ Len(BranchesAt(branchStacks, Top.id)) = 1
         /\ Len(Recorded(Top.id)) = 2
<1> DEFINE old == BranchesAt(branchStacks, Top.id)
           bs == Recorded(Top.id)
<1>1. /\ old \in Seq(SUBSET Calls) /\ bs = Append(old, openerStack) /\ bs \in Seq(SUBSET Calls)
      /\ BranchCount(Top, Len(old))
  BY OriginalIs
<1>2. Len(old) = 1
  BY <1>1 DEF BranchCount
<1>3. openerStack \in SUBSET Calls
  BY DEF WalkInv, Typed
<1>4. Len(bs) = 2 /\ bs[2] = openerStack /\ bs[1] = old[1]
  <2>1. /\ Len(Append(old, openerStack)) = Len(old) + 1 /\ \A b \in 1..Len(old) : Append(old, openerStack)[b] = old[b]
        /\ Append(old, openerStack)[Len(old) + 1] = openerStack
    BY <1>1, <1>3, AppendIs
  <2>2. 1 \in 1..Len(old) /\ Len(old) + 1 = 2
    BY <1>2
  <2> QED BY <2>1, <2>2, <1>1
<1>5. DOMAIN bs = 1..2
  BY <1>1, <1>4, LenProperties
<1> QED BY <1>2, <1>4, <1>5

IfMarks ==
  LET original == Top.stack
      branches == Recorded(Top.id)
      new == \E b \in DOMAIN branches : NewIn(branches[b], original)
  IN  If(new \/ (Top.part # "then" /\ Partial(original, branches)), "warned")
        \cup If(\/ new /\ (Top.part = "then" => NewIn(original, openerStack))
                \/ Exchanged(original, branches), "beyond")
LEMMA ExitIfPops ==
  ASSUME WalkInv, ExitIf
  PROVE  /\ Pops(IfMarks) /\ Top.kind = "if" /\ Top.kind \in Branching
         /\ openerStack' = MergeIf(Top.stack, Recorded(Top.id))
         /\ live' = Top.out \cup live \cup (IF Top.part = "then" THEN Top.saved ELSE {})
         /\ account'[Place] = account[Place] \cup IfMarks
<1>1. /\ path # <<>> /\ Top.kind = "if" /\ openerStack' = MergeIf(stackSnapshots[Top.id], Recorded(Top.id))
      /\ live' = Top.out \cup live \cup (IF Top.part = "then" THEN Top.saved ELSE {})
      /\ Settle(Top.id) /\ path' = Front(path)
  BY DEF ExitIf
<1>2. Top.kind \in Branching /\ stackSnapshots[Top.id] = Top.stack
  BY <1>1, OriginalIs DEF Branching
<1>3. Mark(IfMarks)
  BY <1>2 DEF ExitIf, IfMarks
<1>4. IfMarks \in SUBSET Unleaked
  BY DEF IfMarks, If, Unleaked, Marks
<1>5. Marked(IfMarks)
  BY <1>1, <1>3, <1>4, Marking
<1>6. Pops(IfMarks)
  BY <1>1, <1>2, <1>5 DEF Pops, Settle, MapWithout
<1> QED BY <1>1, <1>2, <1>5, <1>6, MarksKnown
LEMMA ExitIfFlows == ASSUME WalkInv, FlowInv, ExitIf PROVE FlowInv'
<1> DEFINE n == Len(path)
           m == account[Place]
           l == account'[Place]
           s == openerStack
           o == Top.stack
           old == BranchesAt(branchStacks, Top.id)
           bs == Recorded(Top.id)
<1>1. /\ Pops(IfMarks) /\ Top.kind = "if" /\ Top.kind \in Branching /\ openerStack' = MergeIf(o, bs)
      /\ live' = Top.out \cup live \cup (IF Top.part = "then" THEN Top.saved ELSE {})
      /\ l = m \cup IfMarks /\ path # <<>>
  BY ExitIfPops DEF Pops
<1>2. Top = path[n] /\ NodeShape(Top) /\ n \in 1..n /\ n \in Nat
  BY <1>1, PlaceKnown DEF Top
<1>3. Top.part \in {"then", "else"}
  BY <1>1, <1>2 DEF NodeShape, PartsOf
<1>4. bs \in Seq(SUBSET Calls) /\ BranchCount(Top, Len(old)) /\ bs = Append(old, s) /\ old \in Seq(SUBSET Calls)
  BY <1>1, OriginalIs
<1>5. DOMAIN bs = 1..Len(bs) /\ Len(bs) = Len(old) + 1 /\ bs[Len(old) + 1] = s /\ Len(old) \in Nat
  <2>1. s \in SUBSET Calls
    BY DEF WalkInv, Typed
  <2> QED BY <2>1, <1>4, AppendIs, LenProperties
<1>6. /\ PlaceInv(path, n, live, s, m) /\ NodeInv(path, n, old, m) /\ (Tame(m) => Level(live, s))
      /\ n > 1 /\ path[n].depth = path[n - 1].depth /\ n - 1 \in Nat \ {0}
      /\ PlaceInv(path, n - 1, Top.saved, o, m) /\ (Tame(m) => Level(Top.saved, o))
  BY <1>1, <1>3, FlowKnown, SavedKnown DEF TopInv
<1>7. /\ m \subseteq l /\ (Silent(l) => Silent(m)) /\ (Tame(l) => Tame(m))
  BY <1>1, MarksGrow
<1>8. /\ Silent(l) => \A b \in 1..Len(bs) : bs[b] \subseteq o
      /\ Silent(l) => Top.part = "then" \/ ~ Partial(o, bs)
      /\ Tame(l) => ~ Exchanged(o, bs)
      /\ Tame(l) /\ Top.part = "else" => \A b \in 1..Len(bs) : bs[b] \subseteq o
  BY <1>1, <1>3, <1>5 DEF IfMarks, If, Silent, Tame, NewIn
<1> HIDE DEF n, m, l, s, o, old, bs
<1>9. /\ PlaceInv(path, n, live, s, l) /\ PlaceInv(path, n - 1, Top.saved, o, l)
  <2>1. Near(path, path, n) /\ Near(path, path, n - 1)
    BY <1>2, <1>6, NearItself
  <2> QED BY <2>1, <1>6, <1>7, PlaceNear
<1>10. CASE Top.part = "then"
  <2>1. Len(old) = 0 /\ Len(bs) = 1 /\ bs[1] = s /\ openerStack' = o
    BY <1>1, <1>4, <1>5, <1>10 DEF BranchCount, MergeIf
  <2>2. live' = Top.out \cup live \cup Top.saved
    BY <1>1, <1>10
  <2>3. Silent(l) => s \subseteq o
    BY <2>1, <1>8
  <2>4. Silent(l) => Top.out = {}
    BY <1>2, <1>6, <1>7, <1>10 DEF NodeInv, OutFits, OutFit
  <2>5. PlaceInv(path, n - 1, live, s, l)
    BY <1>2, <1>6, <1>9, <1>10, PlaceShallower
  <2>6. PlaceInv(path, n - 1, live, o, l)
    BY <2>3, <2>5, <1>9, PlaceWider DEF PlaceInv, Fits
  <2>7. PlaceInv(path, n - 1, Top.out, o, l)
    <3>1. Tame(l) => Stay(Top.out)
      BY <1>2, <1>6, <1>7 DEF NodeInv, OutStays
    <3> QED BY <3>1, <2>4, <1>9 DEF PlaceInv
  <2>8. PlaceInv(path, n - 1, live', o, l)
    BY <2>2, <2>6, <2>7, <1>9, PlaceTogether
  <2>9. Tame(l) => Level(live', o)
    BY <2>2, <1>6, <1>7, LevelMore
  <2> QED BY <2>1, <2>8, <2>9, <1>1, PoppedFlows DEF n, l
<1>11. CASE Top.part = "else"
  <2>1. /\ DOMAIN bs = 1..2 /\ bs[2] = s /\ bs[1] = old[1] /\ Len(old) = 1 /\ Len(bs) = 2
    BY <1>1, <1>11, RecordedTwo DEF bs, s, old
  <2>2. openerStack' = Common(o, bs) /\ live' = Top.out \cup live
    BY <2>1, <1>1, <1>11 DEF MergeIf
  <2>3. MergesTwo(o, bs, old[1], s, l)
    <3>1. 1 \in 1..Len(bs) /\ 2 \in 1..Len(bs)
      BY <2>1
    <3> QED BY <3>1, <2>1, <1>8, <1>11 DEF MergesTwo
  <2>4. Tame(l) => Level(live, s) /\ Level(Top.out, old[1]) /\ Stay(Top.out)
    <3>1. 1 \in 1..Len(old)
      BY <2>1
    <3> QED BY <3>1, <1>2, <1>6, <1>7, <1>11 DEF NodeInv, BranchInv, OutStays
  <2>5. Silent(l) => \A x \in Top.out : Fits(path, n, x, old[1])
    BY <1>2, <1>6, <1>7, <1>11 DEF NodeInv, OutFits, OutFit
  <2>6. Top.kind # "function" /\ Top.part # "finally"
    BY <1>1, <1>11
  <2>7. PlaceInv(path, n - 1, Top.out \cup live, Common(o, bs), l) /\ (Tame(l) => Level(Top.out \cup live, Common(o, bs)))
    BY <2>3, <2>4, <2>5, <2>6, <1>1, <1>9, MergedTwo DEF n
  <2> QED BY <2>2, <2>7, <1>1, PoppedFlows DEF n, l
<1> QED BY <1>3, <1>10, <1>11

CatchMarks ==
  If(Partial(Top.stack, Recorded(Top.id)), "warned") \cup If(NewIn(openerStack, Top.stack), "irregular")
    \cup If(Exchanged(Top.stack, Recorded(Top.id)), "beyond")
LEMMA ExitCatchPops ==
  ASSUME WalkInv, ExitCatch
  PROVE  /\ Pops(CatchMarks) /\ Top.kind = "try" /\ Top.kind \in Branching /\ Top.part = "catch" /\ ~ Top.finally
         /\ openerStack' = Common(Top.stack, Recorded(Top.id)) /\ live' = Top.out \cup live
         /\ account'[Place] = account[Place] \cup CatchMarks
<1>1. /\ path # <<>> /\ Top.part = "catch" /\ ~ Top.finally
      /\ openerStack' = Common(stackSnapshots[Top.id], Recorded(Top.id)) /\ live' = Top.out \cup live
      /\ Settle(Top.id) /\ path' = Front(path)
  BY DEF ExitCatch
<1>2. NodeShape(Top) /\ Top \in SyntaxNode
  BY <1>1, PlaceKnown
<1>3. Top.kind = "try" /\ Top.kind \in Branching
  BY <1>1, <1>2 DEF NodeShape, PartsOf, Branching
<1>4. stackSnapshots[Top.id] = Top.stack
  BY <1>1, <1>3, OriginalIs
<1>5. Mark(CatchMarks)
  BY <1>4 DEF ExitCatch, CatchMarks
<1>6. CatchMarks \in SUBSET Unleaked
  BY DEF CatchMarks, If, Unleaked, Marks
<1>7. Marked(CatchMarks)
  BY <1>1, <1>5, <1>6, Marking
<1>8. Pops(CatchMarks)
  BY <1>1, <1>3, <1>7 DEF Pops, Settle, MapWithout
<1> QED BY <1>1, <1>3, <1>4, <1>7, <1>8, MarksKnown
LEMMA ExitCatchFlows == ASSUME WalkInv, FlowInv, ExitCatch PROVE FlowInv'
<1> DEFINE n == Len(path)
           m == account[Place]
           l == account'[Place]
           s == openerStack
           o == Top.stack
           old == BranchesAt(branchStacks, Top.id)
           bs == Recorded(Top.id)
<1>1. /\ Pops(CatchMarks) /\ Top.kind = "try" /\ Top.kind \in Branching /\ Top.part = "catch" /\ ~ Top.finally
      /\ openerStack' = Common(o, bs) /\ live' = Top.out \cup live /\ l = m \cup CatchMarks /\ path # <<>>
  BY ExitCatchPops DEF Pops
<1>2. Top = path[n] /\ n \in 1..n /\ n \in Nat
  BY <1>1, PlaceKnown DEF Top
<1>3. /\ DOMAIN bs = 1..2 /\ bs[2] = s /\ bs[1] = old[1] /\ Len(old) = 1 /\ Len(bs) = 2
  BY <1>1, RecordedTwo
<1>4. /\ PlaceInv(path, n, live, s, m) /\ NodeInv(path, n, old, m) /\ (Tame(m) => Level(live, s))
  BY <1>1, FlowKnown DEF TopInv
<1>5. /\ m \subseteq l /\ (Silent(l) => Silent(m)) /\ (Tame(l) => Tame(m) /\ Regular(m)) /\ (Silent(l) => Regular(m))
  BY <1>1, MarksGrow
<1>6. /\ Silent(l) => s \subseteq o /\ ~ Partial(o, bs)
      /\ Tame(l) => s \subseteq o /\ ~ Exchanged(o, bs)
  BY <1>1 DEF CatchMarks, If, Silent, Tame, Regular, NewIn
<1> HIDE DEF n, m, l, s, o, old, bs
<1>7. 1 \in 1..Len(old)
  BY <1>3
<1>8. BranchInv(path, n, old[1], m)
  BY <1>4, <1>7 DEF NodeInv
<1>9. Regular(m) => old[1] \subseteq o
  BY <1>1, <1>2, <1>8 DEF BranchInv, o
<1>10. MergesTwo(o, bs, old[1], s, l)
  BY <1>3, <1>5, <1>6, <1>9 DEF MergesTwo
<1>11. Tame(l) => Level(live, s) /\ Level(Top.out, old[1]) /\ Stay(Top.out)
  BY <1>1, <1>2, <1>4, <1>5, <1>8 DEF NodeInv, BranchInv, OutStays
<1>12. Silent(l) => \A x \in Top.out : Fits(path, n, x, old[1])
  <2> SUFFICES ASSUME Silent(l), NEW x \in Top.out PROVE Fits(path, n, x, old[1])
    OBVIOUS
  <2>1. OutFit(path, n, old, x)
    BY <1>2, <1>4, <1>5 DEF NodeInv, OutFits
  <2>2. InBranch(x, old) /\ x.to = Here
    BY <2>1, <1>1, <1>2 DEF OutFit
  <2>3. x.open \subseteq old[1]
    BY <2>2, <1>3 DEF InBranch
  <2> QED BY <2>2, <2>3 DEF Fits
<1>13. PlaceInv(path, n, live, s, l)
  <2>1. Near(path, path, n)
    BY <1>2, NearItself
  <2> QED BY <2>1, <1>4, <1>5, PlaceNear
<1>14. Top.kind # "function" /\ Top.part # "finally"
  BY <1>1
<1>15. PlaceInv(path, n - 1, Top.out \cup live, Common(o, bs), l) /\ (Tame(l) => Level(Top.out \cup live, Common(o, bs)))
  BY <1>1, <1>10, <1>11, <1>12, <1>13, <1>14, MergedTwo DEF n
<1> QED BY <1>1, <1>15, PoppedFlows DEF n, l

SwitchMerges == Top.default /\ Len(Branches(Top.id)) > 0
SwitchExitMarks ==
  IF SwitchMerges
  THEN If(Partial(Top.stack, Branches(Top.id)), "warned") \cup If(Exchanged(Top.stack, Branches(Top.id)), "beyond")
  ELSE {}
LEMMA ExitSwitchPops ==
  ASSUME WalkInv, ExitSwitch
  PROVE  /\ Pops(SwitchExitMarks) /\ Top.kind = "switch" /\ Top.kind \in Branching /\ Top.part = "between"
         /\ openerStack = Top.stack
         /\ openerStack' = IF SwitchMerges THEN Common(Top.stack, Branches(Top.id)) ELSE Top.stack
         /\ live' = Top.out \cup live \cup (IF Top.default THEN {} ELSE Top.saved)
         /\ Top.default => SwitchMerges
         /\ account'[Place] = account[Place] \cup SwitchExitMarks
<1> DEFINE bs == Branches(Top.id)
<1>1. /\ path # <<>> /\ Top.part = "between" /\ Settle(Top.id) /\ path' = Front(path)
      /\ live' = Top.out \cup live \cup (IF Top.default THEN {} ELSE Top.saved)
  BY DEF ExitSwitch
<1>2. NodeShape(Top) /\ Top \in SyntaxNode /\ Top = path[Len(path)] /\ Len(path) \in 1..Len(path)
  BY <1>1, PlaceKnown DEF Top
<1>3. Top.kind = "switch" /\ Top.kind \in Branching
  BY <1>1, <1>2 DEF NodeShape, PartsOf, Branching
<1>4. /\ stackSnapshots[Top.id] = Top.stack /\ bs \in Seq(SUBSET Calls) /\ BranchCount(Top, Len(bs)) /\ Len(bs) \in Nat
  BY <1>1, <1>3, OriginalIs
<1>5. Len(bs) = Top.cases /\ (Top.default => Top.cases > 0)
  BY <1>1, <1>2, <1>4 DEF BranchCount, NodeShape
<1>6. bs = <<>> <=> ~ (Len(bs) > 0)
  BY <1>4, EmptySeq
<1>7. openerStack = Top.stack
  BY <1>1, <1>2 DEF WalkInv, Walk, StacksFollow
<1>8. /\ openerStack' = IF SwitchMerges THEN Common(Top.stack, bs) ELSE Top.stack
      /\ IF SwitchMerges THEN Mark(SwitchExitMarks) ELSE Unmarked
  BY <1>4, <1>5, <1>6, <1>7 DEF ExitSwitch, SwitchMerges, SwitchExitMarks
<1>9. SwitchExitMarks \in SUBSET Unleaked
  BY DEF SwitchExitMarks, If, Unleaked, Marks
<1>10. Marked(SwitchExitMarks)
  <2>1. CASE SwitchMerges
    BY <1>1, <1>8, <1>9, <2>1, Marking
  <2>2. CASE ~ SwitchMerges
    BY <1>1, <1>8, <2>2, Marking DEF SwitchExitMarks
  <2> QED BY <2>1, <2>2
<1>11. Pops(SwitchExitMarks)
  BY <1>1, <1>3, <1>10 DEF Pops, Settle, MapWithout
<1>12. Top.default => SwitchMerges
  BY <1>5 DEF SwitchMerges
<1> QED BY <1>1, <1>3, <1>7, <1>8, <1>10, <1>11, <1>12, MarksKnown
LEMMA ExitSwitchFlows == ASSUME WalkInv, FlowInv, ExitSwitch PROVE FlowInv'
<1> DEFINE n == Len(path)
           m == account[Place]
           l == account'[Place]
           s == openerStack
           o == Top.stack
           bs == Branches(Top.id)
           c == Common(o, bs)
<1>1. /\ Pops(SwitchExitMarks) /\ Top.kind = "switch" /\ Top.kind \in Branching /\ Top.part = "between" /\ s = o
      /\ openerStack' = (IF SwitchMerges THEN c ELSE o)
      /\ live' = Top.out \cup live \cup (IF Top.default THEN {} ELSE Top.saved) /\ (Top.default => SwitchMerges)
      /\ l = m \cup SwitchExitMarks /\ path # <<>>
  BY ExitSwitchPops DEF Pops
<1>2. Top = path[n] /\ n \in 1..n /\ n \in Nat
  BY <1>1, PlaceKnown DEF Top
<1>3. bs \in Seq(SUBSET Calls) /\ bs = BranchesAt(branchStacks, Top.id) /\ Len(bs) \in Nat
  BY <1>1, OriginalIs
<1>4. DOMAIN bs = 1..Len(bs)
  BY <1>3, LenProperties
<1>5. /\ PlaceInv(path, n, live, s, m) /\ NodeInv(path, n, bs, m) /\ TopInv(Top, bs, live, s, m)
      /\ n > 1 /\ path[n].depth = path[n - 1].depth /\ n - 1 \in Nat \ {0}
      /\ PlaceInv(path, n - 1, Top.saved, o, m) /\ (Tame(m) => Level(Top.saved, o))
  BY <1>1, <1>3, FlowKnown, SavedKnown
<1>6. /\ m \subseteq l /\ (Silent(l) => Silent(m) /\ Regular(m)) /\ (Tame(l) => Tame(m) /\ Regular(m))
  BY <1>1, MarksGrow
<1>7. /\ Silent(l) /\ SwitchMerges => ~ Partial(o, bs)
      /\ Tame(l) /\ SwitchMerges => ~ Exchanged(o, bs)
  BY <1>1 DEF SwitchExitMarks, If, Silent, Tame, Regular
<1>8. SwitchMerges <=> Top.default /\ Len(bs) > 0
  BY DEF SwitchMerges
<1>20. Sound(Top.out, stackIndexCounter) /\ Sound(live, stackIndexCounter)
  BY <1>1, TopKnown
<1> HIDE DEF n, m, l, s, o, bs, c
<1>9. ASSUME NEW b \in 1..Len(bs)
      PROVE  BranchInv(path, n, bs[b], m) /\ (Regular(m) => bs[b] \subseteq o)
  BY <1>1, <1>2, <1>5 DEF NodeInv, BranchInv, o
<1>10. /\ PlaceInv(path, n, live, o, l) /\ PlaceInv(path, n - 1, Top.saved, o, l)
  <2>1. Near(path, path, n) /\ Near(path, path, n - 1)
    BY <1>2, <1>5, NearItself
  <2> QED BY <2>1, <1>1, <1>5, <1>6, PlaceNear
<1>11. Silent(l) => \A x \in Top.out : x.to = Here /\ InBranch(x, bs)
  <2> SUFFICES ASSUME Silent(l), NEW x \in Top.out PROVE x.to = Here /\ InBranch(x, bs)
    OBVIOUS
  <2>1. OutFit(path, n, bs, x)
    BY <1>2, <1>5, <1>6 DEF NodeInv, OutFits
  <2>2. InBranch(x, bs)
    BY <1>1, <1>5, <1>6 DEF TopInv
  <2> QED BY <2>1, <2>2, <1>1, <1>2 DEF OutFit
<1>12. Silent(l) => \A x \in live : InBranch(x, bs)
  BY <1>1, <1>5, <1>6 DEF TopInv
<1>13. Tame(l) => Stay(Top.out) /\ Stay(live)
  BY <1>2, <1>5, <1>6 DEF NodeInv, OutStays, PlaceInv
<1>14. ASSUME NEW u, Traced(path, n, u), Silent(l) => Kept(path, n, u),
              Silent(l) => \A b \in 1..Len(bs) : bs[b] \subseteq u
       PROVE  PlaceInv(path, n - 1, Top.out \cup live, u, l)
  <2>1. ASSUME Silent(l), NEW x \in Top.out \cup live
        PROVE  Fits(path, n, x, u)
    <3>1. x.open \subseteq u
      BY <2>1, <1>11, <1>12, <1>14 DEF InBranch
    <3>2. CASE x \in Top.out
      BY <3>1, <3>2, <2>1, <1>11 DEF Fits
    <3>3. CASE x \in live
      BY <3>1, <3>3, <2>1, <1>10 DEF PlaceInv, Fits
    <3> QED BY <3>2, <3>3
  <2>2. PlaceInv(path, n, Top.out \cup live, u, l)
    BY <2>1, <1>13, <1>14 DEF PlaceInv, Stay
  <2>3. path[n].part # "finally"
    BY <1>1, <1>2
  <2> QED BY <2>2, <2>3, <1>2, <1>5, PlaceShallower
<1>15. CASE SwitchMerges
  <2>1. openerStack' = c /\ live' = Top.out \cup live /\ Len(bs) > 0 /\ 1 \in 1..Len(bs)
    BY <1>1, <1>3, <1>8, <1>15
  <2>2. c \subseteq bs[1]
    BY <2>1, <1>4 DEF c, Common
  <2>3. Traced(path, n, c)
    BY <2>1, <2>2, <1>9 DEF BranchInv, Traced
  <2>4. Silent(l) => \A b \in 1..Len(bs) : bs[b] = c
    <3> HAVE Silent(l)
    <3>1. ~ AllowConditionalClosers /\ ~ Partial(o, bs) /\ \A b \in 1..Len(bs) : bs[b] \subseteq o
      BY <1>6, <1>7, <1>9, <1>15 DEF Silent
    <3> QED BY <3>1, <1>3, <1>4, AllEqual DEF c
  <2>5. Silent(l) => Kept(path, n, c)
    BY <2>1, <2>4, <1>6, <1>9 DEF BranchInv
  <2>6. PlaceInv(path, n - 1, live', c, l)
    BY <2>1, <2>3, <2>4, <2>5, <1>14
  <2>7. Tame(l) => Level(live', c)
    <3> HAVE Tame(l)
    <3>1. \A b \in 1..Len(bs) : Level(Top.out \cup live, bs[b])
      BY <1>1, <1>5, <1>6 DEF TopInv
    <3>2. Sound(Top.out \cup live, stackIndexCounter)
      BY <1>20, SoundTogether
    <3>3. \A b \in 1..Len(bs) : bs[b] \subseteq o /\ IsFiniteSet(bs[b])
      BY <3>1, <3>2, <1>6, <1>9, OverIsFinite
    <3>4. \E b \in 1..Len(bs) : Common(o, bs) = bs[b]
      BY <3>3, <2>1, <1>3, <1>4, <1>7, <1>15, LeastBranch
    <3> QED BY <3>1, <3>4, <2>1 DEF c
  <2> QED BY <2>1, <2>6, <2>7, <1>1, PoppedFlows DEF n, l
<1>16. CASE ~ SwitchMerges
  <2>1. openerStack' = o /\ live' = (Top.out \cup live) \cup Top.saved
    BY <1>1, <1>16
  <2>2. PlaceInv(path, n - 1, Top.out \cup live, o, l)
    BY <1>6, <1>9, <1>10, <1>14 DEF PlaceInv
  <2>3. PlaceInv(path, n - 1, live', o, l)
    BY <2>1, <2>2, <1>10, PlaceTogether
  <2>4. Tame(l) => Level(live', o)
    BY <2>1, <1>5, <1>6, LevelMore
  <2> QED BY <2>1, <2>3, <2>4, <1>1, PoppedFlows DEF n, l
<1> QED BY <1>15, <1>16

LEMMA ExitFunctionFlows == ASSUME WalkInv, FlowInv, ExitFunction PROVE FlowInv'
<1> DEFINE n == Len(path)
           k == n - 1
<1>1. /\ path # <<>> /\ Top.kind = "function" /\ live' = Top.saved /\ path' = Front(path) /\ branchStacks' = branchStacks
      /\ openerStack' = Top.stack /\ \A d \in 1..Place - 1 : account'[d] = account[d]
  BY ExitFunctionWalks DEF ExitFunction, maps
<1>2. /\ Len(path') = k /\ n \in Nat \ {0} /\ k \in Nat /\ \A i \in 1..k : path'[i] = path[i]
  BY <1>1, LessPath
<1>3. /\ Top = path[n] /\ n \in 1..n /\ NodePlace(path, n) /\ Top.depth = Place /\ Place \in Nat \ {0}
      /\ \A i \in 1..n : path[i].depth \in 1..Place
  BY <1>1, PlaceKnown DEF Top
<1>4. ASSUME NEW i \in 1..k
      PROVE  /\ path[i].depth \in 1..Place - 1 /\ path[i].part # "between" /\ i \in 1..n
             /\ account[path[i].depth] \subseteq account'[path[i].depth]
  <2>1. i \in 1..n /\ i < n
    BY <1>2
  <2>2. path[i].part # "between" /\ Before(path[i], Top)
    BY <1>1, <2>1, TopBefore
  <2>3. path[i].depth \in 1..Place - 1
    BY <1>1, <1>3, <2>1, <2>2 DEF Before
  <2> QED BY <1>1, <2>1, <2>2, <2>3
<1>5. NodesFlow(path, branchStacks, account) /\ SavedFlow(path, branchStacks, account)
  BY DEF FlowInv
<1> HIDE DEF n, k
<1>6. Alongside(path, path', k, branchStacks, branchStacks, account, account')
  <2>1. k <= n /\ n \in Nat
    BY <1>2 DEF k
  <2> QED BY <2>1, <1>2, <1>4 DEF Alongside, Same, Alike, SamePart, SameOut, n
<1>7. ASSUME path' # <<>>
      PROVE  FlowTop(path', branchStacks, account', live', openerStack')
  <2> DEFINE l == account'[path[k].depth]
  <2>1. path' \in Seq(SyntaxNode)
    BY <1>1, LessPath, FrontIs DEF WalkInv, Typed
  <2>2. k \in 1..k /\ n \in 1..n /\ n = k + 1 /\ k \in Nat \ {0}
    BY <2>1, <1>2, <1>3, <1>7, EmptySeq DEF k
  <2>3. SavedInv(path, k, Top, BranchesAt(branchStacks, path[k].id), account[path[k].depth])
    BY <2>2, <1>3, <1>4, <1>5 DEF SavedFlow, n
  <2>4. Near(path, path', k) /\ path'[k] = path[k] /\ account[path[k].depth] = l
    BY <2>2, <1>1, <1>2, <1>4, <1>6, NearAlong
  <2> HIDE DEF l
  <2>5. PlaceInv(path', k, Top.saved, Top.stack, l)
    BY <2>3, <2>4, PlaceNear DEF SavedInv
  <2>6. TopInv(path[k], BranchesAt(branchStacks, path[k].id), Top.saved, Top.stack, l)
    BY <2>2, <2>3, <2>4, <1>4 DEF SavedInv, TopInv
  <2> QED BY <2>4, <2>5, <2>6, <1>1, <1>2 DEF FlowTop, l
<1>8. /\ NodesFlow(path', branchStacks, account') /\ SavedFlow(path', branchStacks, account')
      /\ TopFlow(path', branchStacks, account', live', openerStack')
  BY <1>2, <1>5, <1>6, <1>7, FlowPop DEF k, n
<1> QED BY <1>1, <1>8 DEF FlowInv
-----------------------------------------------------------------------------
(* Jumps. An execution departs from the innermost place of a path p either *)
(* without open calls, or to a loop with no more than were open before it. *)
Departs(p, x) ==
  \/ LeavesFunction(p, Len(p), x) /\ x.open = {}
  \/ \E q \in Around(p, Len(p)) : p[q].kind = "loop" /\ x.to = p[q].id /\ x.open \subseteq p[q].stack
Departing(p, zs, l) == (Silent(l) => \A x \in zs : Departs(p, x)) /\ (Tame(l) => zs = {})

Shaped(p) ==
  /\ p \in Seq(SyntaxNode) /\ p # <<>>
  /\ \A i \in 1..Len(p) : NodeShape(p[i]) /\ NodePlace(p, i)
  /\ \A i, j \in 1..Len(p) : i < j => Before(p[i], p[j])
LEMMA ShapedIs ==
  ASSUME NEW p, Shaped(p)
  PROVE  /\ Len(p) \in Nat \ {0} /\ Len(p) \in 1..Len(p)
         /\ \A i \in 1..Len(p) : p[i] \in SyntaxNode /\ p[i].depth \in Nat /\ p[i].id \in 1..MaxNodes
         /\ \A i, j \in 1..Len(p) : i <= j => p[i].depth <= p[j].depth
         /\ \A i, j \in 1..Len(p) : p[i].id = p[j].id => i = j
<1>1. p \in Seq(SyntaxNode) /\ p # <<>>
  BY DEF Shaped
<1>2. Len(p) \in Nat \ {0} /\ Len(p) \in 1..Len(p)
  <2>1. Len(p) \in Nat /\ (Len(p) = 0 => p = <<>>)
    BY <1>1, LenProperties, EmptySeq
  <2> QED BY <1>1, <2>1
<1>3. ASSUME NEW i \in 1..Len(p)
      PROVE  p[i] \in SyntaxNode /\ p[i].depth \in Nat /\ p[i].id \in 1..MaxNodes
  <2>1. p[i] \in SyntaxNode
    BY <1>1, ElementOfSeq
  <2> QED BY <2>1 DEF SyntaxNode
<1>4. Len(p) \in Nat
  BY <1>2
<1>5. ASSUME NEW i \in 1..Len(p), NEW j \in 1..Len(p), i <= j
      PROVE  p[i].depth <= p[j].depth
  <2>1. i = j \/ i < j
    BY <1>4, <1>5
  <2>2. i < j => Before(p[i], p[j])
    BY DEF Shaped
  <2> QED BY <2>1, <2>2, <1>3 DEF Before
<1>6. ASSUME NEW i \in 1..Len(p), NEW j \in 1..Len(p), p[i].id = p[j].id
      PROVE  i = j
  <2>1. i = j \/ i < j \/ j < i
    BY <1>4
  <2>2. (i < j => p[i].id < p[j].id) /\ (j < i => p[j].id < p[i].id)
    BY DEF Shaped, Before
  <2>3. p[i].id \in Nat /\ p[j].id \in Nat
    BY <1>3, PairedCallsAssumption
  <2> QED BY <2>1, <2>2, <2>3, <1>6
<1> QED BY <1>2, <1>3, <1>5, <1>6
(* A jump ends inside the function.                                        *)
LEMMA ReachesAround ==
  ASSUME NEW p, Shaped(p), NEW x, NEW i \in 1..Len(p), Reaches(p, x, i)
  PROVE  /\ i \in Around(p, Len(p))
         /\ \A j \in 1..Len(p) : Stops(p[j], x) => j <= i
         /\ \A f \in Around(p, Len(p)) : p[f].kind = "function" => f \in Around(p, i)
<1> DEFINE k == Len(p)
<1>1. /\ k \in Nat \ {0} /\ k \in 1..k /\ \A j \in 1..k : p[j].depth \in Nat
      /\ \A a, b \in 1..k : a <= b => p[a].depth <= p[b].depth
  BY ShapedIs
<1> HIDE DEF k
<1>2. ASSUME NEW j \in 1..k, Stops(p[j], x)
      PROVE  j <= i
  <2>1. ~ (j \in i + 1..k)
    BY <1>2 DEF Reaches, k
  <2> QED BY <2>1, <1>1 DEF k
<1>3. i \in 1..k /\ k \in Nat
  BY <1>1 DEF k
<1>4. PICK f \in Around(p, k) : p[f].kind = "function"
  BY <1>1 DEF Shaped, NodePlace, k
<1>5. f \in 1..k /\ p[f].depth = p[k].depth
  BY <1>4 DEF Around
<1>6. f <= i
  BY <1>2, <1>4, <1>5 DEF Stops
<1>7. p[i].depth = p[k].depth
  <2>1. p[f].depth <= p[i].depth /\ p[i].depth <= p[k].depth
    BY <1>1, <1>3, <1>5, <1>6
  <2>2. p[f].depth \in Nat /\ p[i].depth \in Nat
    BY <1>1, <1>3, <1>5
  <2> QED BY <2>1, <2>2, <1>5
<1>8. i \in Around(p, k)
  BY <1>3, <1>7 DEF Around
<1>9. ASSUME NEW g \in Around(p, k), p[g].kind = "function"
      PROVE  g \in Around(p, i)
  <2>1. g \in 1..k /\ p[g].depth = p[k].depth
    BY DEF Around
  <2>2. g <= i
    BY <1>2, <1>9, <2>1 DEF Stops
  <2> QED BY <2>1, <2>2, <1>3, <1>7 DEF Around
<1> QED BY <1>2, <1>8, <1>9 DEF k

(* What arrives at a node, by the kind of the node.                        *)
LEMMA DepartsArrives ==
  ASSUME NEW p, Shaped(p), NEW x, NEW i \in 1..Len(p), Reaches(p, x, i), Departs(p, x),
         p[i].kind = "try" => Kept(p, i - 1, p[i].stack)
  PROVE  /\ p[i].kind \in {"function", "loop", "try"}
         /\ p[i].kind = "function" => x.open = {}
         /\ p[i].kind = "loop" => x.to = p[i].id /\ x.open \subseteq p[i].stack
         /\ p[i].kind = "try" /\ Catches(p[i], x) => x.open = {}
         /\ p[i].kind = "try" /\ ~ Catches(p[i], x) =>
              x.to # p[i].id /\ p[i].finally /\ x.open \subseteq p[i].stack /\ Outwards(p, i, x)
<1> DEFINE k == Len(p)
<1>1. /\ k \in Nat /\ k \in 1..k /\ \A j \in 1..k : p[j] \in SyntaxNode /\ p[j].id \in 1..MaxNodes
      /\ \A a, b \in 1..k : p[a].id = p[b].id => a = b
  BY ShapedIs
<1>2. /\ i \in Around(p, k) /\ \A j \in 1..k : Stops(p[j], x) => j <= i
      /\ \A f \in Around(p, k) : p[f].kind = "function" => f \in Around(p, i)
  BY ReachesAround
<1>3. Stops(p[i], x)
  BY DEF Reaches
<1> HIDE DEF k
<1>4. i \in 1..k /\ i \in Nat /\ Around(p, k) \subseteq 1..k /\ \A j \in 1..k : j \in Nat
  BY <1>1 DEF k, Around
<1>5. Throw \notin 1..MaxNodes
  BY PairedCallsAssumption DEF Throw
<1>6. \A j \in 1..k : p[j].id # Throw
  BY <1>1, <1>5
<1>7. LeavesFunction(p, k, x) => LeavesFunction(p, i, x) /\ (p[i].kind # "function" => x.to # p[i].id)
  <2> SUFFICES ASSUME LeavesFunction(p, k, x)
               PROVE  LeavesFunction(p, i, x) /\ (p[i].kind # "function" => x.to # p[i].id)
    OBVIOUS
  <2>1. CASE x.to = Throw
    BY <2>1, <1>4, <1>6 DEF LeavesFunction
  <2>2. CASE x.to # Throw
    <3>1. PICK f \in Around(p, k) : p[f].kind = "function" /\ x.to = p[f].id
      BY <2>2 DEF LeavesFunction
    <3>2. f \in Around(p, i)
      BY <1>2, <3>1
    <3>3. p[i].kind # "function" => p[f].id # p[i].id
      BY <3>1, <1>1, <1>4
    <3> QED BY <3>1, <3>2, <3>3 DEF LeavesFunction
  <2> QED BY <2>1, <2>2
<1>8. ASSUME NEW q \in Around(p, k), p[q].kind = "loop", x.to = p[q].id
      PROVE  /\ q <= i /\ p[i].kind # "function" /\ x.to # Throw /\ q \in Around(p, i)
             /\ p[i].kind # "loop" => x.to # p[i].id
             /\ p[i].kind = "try" => q \in Around(p, i) \ {i} /\ q \in Around(p, i - 1)
  <2>1. q \in 1..k /\ p[q].depth = p[k].depth /\ p[i].depth = p[k].depth
    BY <1>2 DEF Around
  <2>2. q <= i
    BY <1>2, <1>8, <2>1 DEF Stops
  <2>3. q # i => q < i
    BY <2>1, <2>2, <1>4
  <2>4. p[i].kind # "function"
    <3>1. q < i => Before(p[q], p[i])
      BY <2>1, <1>4 DEF Shaped, k
    <3>2. p[q].depth \in Nat
      BY <2>1, <1>1 DEF SyntaxNode
    <3>3. p[i].kind = "function" => q < i
      BY <2>3, <1>8
    <3> QED BY <3>1, <3>2, <3>3, <2>1 DEF Before
  <2>5. p[i].kind # "loop" => x.to # p[i].id
    BY <2>1, <1>1, <1>4, <1>8
  <2>6. q \in Around(p, i)
    BY <2>1, <2>2, <1>4 DEF Around
  <2>7. p[i].kind = "try" => q \in Around(p, i) \ {i} /\ q \in Around(p, i - 1)
    <3> HAVE p[i].kind = "try"
    <3>1. q < i /\ q # i /\ q \in 1..i - 1
      BY <2>1, <2>3, <1>4, <1>8
    <3>2. NodePlace(p, i)
      BY <1>4 DEF Shaped, k
    <3>3. p[i].depth = p[i - 1].depth
      BY <3>2 DEF NodePlace
    <3> QED BY <2>1, <2>6, <3>1, <3>3 DEF Around
  <2> QED BY <2>1, <2>2, <2>4, <2>5, <2>6, <2>7, <1>6, <1>8
<1>9. \/ LeavesFunction(p, k, x) /\ x.open = {}
      \/ \E q \in Around(p, k) : p[q].kind = "loop" /\ x.to = p[q].id /\ x.open \subseteq p[q].stack
  BY DEF Departs, k
<1>10. p[i] \in SyntaxNode /\ p[i].kind \in Kinds
  BY <1>1, <1>4 DEF SyntaxNode
<1>11. CASE LeavesFunction(p, k, x) /\ x.open = {}
  <2>1. LeavesFunction(p, i, x) /\ (p[i].kind # "function" => x.to # p[i].id)
    BY <1>7, <1>11
  <2>2. p[i].kind \in {"function", "try"}
    BY <2>1, <1>3 DEF Stops, Catches
  <2>3. p[i].kind = "try" /\ ~ Catches(p[i], x) => p[i].finally
    BY <2>1, <1>3 DEF Stops
  <2> QED BY <2>1, <2>2, <2>3, <1>11 DEF Outwards
<1>12. CASE \E q \in Around(p, k) : p[q].kind = "loop" /\ x.to = p[q].id /\ x.open \subseteq p[q].stack
  <2>1. PICK q \in Around(p, k) : p[q].kind = "loop" /\ x.to = p[q].id /\ x.open \subseteq p[q].stack
    BY <1>12
  <2>2. /\ q <= i /\ p[i].kind # "function" /\ x.to # Throw /\ q \in Around(p, i)
        /\ p[i].kind # "loop" => x.to # p[i].id
        /\ p[i].kind = "try" => q \in Around(p, i) \ {i} /\ q \in Around(p, i - 1)
    BY <1>8, <2>1
  <2>3. p[i].kind \in {"loop", "try"} /\ ~ Catches(p[i], x)
    BY <2>2, <1>3 DEF Stops, Catches
  <2>4. p[i].kind = "loop" => p[i].id = x.to
    BY <2>2, <1>3 DEF Stops, Catches
  <2>5. p[i].kind = "loop" => q = i
    BY <2>1, <2>4, <1>1, <1>4
  <2>6. p[i].kind = "try" => p[i].finally
    BY <2>2, <2>3, <1>3 DEF Stops
  <2>7. p[i].kind = "try" => x.open \subseteq p[i].stack
    BY <2>1, <2>2 DEF Kept
  <2> QED BY <2>1, <2>2, <2>3, <2>4, <2>5, <2>6, <2>7 DEF Outwards
<1> QED BY <1>9, <1>11, <1>12

(* What a jump brings to a node fits there.                                *)
LEMMA JumpFits ==
  ASSUME NEW p, Shaped(p), NEW zs \in SUBSET Executions, NEW i \in 1..Len(p), NEW l, NEW bs,
         Arriving(p, zs, i) # {} => Departing(p, zs, l),
         Silent(l) /\ p[i].kind = "try" => Kept(p, i - 1, p[i].stack)
  PROVE  /\ Fitting(p, i, bs, Moved(p, zs, i), Landed(p, zs, i), Lost(p, zs, i), l)
         /\ Silent(l) /\ p[i].kind = "switch" => Moved(p, zs, i) = {}
<1>1. p[i] \in SyntaxNode /\ NodeShape(p[i])
  BY ShapedIs DEF Shaped
<1>2. Arriving(p, zs, i) \in SUBSET zs
  BY DEF Arriving
<1>3. ASSUME NEW x \in Arriving(p, zs, i), Silent(l)
      PROVE  /\ x \in Executions
             /\ p[i].kind \in {"function", "loop", "try"}
             /\ p[i].kind = "function" => x.open = {}
             /\ p[i].kind = "loop" => x.to = p[i].id /\ x.open \subseteq p[i].stack
             /\ p[i].kind = "try" /\ Catches(p[i], x) => x.open = {}
             /\ p[i].kind = "try" /\ ~ Catches(p[i], x) =>
                  x.to # p[i].id /\ p[i].finally /\ x.open \subseteq p[i].stack /\ Outwards(p, i, x)
  <2>1. Reaches(p, x, i) /\ x \in zs
    BY DEF Arriving
  <2>2. Departs(p, x)
    BY <1>3, <2>1 DEF Departing
  <2> QED BY <1>3, <2>1, <2>2, DepartsArrives
<1>4. ASSUME NEW y \in Moved(p, zs, i)
      PROVE  \E x \in Arriving(p, zs, i) :
               /\ p[i].kind # "function" /\ ~ Catches(p[i], x) /\ x \in Executions
               /\ y.open = x.open /\ y.to = IF x.to = p[i].id THEN Here ELSE x.to
  <2>1. PICK x \in Going(p, zs, i) : y = [x EXCEPT !.to = IF @ = p[i].id THEN Here ELSE @]
    BY DEF Moved
  <2>2. x \in Arriving(p, zs, i) /\ p[i].kind # "function" /\ ~ Catches(p[i], x)
    BY DEF Going
  <2>3. x \in Executions
    BY <1>2, <2>2
  <2>4. y.open = x.open /\ y.to = IF x.to = p[i].id THEN Here ELSE x.to
    BY <2>1, <2>3 DEF Executions
  <2> QED BY <2>2, <2>3, <2>4
<1>5. ASSUME NEW y \in Landed(p, zs, i)
      PROVE  \E x \in Arriving(p, zs, i) : Catches(p[i], x) /\ y.open = x.open /\ y.to = Here
  <2>1. PICK x \in Caught(p, zs, i) : y = [x EXCEPT !.to = Here]
    BY DEF Landed
  <2>2. x \in Arriving(p, zs, i) /\ Catches(p[i], x)
    BY DEF Caught
  <2>3. x \in Executions
    BY <1>2, <2>2
  <2>4. y.open = x.open /\ y.to = Here
    BY <2>1, <2>3 DEF Executions
  <2> QED BY <2>2, <2>4
<1>6. ASSUME Silent(l), NEW y \in Moved(p, zs, i)
      PROVE  OutFit(p, i, bs, y) /\ p[i].kind # "switch"
  <2>1. PICK x \in Arriving(p, zs, i) :
               /\ p[i].kind # "function" /\ ~ Catches(p[i], x) /\ x \in Executions
               /\ y.open = x.open /\ y.to = IF x.to = p[i].id THEN Here ELSE x.to
    BY <1>4
  <2>2. /\ p[i].kind \in {"loop", "try"}
        /\ p[i].kind = "loop" => x.to = p[i].id /\ x.open \subseteq p[i].stack
        /\ p[i].kind = "try" =>
                  x.to # p[i].id /\ p[i].finally /\ x.open \subseteq p[i].stack /\ Outwards(p, i, x)
    BY <1>3, <1>6, <2>1
  <2>3. p[i].kind = "loop" => p[i].part = "body"
    BY <1>1 DEF NodeShape, PartsOf
  <2>4. p[i].kind = "try" => p[i].part \in {"block", "catch", "finally"}
    BY <1>1 DEF NodeShape, PartsOf
  <2>5. CASE p[i].kind = "loop"
    BY <2>1, <2>2, <2>3, <2>5 DEF OutFit
  <2>6. CASE p[i].kind = "try"
    <3>1. y.to = x.to /\ y.open \cap p[i].stack \subseteq x.open
      BY <2>1, <2>2, <2>6
    <3>2. Outwards(p, i, y)
      BY <2>2, <2>6, <3>1, OutwardsLess
    <3> QED BY <2>1, <2>2, <2>4, <2>6, <3>1, <3>2 DEF OutFit
  <2> QED BY <2>2, <2>5, <2>6
<1>7. ASSUME Silent(l), NEW y \in Landed(p, zs, i)
      PROVE  ThrownFit(p[i], y)
  <2>1. PICK x \in Arriving(p, zs, i) : Catches(p[i], x) /\ y.open = x.open /\ y.to = Here
    BY <1>5
  <2>2. x.open = {}
    BY <1>3, <1>7, <2>1 DEF Catches
  <2> QED BY <2>1, <2>2 DEF ThrownFit
<1>8. ASSUME Silent(l), p[i].kind = "function"
      PROVE  ~ Lost(p, zs, i)
  BY <1>3, <1>8 DEF Lost
<1>9. ASSUME Tame(l)
      PROVE  Moved(p, zs, i) = {} /\ Landed(p, zs, i) = {}
  <2>1. Arriving(p, zs, i) = {}
    BY <1>2, <1>9 DEF Departing
  <2> QED BY <2>1, <1>4, <1>5
<1>10. Fitting(p, i, bs, Moved(p, zs, i), Landed(p, zs, i), Lost(p, zs, i), l)
  BY <1>6, <1>7, <1>8, <1>9 DEF Fitting, Stay
<1> QED BY <1>6, <1>10

(* A path that executions zs leave: what is said of its nodes stays true.  *)
Departed(p, zs, q, a, b) ==
  /\ Shaped(p) /\ zs \in SUBSET Executions /\ Jumped(p, zs, q)
  /\ Departing(p, zs, b[p[Len(p)].depth])
  /\ \A i \in 1..Len(p) : a[p[i].depth] \subseteq b[p[i].depth]
LEMMA DepartedNode ==
  ASSUME NEW p, NEW zs, NEW q, NEW a, NEW b, Departed(p, zs, q, a, b), NEW brs, SavedFlow(p, brs, a), NEW i \in 1..Len(p)
  PROVE  /\ Near(p, q, i) /\ q[i].depth = p[i].depth /\ q[i].id = p[i].id /\ a[p[i].depth] \subseteq b[p[i].depth]
         /\ Alike(p[i], q[i]) /\ SamePart(p[i], q[i])
         /\ Grown(p[i], q[i], Moved(p, zs, i), Landed(p, zs, i), Lost(p, zs, i))
         /\ Fitting(p, i, BranchesAt(brs, p[i].id), Moved(p, zs, i), Landed(p, zs, i), Lost(p, zs, i), b[p[i].depth])
         /\ Silent(b[p[i].depth]) /\ p[i].kind = "switch" => Moved(p, zs, i) = {}
         /\ Tame(b[p[i].depth]) => Moved(p, zs, i) = {}
<1> DEFINE l == b[p[i].depth]
<1>1. /\ Shaped(p) /\ zs \in SUBSET Executions /\ Jumped(p, zs, q)
      /\ Departing(p, zs, b[p[Len(p)].depth]) /\ a[p[i].depth] \subseteq l
  BY DEF Departed
<1>2. /\ Len(p) \in Nat /\ i \in Nat \ {0} /\ \A j \in 1..i : j \in 1..Len(p)
  <2>1. Len(p) \in Nat
    BY <1>1, ShapedIs
  <2> QED BY <2>1
<1>3. \A j \in 1..Len(p) : Alike(p[j], q[j]) /\ SamePart(p[j], q[j])
  BY <1>1 DEF Jumped, Follows
<1>4. Near(p, q, i)
  BY <1>2, <1>3 DEF Near, SamePart
<1>5. Grown(p[i], q[i], Moved(p, zs, i), Landed(p, zs, i), Lost(p, zs, i))
  <2>1. /\ SamePart(p[i], q[i]) /\ q[i].leaks = (p[i].leaks \/ Lost(p, zs, i))
        /\ q[i].out = p[i].out \cup Moved(p, zs, i) /\ q[i].thrown = p[i].thrown \cup Landed(p, zs, i)
    BY <1>1 DEF Jumped
  <2>2. p[i].leaks \in BOOLEAN /\ Lost(p, zs, i) \in BOOLEAN
    BY <1>1, ShapedIs, JumpsTyped DEF SyntaxNode
  <2> QED BY <2>1, <2>2 DEF Grown, SamePart
<1>6. Arriving(p, zs, i) # {} => Departing(p, zs, l)
  <2> SUFFICES ASSUME Arriving(p, zs, i) # {}
               PROVE  Departing(p, zs, l)
    OBVIOUS
  <2>1. PICK x : Reaches(p, x, i)
    BY DEF Arriving
  <2>2. i \in Around(p, Len(p))
    BY <1>1, <2>1, ReachesAround
  <2>3. p[i].depth = p[Len(p)].depth
    BY <2>2 DEF Around
  <2> QED BY <1>1, <2>3
<1>7. Silent(l) /\ p[i].kind = "try" => Kept(p, i - 1, p[i].stack)
  <2> SUFFICES ASSUME Silent(l), p[i].kind = "try"
               PROVE  Kept(p, i - 1, p[i].stack)
    OBVIOUS
  <2>1. NodePlace(p, i)
    BY <1>1 DEF Shaped
  <2>2. i > 1 /\ p[i].depth = p[i - 1].depth /\ i - 1 \in 1..Len(p) /\ i = (i - 1) + 1
    BY <1>2, <2>1 DEF NodePlace
  <2>3. SavedInv(p, i - 1, p[i], BranchesAt(brs, p[i - 1].id), a[p[i].depth])
    BY <2>2 DEF SavedFlow
  <2>4. Silent(a[p[i].depth])
    BY <1>1, MarksGrow
  <2> QED BY <2>3, <2>4 DEF SavedInv, PlaceInv
<1>8. /\ Fitting(p, i, BranchesAt(brs, p[i].id), Moved(p, zs, i), Landed(p, zs, i), Lost(p, zs, i), l)
      /\ Silent(l) /\ p[i].kind = "switch" => Moved(p, zs, i) = {}
  <2> HIDE DEF l
  <2> QED BY <1>1, <1>6, <1>7, JumpFits
<1>9. Tame(l) => Moved(p, zs, i) = {}
  <2> SUFFICES ASSUME Tame(l)
               PROVE  Moved(p, zs, i) = {}
    OBVIOUS
  <2>1. Arriving(p, zs, i) = {}
    BY <1>6 DEF Departing, Arriving
  <2> QED BY <2>1 DEF Moved, Going
<1> QED BY <1>1, <1>3, <1>4, <1>5, <1>8, <1>9 DEF Alike
LEMMA DepartedFlows ==
  ASSUME NEW p, NEW zs, NEW q, NEW a, NEW b, Departed(p, zs, q, a, b), NEW brs,
         NodesFlow(p, brs, a), SavedFlow(p, brs, a)
  PROVE  NodesFlow(q, brs, b) /\ SavedFlow(q, brs, b)
<1>1. Len(q) = Len(p)
  BY DEF Departed, Jumped, Follows
<1>2. ASSUME NEW i \in 1..Len(p)
      PROVE  NodeInv(q, i, BranchesAt(brs, q[i].id), b[q[i].depth])
  <2> DEFINE bs == BranchesAt(brs, p[i].id)
             m == a[p[i].depth]
             l == b[p[i].depth]
             xs == Moved(p, zs, i)
             ts == Landed(p, zs, i)
             c == Lost(p, zs, i)
  <2>1. /\ Near(p, q, i) /\ q[i].depth = p[i].depth /\ q[i].id = p[i].id /\ m \subseteq l
        /\ Grown(p[i], q[i], xs, ts, c) /\ Fitting(p, i, bs, xs, ts, c, l)
    BY DepartedNode
  <2>2. NodeInv(p, i, bs, m)
    BY DEF NodesFlow
  <2> HIDE DEF bs, m, l, xs, ts, c
  <2>3. NodeInv(q, i, bs, l)
    BY <2>1, <2>2, NodeGrows
  <2> QED BY <2>1, <2>3 DEF bs, l
<1>3. ASSUME NEW i \in 1..Len(p), NEW j \in 1..Len(p), j = i + 1
      PROVE  SavedInv(q, i, q[j], BranchesAt(brs, q[i].id), b[q[i].depth])
  <2> DEFINE bs == BranchesAt(brs, p[i].id)
             m == a[p[i].depth]
             l == b[p[i].depth]
             xs == Moved(p, zs, i)
  <2>1. /\ Near(p, q, i) /\ q[i].depth = p[i].depth /\ q[i].id = p[i].id /\ m \subseteq l
        /\ q[i].out = p[i].out \cup xs
        /\ Silent(l) /\ p[i].kind = "switch" => xs = {}
    BY DepartedNode DEF Grown
  <2>2. SavedInv(p, i, p[j], bs, m)
    BY <1>3 DEF SavedFlow
  <2>3. Alike(p[j], q[j])
    BY DepartedNode
  <2> HIDE DEF bs, m, l, xs
  <2>4. SavedInv(q, i, q[j], bs, l)
    BY <2>1, <2>2, <2>3, SavedGrows
  <2> QED BY <2>1, <2>4 DEF bs, l
<1> QED BY <1>1, <1>2, <1>3 DEF NodesFlow, SavedFlow

-----------------------------------------------------------------------------
(* The jumps.                                                              *)
LEMMA PathShaped ==
  ASSUME WalkInv, path # <<>>
  PROVE  Shaped(path)
<1>1. path \in Seq(SyntaxNode) /\ Syntax(path, Place, nodes)
  BY DEF WalkInv, Typed, Walk
<1> QED BY <1>1 DEF Shaped, Syntax
LEMMA JumpFlows ==
  ASSUME WalkInv, FlowInv, NEW to \in 0..Throw, NEW ms \in SUBSET Unleaked, Jumping(to, ms), "beyond" \in ms,
         Silent(account'[Place]) => \A x \in Towards(to) : Departs(path, x)
  PROVE  FlowInv'
<1> DEFINE k == Len(path)
           brs == branchStacks
           zs == Towards(to)
           s == openerStack
           m == account[Place]
           l == account'[Place]
           none == {}
<1>1. path # <<>> /\ live # {} /\ live' = none /\ openerStack' = s /\ branchStacks' = brs
  BY DEF Jumping, InCode, stacks, maps
<1>2. WalkInv' /\ Jumped(path, zs, path') /\ Marked(ms)
  BY JumpingWalks
<1>3. Shaped(path) /\ zs \in SUBSET Executions
  BY <1>1, PathShaped, TowardsTyped
<1>4. /\ k \in Nat \ {0} /\ k \in 1..k /\ path[k].depth = Place
  BY <1>1, PlaceKnown
<1>5. /\ l = m \cup ms /\ m \subseteq l
      /\ \A i \in 1..k : account[path[i].depth] \subseteq account'[path[i].depth]
  BY <1>1, <1>2, MarksKnown
<1>6. ~ Tame(l)
  BY <1>5 DEF Tame
<1>7. Departing(path, zs, l)
  BY <1>6 DEF Departing
<1>8. Departed(path, zs, path', account, account')
  <2>1. account'[path[Len(path)].depth] = l
    BY <1>4
  <2>2. Departing(path, zs, account'[path[Len(path)].depth])
    BY <1>7, <2>1
  <2>3. \A i \in 1..Len(path) : account[path[i].depth] \subseteq account'[path[i].depth]
    BY <1>5
  <2> QED BY Zenon, <1>2, <1>3, <2>2, <2>3 DEF Departed
<1>9. /\ NodesFlow(path, brs, account) /\ SavedFlow(path, brs, account)
      /\ PlaceInv(path, k, live, s, m) /\ TopInv(path[k], BranchesAt(brs, path[k].id), live, s, m)
  BY <1>1, FlowKnown, Zenon DEF Top
<1> HIDE DEF k, brs, zs, s, m, l, none
<1>10. NodesFlow(path', brs, account') /\ SavedFlow(path', brs, account')
  BY <1>8, <1>9, DepartedFlows
<1>11. /\ Near(path, path', k) /\ path'[k].depth = Place /\ path'[k].id = path[k].id
       /\ Alike(path[k], path'[k]) /\ SamePart(path[k], path'[k])
       /\ path'[k].out = path[k].out \cup Moved(path, zs, k)
       /\ Silent(l) /\ path[k].kind = "switch" => Moved(path, zs, k) = {}
  BY <1>4, <1>8, <1>9, DepartedNode DEF Grown, l, k
<1>12. PlaceInv(path', k, none, s, l)
  <2>1. none \in SUBSET live
    BY DEF none
  <2>2. PlaceInv(path, k, none, s, m)
    BY <2>1, <1>9, PlaceFewer
  <2> QED BY <2>2, <1>5, <1>11, PlaceNear
<1>13. TopInv(path'[k], BranchesAt(brs, path[k].id), none, s, l)
  <2>1. Silent(l) => Silent(m)
    BY <1>5, MarksGrow
  <2>2. ASSUME Silent(l), path'[k].kind = "switch", NEW x \in path'[k].out
        PROVE  InBranch(x, BranchesAt(brs, path[k].id))
    <3>1. path[k].kind = "switch" /\ x \in path[k].out
      BY <1>11, <2>2 DEF Alike
    <3> QED BY <1>1, <1>9, <2>1, <2>2, <3>1 DEF TopInv
  <2> QED BY <1>6, <2>2 DEF TopInv, none
<1>14. Len(path') = k
  BY <1>2 DEF Jumped, Follows, k
<1>15. TopFlow(path', brs, account', none, s)
  BY <1>11, <1>12, <1>13, <1>14 DEF TopFlow, l
<1> QED BY <1>1, <1>10, <1>15 DEF FlowInv
LEMMA SilentFits ==
  ASSUME WalkInv, FlowInv, path # <<>>, NEW ms, Marked(ms), Silent(account'[Place])
  PROVE  /\ Silent(account[Place]) /\ Traced(path, Len(path), openerStack)
         /\ \A x \in live : x.open \subseteq openerStack
         /\ "warned" \notin ms /\ "irregular" \notin ms
<1>1. account'[Place] = account[Place] \cup ms /\ account[Place] \subseteq account'[Place]
  BY MarksKnown
<1>2. Silent(account[Place])
  BY <1>1, MarksGrow
<1>3. PlaceInv(path, Len(path), live, openerStack, account[Place])
  BY FlowKnown
<1> QED BY <1>1, <1>2, <1>3 DEF PlaceInv, Fits, Silent, Regular
LEMMA EarlyFlows ==
  ASSUME WalkInv, FlowInv, NEW to \in 0..Throw, Jumping(to, EarlyMarks), EarlyMarks \in SUBSET Unleaked,
         to = Throw \/ \E f \in Around(path, Len(path)) : path[f].kind = "function" /\ to = path[f].id
  PROVE  FlowInv'
<1>1. path # <<>>
  BY DEF Jumping, InCode
<1>2. Marked(EarlyMarks)
  BY JumpingWalks
<1>3. ASSUME Silent(account'[Place]), NEW y \in Towards(to)
      PROVE  Departs(path, y)
  <2>1. (\A x \in live : x.open \subseteq openerStack) /\ "warned" \notin EarlyMarks /\ "irregular" \notin EarlyMarks
    BY <1>1, <1>2, <1>3, SilentFits
  <2>2. openerStack = {}
    BY <2>1 DEF EarlyMarks
  <2>3. y.to = to /\ \E x \in live : y.open = x.open
    BY TowardsTyped
  <2>4. y.open = {}
    BY <2>1, <2>2, <2>3
  <2> QED BY <2>3, <2>4 DEF Departs, LeavesFunction
<1>4. "beyond" \in EarlyMarks
  BY DEF EarlyMarks
<1> QED BY <1>3, <1>4, JumpFlows
LEMMA ReturnFlows == ASSUME WalkInv, FlowInv, Return PROVE FlowInv'
<1>1. PICK f \in Around(path, Len(path)) :
           /\ path[f].kind = "function" /\ f \in 1..Len(path) /\ path[f].id \in 0..Throw
           /\ Jumping(path[f].id, EarlyMarks)
  BY ReturnJumps
<1>2. EarlyMarks \in SUBSET Unleaked
  BY EarlyExitJumps DEF Return
<1> QED BY <1>1, <1>2, EarlyFlows
LEMMA ThrowFlows == ASSUME WalkInv, FlowInv, ThrowStatement PROVE FlowInv'
<1>1. Throw \in 0..Throw /\ Jumping(Throw, EarlyMarks)
  BY ThrowJumps
<1>2. EarlyMarks \in SUBSET Unleaked
  BY EarlyExitJumps DEF ThrowStatement
<1> QED BY <1>1, <1>2, EarlyFlows
LEMMA BreakContinueFlows == ASSUME WalkInv, FlowInv, NEW i, BreakContinue(i) PROVE FlowInv'
<1>1. /\ i \in Around(path, Len(path)) /\ i \in 1..Len(path) /\ path[i].kind = "loop" /\ path[i].id \in 0..Throw
      /\ LoopMarks(i) \in SUBSET Unleaked /\ Jumping(path[i].id, LoopMarks(i))
  BY BreakContinueJumps
<1>2. path # <<>>
  BY <1>1 DEF Jumping, InCode
<1>3. Marked(LoopMarks(i))
  BY <1>1, JumpingWalks
<1>4. ASSUME Silent(account'[Place]), NEW y \in Towards(path[i].id)
      PROVE  Departs(path, y)
  <2>1. /\ Traced(path, Len(path), openerStack) /\ \A x \in live : x.open \subseteq openerStack
        /\ "warned" \notin LoopMarks(i)
    BY <1>2, <1>3, <1>4, SilentFits
  <2>2. \A c \in openerStack : path[i].id \notin c.loops
    BY <2>1 DEF LoopMarks, If
  <2>3. openerStack \subseteq path[i].stack
    BY <1>1, <2>1, <2>2 DEF Traced
  <2>4. y.to = path[i].id /\ \E x \in live : y.open = x.open
    BY <1>1, TowardsTyped
  <2>5. y.open \subseteq path[i].stack
    BY <2>1, <2>3, <2>4
  <2> QED BY <1>1, <2>4, <2>5 DEF Departs
<1>5. "beyond" \in LoopMarks(i)
  BY DEF LoopMarks
<1> QED BY <1>1, <1>4, <1>5, JumpFlows

LEMMA BreakTopFlows ==
  ASSUME WalkInv, FlowInv, Jumping(Top.id, {}), Top.kind = "switch", Top.id \in 0..Throw
  PROVE  FlowInv'
<1> DEFINE k == Len(path)
           brs == branchStacks
           zs == Towards(Top.id)
           s == openerStack
           m == account[Place]
           l == account'[Place]
           bs == BranchesAt(branchStacks, Top.id)
           xs == Moved(path, zs, k)
           none == {}
<1>1. path # <<>> /\ Top.part # "between" /\ live # {} /\ live' = none /\ openerStack' = s /\ branchStacks' = brs
  BY DEF Jumping, InCode, stacks, maps
<1>2. WalkInv' /\ Jumped(path, zs, path') /\ Marked({})
  <2>1. {} \in SUBSET Unleaked
    OBVIOUS
  <2> QED BY <2>1, JumpingWalks
<1>3. Shaped(path) /\ zs \in SUBSET Executions
  BY <1>1, PathShaped, TowardsTyped
<1>4. /\ k \in Nat \ {0} /\ k \in Nat /\ k \in 1..k /\ path[k].depth = Place /\ path[k] = Top /\ NodeShape(path[k])
      /\ path[k] \in SyntaxNode
  BY <1>1, PlaceKnown DEF Top
<1>5. /\ l = m /\ \A i \in 1..k : account[path[i].depth] \subseteq account'[path[i].depth]
  <2> DEFINE no == {}
  <2>1. Marked(no)
    BY <1>2
  <2> HIDE DEF no
  <2>2. account'[Place] = account[Place] \cup no /\ \A i \in 1..k : account[path[i].depth] \subseteq account'[path[i].depth]
    BY <1>1, <2>1, MarksKnown
  <2> QED BY <2>2 DEF no
<1>6. /\ NodesFlow(path, brs, account) /\ SavedFlow(path, brs, account)
      /\ PlaceInv(path, k, live, s, m) /\ TopInv(path[k], bs, live, s, m) /\ NodeInv(path, k, bs, m)
  BY <1>1, FlowKnown, Zenon DEF Top
<1>7. \A x \in zs : x \in Executions /\ x.to = path[k].id
  BY <1>3, <1>4, TowardsTyped
<1>8. \A x \in live : \E y \in zs : y.open = x.open
  BY <1>4, TowardsTyped
<1>9. \A y \in zs : \E x \in live : y.open = x.open
  BY <1>4, TowardsTyped
<1>10. Len(path') = k /\ \A i \in 1..k : Alike(path[i], path'[i]) /\ SamePart(path[i], path'[i])
  BY <1>2 DEF Jumped, Follows
<1>11. /\ path'[k].leaks = (path[k].leaks \/ Lost(path, zs, k))
       /\ path'[k].out = path[k].out \cup xs /\ path'[k].thrown = path[k].thrown \cup Landed(path, zs, k)
  BY <1>2, <1>4 DEF Jumped
<1> HIDE DEF k, brs, s, m, l, bs, none
<1>12. \A x \in zs : Reaches(path, x, k)
  <2>1. \A j \in k + 1..Len(path) : FALSE
    BY <1>4 DEF k
  <2> QED BY <1>7, <2>1 DEF Reaches, Stops
<1>13. \A x \in zs : x \in Going(path, zs, k)
  BY <1>4, <1>12 DEF Going, Arriving, Catches
<1> HIDE DEF zs
<1>14. Landed(path, zs, k) = {} /\ ~ Lost(path, zs, k)
  BY <1>4 DEF Landed, Caught, Catches, Lost
<1>15. ASSUME NEW i \in 1..k, i < k
       PROVE  Same(path[i], path'[i])
  <2>1. \A x \in zs : ~ Reaches(path, x, i)
    BY <1>4, <1>7, <1>15, StopsAtTop DEF Stops, k
  <2>2. Arriving(path, zs, i) = {}
    BY <2>1 DEF Arriving
  <2> QED BY <1>2, <2>2, JumpedSame DEF k
<1>16. \A y \in xs : y.to = Here /\ \E x \in live : y.open = x.open
  <2> SUFFICES ASSUME NEW y \in xs
               PROVE  y.to = Here /\ \E x \in live : y.open = x.open
    OBVIOUS
  <2>1. PICK x \in Going(path, zs, k) : y = [x EXCEPT !.to = IF @ = path[k].id THEN Here ELSE @]
    BY DEF Moved
  <2>2. x \in zs
    BY DEF Going, Arriving
  <2>3. x \in Executions /\ x.to = path[k].id
    BY <1>7, <2>2
  <2>4. y.to = Here /\ y.open = x.open
    BY <2>1, <2>3 DEF Executions
  <2> QED BY <1>9, <2>2, <2>4
<1>17. \A x \in live : \E y \in xs : y.open = x.open
  <2> SUFFICES ASSUME NEW x \in live
               PROVE  \E y \in xs : y.open = x.open
    OBVIOUS
  <2>1. PICK z \in zs : z.open = x.open
    BY <1>8
  <2>2. z \in Going(path, zs, k) /\ z \in Executions
    BY <1>7, <1>13
  <2>3. [z EXCEPT !.to = IF @ = path[k].id THEN Here ELSE @] \in xs
    BY <2>2 DEF Moved
  <2>4. [z EXCEPT !.to = IF @ = path[k].id THEN Here ELSE @].open = z.open
    BY <2>2 DEF Executions
  <2> QED BY <2>1, <2>3, <2>4
<1> HIDE DEF xs
<1>18. path[k].kind = "switch" /\ path[k].part = "case" /\ path'[k].kind = "switch" /\ path'[k].part = "case"
  BY <1>1, <1>4, <1>10 DEF NodeShape, PartsOf, Alike, SamePart
<1>19. Near(path, path', k)
  BY <1>4, <1>10 DEF Near, SamePart
<1>20. NodeInv(path', k, bs, l)
  <2> DEFINE none2 == {}
             c == FALSE
  <2>1. path[k].leaks \in BOOLEAN
    BY <1>4 DEF SyntaxNode
  <2>2. Grown(path[k], path'[k], xs, none2, c)
    BY <1>11, <1>14, <1>18, <2>1 DEF Grown
  <2>3. \A y \in xs : OutFit(path, k, bs, y)
    BY <1>16, <1>18 DEF OutFit
  <2>4. Fitting(path, k, bs, xs, none2, c, l)
    BY <1>16, <2>3 DEF Fitting, Stay
  <2>5. m \subseteq l
    BY <1>5
  <2> HIDE DEF none2, c
  <2> QED BY <1>6, <1>19, <2>2, <2>4, <2>5, NodeGrows
<1>21. PlaceInv(path', k, none, s, l)
  <2>1. none \in SUBSET live
    BY DEF none
  <2>2. PlaceInv(path, k, none, s, m)
    BY <2>1, <1>6, PlaceFewer
  <2>3. m \subseteq l
    BY <1>5
  <2> QED BY <2>2, <2>3, <1>19, PlaceNear
<1>22. TopInv(path'[k], bs, none, s, l)
  <2>1. ASSUME Silent(l), NEW x \in path'[k].out
        PROVE  InBranch(x, bs) \/ x.open \subseteq s
    <3>1. x \in path[k].out \/ x \in xs
      BY <1>11
    <3>2. x \in path[k].out => InBranch(x, bs)
      BY <1>1, <1>5, <1>6, <1>18, <2>1 DEF TopInv
    <3>3. x \in xs => x.open \subseteq s
      BY <1>5, <1>6, <1>16, <2>1 DEF PlaceInv, Fits
    <3> QED BY <3>1, <3>2, <3>3
  <2>2. ASSUME Tame(l)
        PROVE  Level(path'[k].out, s)
    <3>1. Level(live, s)
      BY <1>1, <1>5, <1>6, <1>18, <2>2 DEF TopInv
    <3>2. Level(xs, s)
      BY <3>1, <1>17 DEF Level, Over, Under
    <3> QED BY <3>2, <1>11, LevelMore
  <2> QED BY <2>1, <2>2, <1>18 DEF TopInv, none
<1>23. path'[k].depth = Place /\ path'[k].id = path[k].id
  BY <1>4, <1>10 DEF Alike
<1>29. Len(path') = k /\ bs = BranchesAt(brs, path'[k].id) /\ l = account'[path'[k].depth]
  BY <1>4, <1>10, <1>23 DEF bs, brs, l
<1>24. FlowTop(path', brs, account', none, s)
  BY <1>21, <1>22, <1>29 DEF FlowTop
<1>25. Alongside(path, path', k - 1, brs, brs, account, account')
  <2>1. \A i \in 1..k - 1 : i \in 1..k /\ i < k
    BY <1>4
  <2>2. k - 1 \in Nat /\ k - 1 <= Len(path) /\ Len(path) \in Nat
    BY <1>4 DEF k
  <2> QED BY <1>5, <1>15, <2>1, <2>2 DEF Alongside
<1>26. NodeInv(path', Len(path'), BranchesAt(brs, path'[Len(path')].id), account'[path'[Len(path')].depth])
  BY <1>20, <1>29
<1>27. Alike(path[k], path'[k])
  BY <1>4, <1>10
<1>28. NodesFlow(path', brs, account') /\ SavedFlow(path', brs, account') /\ TopFlow(path', brs, account', none, s)
  BY <1>4, <1>6, <1>10, <1>24, <1>25, <1>26, <1>27, FlowTurn DEF k
<1> QED BY <1>1, <1>28 DEF FlowInv
LEMMA BreakSwitchFlows == ASSUME WalkInv, FlowInv, NEW i, BreakSwitch(i) PROVE FlowInv'
<1>1. /\ i \in Around(path, Len(path)) /\ i \in 1..Len(path) /\ path[i].kind = "switch" /\ path[i].id \in 0..Throw
      /\ SwitchMarks(i) \in SUBSET Unleaked /\ Jumping(path[i].id, SwitchMarks(i))
  BY BreakSwitchJumps
<1>2. CASE i = Len(path)
  BY <1>1, <1>2, BreakTopFlows DEF SwitchMarks, Top
<1>3. CASE i # Len(path)
  <2>1. path # <<>>
    BY <1>1 DEF Jumping, InCode
  <2>2. "irregular" \in SwitchMarks(i) /\ "beyond" \in SwitchMarks(i)
    BY <1>3 DEF SwitchMarks
  <2>3. Marked(SwitchMarks(i))
    BY <1>1, JumpingWalks
  <2>4. account'[Place] = account[Place] \cup SwitchMarks(i)
    BY <2>1, <2>3, MarksKnown
  <2>5. ~ Silent(account'[Place])
    BY <2>2, <2>4 DEF Silent, Regular
  <2> QED BY <1>1, <2>2, <2>5, JumpFlows
<1> QED BY <1>2, <1>3

(* A finally block is left: the executions that were leaving go on.        *)
FinallyMarks == If(NewIn(openerStack, Top.stack), "irregular")
LEMMA ExitFinallyLeaves ==
  ASSUME WalkInv, ExitFinally
  PROVE  /\ path # <<>> /\ Top.kind = "try" /\ Top.kind \in Branching /\ Top.part = "finally" /\ Leaves(FinallyMarks)
         /\ openerStack' = openerStack /\ live' = {x \in live : x.to = Here}
         /\ account'[Place] = account[Place] \cup FinallyMarks /\ account[Place] \subseteq account'[Place]
<1>1. /\ path # <<>> /\ Top.part = "finally" /\ UNCHANGED openerStack /\ live' = {x \in live : x.to = Here}
      /\ Mark(If(NewIn(openerStack, stackSnapshots[Top.id]), "irregular")) /\ Settle(Top.id)
  BY DEF ExitFinally
<1>2. Top.kind = "try" /\ Top.kind \in Branching
  BY <1>1, PlaceKnown DEF NodeShape, PartsOf, Branching
<1>3. stackSnapshots[Top.id] = Top.stack
  BY <1>1, <1>2, OriginalIs
<1>4. Mark(FinallyMarks)
  BY <1>1, <1>3, Zenon DEF FinallyMarks
<1>5. FinallyMarks \in SUBSET Unleaked
  BY DEF FinallyMarks, If, Unleaked, Marks
<1> HIDE DEF FinallyMarks
<1>6. Marked(FinallyMarks)
  BY <1>1, <1>4, <1>5, Marking
<1>7. branchStacks' = MapWithout(Top, branchStacks)
  BY <1>1, <1>2 DEF Settle, MapWithout
<1>8. Leaves(FinallyMarks)
  BY <1>1, <1>2, <1>6, <1>7 DEF Leaves
<1>9. account'[Place] = account[Place] \cup FinallyMarks /\ account[Place] \subseteq account'[Place]
  BY <1>1, <1>6, MarksKnown
<1> QED BY <1>1, <1>2, <1>8, <1>9
LEMMA FrontShaped ==
  ASSUME WalkInv, path # <<>>, Top.kind # "function"
  PROVE  /\ Shaped(Front(path)) /\ Len(Front(path)) = Len(path) - 1
         /\ Around(Front(path), Len(path) - 1) = Around(path, Len(path)) \ {Len(path)}
         /\ Len(path) - 1 \in 1..Len(path) /\ Front(path)[Len(path) - 1].depth = Place
<1> DEFINE k == Len(path)
           q == Front(path)
<1>1. /\ path \in Seq(SyntaxNode) /\ Syntax(path, Place, nodes)
  BY DEF WalkInv, Typed, Walk
<1>2. /\ Len(path) \in Nat \ {0} /\ k \in Nat \ {0} /\ k \in Nat /\ NodePlace(path, k) /\ path[k].depth = Place
      /\ path[k].kind # "function"
  BY PlaceKnown DEF Top
<1>3. Len(q) = k - 1 /\ q \in Seq(SyntaxNode) /\ \A i \in 1..k - 1 : q[i] = path[i]
  BY <1>1, FrontIs
<1>4. k > 1 /\ path[k - 1].depth = path[k].depth
  BY <1>2 DEF NodePlace
<1>5. Syntax(q, Place, nodes)
  BY <1>1, <1>2, SyntaxPop
<1> HIDE DEF k, q
<1>6. q # <<>>
  <2>1. Len(q) # 0
    BY <1>2, <1>3, <1>4
  <2> QED BY <2>1
<1>7. Shaped(q)
  BY <1>3, <1>5, <1>6 DEF Shaped, Syntax
<1>8. k - 1 \in 1..k /\ q[k - 1].depth = Place /\ k - 1 \in 1..k - 1
  BY <1>2, <1>3, <1>4
<1>9. Around(q, k - 1) = Around(path, k) \ {k}
  <2>1. \A j \in 1..k - 1 : q[j].depth = path[j].depth
    BY <1>3
  <2>2. 1..k = 1..k - 1 \cup {k} /\ k \notin 1..k - 1
    BY <1>2, <1>4
  <2> QED BY <1>2, <1>4, <1>8, <2>1, <2>2 DEF Around
<1> QED BY <1>3, <1>7, <1>8, <1>9 DEF k, q

LEMMA FinallyDeparts ==
  ASSUME WalkInv, FlowInv, ExitFinally
  PROVE  Departing(Front(path), {x \in live : x.to # Here}, account'[Place])
<1> DEFINE k == Len(path)
           q == Front(path)
           s == openerStack
           m == account[Place]
           l == account'[Place]
           zs == {x \in live : x.to # Here}
<1>1. /\ path # <<>> /\ Top.kind = "try" /\ Top.kind \in Branching /\ Top.part = "finally"
      /\ l = m \cup FinallyMarks /\ m \subseteq l
  BY ExitFinallyLeaves
<1>2. PlaceInv(path, k, live, s, m) /\ k \in 1..k /\ path[k] = Top
  BY <1>1, FlowKnown, PlaceKnown DEF Top
<1>3. /\ Len(q) = k - 1 /\ Around(q, k - 1) = Around(path, k) \ {k}
  BY <1>1, FrontShaped
<1>4. Around(path, k) \in SUBSET (1..k) /\ \A j \in Around(path, k) \ {k} : q[j] = path[j]
  <2>1. Around(path, k) \in SUBSET (1..k)
    BY DEF Around
  <2>2. \A j \in 1..k - 1 : q[j] = path[j]
    BY <1>1, FrontIs DEF WalkInv, Typed
  <2>3. Len(path) \in Nat
    BY <1>1, PlaceKnown
  <2>4. \A j \in 1..k : j # k => j \in 1..k - 1
    BY <2>3
  <2> QED BY <2>1, <2>2, <2>4
<1> HIDE DEF q
<1>5. ASSUME Silent(l), NEW x \in zs
      PROVE  Departs(q, x)
  <2>1. Silent(m)
    BY <1>1, <1>5, MarksGrow
  <2>2. x \in live /\ x.to # Here
    OBVIOUS
  <2>3. x.open \subseteq s /\ \E t \in Around(path, k) : path[t].part = "finally" /\ Outwards(path, t, x)
    BY <1>2, <2>1, <2>2 DEF PlaceInv, Fits
  <2>4. Outwards(path, k, x)
    BY <1>1, <2>3, NoFinallyAround
  <2>5. s \subseteq path[k].stack
    <3>1. "irregular" \notin l
      BY <1>5 DEF Silent, Regular
    <3>2. "irregular" \notin FinallyMarks
      BY <1>1, <3>1
    <3> QED BY <1>2, <3>2 DEF FinallyMarks, If, NewIn
  <2>6. x.open \cap path[k].stack = x.open
    BY <2>3, <2>5
  <2>7. CASE LeavesFunction(path, k, x) /\ x.open = {}
    <3>1. LeavesFunction(q, k - 1, x)
      <4>1. CASE x.to = Throw
        BY <4>1 DEF LeavesFunction
      <4>2. CASE x.to # Throw
        <5>1. PICK f \in Around(path, k) : path[f].kind = "function" /\ x.to = path[f].id
          BY <2>7, <4>2 DEF LeavesFunction
        <5>2. f # k
          BY <1>1, <1>2, <5>1
        <5>3. f \in Around(q, k - 1) /\ q[f] = path[f]
          BY <1>3, <1>4, <5>2
        <5> QED BY <5>1, <5>3 DEF LeavesFunction
      <4> QED BY <4>1, <4>2
    <3> QED BY <1>3, <2>7, <3>1 DEF Departs
  <2>8. CASE \E j \in Around(path, k) \ {k} :
               path[j].kind = "loop" /\ x.to = path[j].id /\ x.open \subseteq path[j].stack
    <3>1. PICK j \in Around(path, k) \ {k} :
               path[j].kind = "loop" /\ x.to = path[j].id /\ x.open \subseteq path[j].stack
      BY <2>8
    <3>2. j \in Around(q, Len(q)) /\ q[j] = path[j]
      BY <1>3, <1>4
    <3> QED BY <3>1, <3>2 DEF Departs
  <2> QED BY <2>4, <2>6, <2>7, <2>8 DEF Outwards
<1>6. Tame(l) => zs = {}
  <2> SUFFICES ASSUME Tame(l)
               PROVE  zs = {}
    OBVIOUS
  <2>1. Tame(m)
    BY <1>1, MarksGrow
  <2> QED BY <1>2, <2>1 DEF PlaceInv, Stay
<1> HIDE DEF l, zs
<1>7. Departing(q, zs, l)
  BY <1>5, <1>6 DEF Departing
<1> QED BY <1>7 DEF q, zs, l

LEMMA ExitFinallyFlows == ASSUME WalkInv, FlowInv, ExitFinally PROVE FlowInv'
<1> DEFINE k == Len(path)
           n == Len(path) - 1
           p == Front(path)
           brs == branchStacks'
           s == openerStack
           b == account'
           m == account[Place]
           l == account'[Place]
           ys == live'
           zs == {x \in live : x.to # Here}
<1>1. /\ path # <<>> /\ Top.kind = "try" /\ Top.kind # "function" /\ Top.part = "finally" /\ Leaves(FinallyMarks)
      /\ openerStack' = s /\ ys = {x \in live : x.to = Here} /\ m \subseteq l
  BY ExitFinallyLeaves
<1>2. Jumped(p, zs, path')
  BY ExitFinallyWalks
<1>3. Shaped(p) /\ Len(p) = n /\ n \in 1..k /\ p[n].depth = Place
  BY <1>1, FrontShaped
<1>4. Departing(p, zs, l)
  BY FinallyDeparts
<1>5. /\ PlaceInv(path, k, live, s, m) /\ TopInv(path[k], BranchesAt(branchStacks, path[k].id), live, s, m)
      /\ path[k] = Top
  BY <1>1, FlowKnown, Zenon DEF Top
<1>6. /\ k \in Nat /\ k > 1 /\ path[k].depth = path[k - 1].depth
  BY <1>1, SavedKnown
<1>7. zs \in SUBSET Executions
  BY DEF WalkInv, Typed
<1> HIDE DEF k, n, p, brs, s, b, m, l, zs
<1>8. Silent(l) => Silent(m)
  BY <1>1, MarksGrow
<1>9. Tame(l) => Tame(m)
  BY <1>1, MarksGrow
<1>10. PlaceInv(path, k - 1, ys, s, l)
  <2>1. Traced(path, k - 1, s)
    BY <1>5, <1>6, TracedShallower DEF PlaceInv
  <2>2. Silent(l) => Kept(path, k - 1, s)
    BY <1>5, <1>6, <1>8, TracedShallower DEF PlaceInv
  <2>3. Silent(l) => \A x \in ys : Fits(path, k - 1, x, s)
    BY <1>1, <1>5, <1>8 DEF PlaceInv, Fits
  <2>4. Tame(l) => Stay(ys)
    BY <1>1 DEF Stay
  <2> QED BY <2>1, <2>2, <2>3, <2>4 DEF PlaceInv
<1>11. Tame(l) => Level(ys, s)
  <2> SUFFICES ASSUME Tame(l)
               PROVE  Level(ys, s)
    OBVIOUS
  <2>1. ys = live
    BY <1>1, <1>5, <1>9 DEF PlaceInv, Stay
  <2>2. Level(live, s)
    BY <1>1, <1>5, <1>9 DEF TopInv
  <2> QED BY <2>1, <2>2
<1>12. /\ NodesFlow(p, brs, b) /\ SavedFlow(p, brs, b) /\ FlowTop(p, brs, b, ys, s)
  BY <1>1, <1>10, <1>11, LeavesFlow DEF k, p, brs, b, s, l
<1>13. Departed(p, zs, path', b, b)
  <2>1. b[p[Len(p)].depth] = l
    BY <1>3 DEF b, l
  <2> QED BY <1>2, <1>3, <1>4, <1>7, <2>1 DEF Departed
<1>14. NodesFlow(path', brs, b) /\ SavedFlow(path', brs, b)
  BY <1>12, <1>13, DepartedFlows
<1>15. n \in 1..Len(p) /\ b[p[n].depth] = l /\ Len(path') = n
  <2>1. n <= n /\ n >= 1
    BY <1>3, <1>6 DEF n
  <2>2. n \in Int
    BY <1>3
  <2> QED BY <1>2, <1>3, <2>1, <2>2 DEF b, l, Jumped, Follows
<1>16. /\ Near(p, path', n) /\ path'[n].depth = p[n].depth /\ path'[n].id = p[n].id
       /\ Alike(p[n], path'[n]) /\ SamePart(p[n], path'[n])
       /\ path'[n].out = p[n].out \cup Moved(p, zs, n)
       /\ Silent(l) /\ p[n].kind = "switch" => Moved(p, zs, n) = {}
       /\ Tame(l) => Moved(p, zs, n) = {}
  BY <1>12, <1>13, <1>15, DepartedNode DEF Grown
<1>17. PlaceInv(p, n, ys, s, l) /\ TopInv(p[n], BranchesAt(brs, p[n].id), ys, s, l)
  BY <1>3, <1>12, <1>15 DEF FlowTop
<1>18. PlaceInv(path', n, ys, s, l)
  BY <1>16, <1>17, PlaceNear
<1>19. TopInv(path'[n], BranchesAt(brs, p[n].id), ys, s, l)
  <2> DEFINE r == p[n]
             t == path'[n]
             o == Moved(p, zs, n)
             bs == BranchesAt(brs, p[n].id)
  <2>1. t.kind = r.kind /\ t.part = r.part /\ t.out = r.out \cup o
        /\ (Silent(l) /\ r.kind = "switch" => o = {}) /\ (Tame(l) => o = {}) /\ TopInv(r, bs, ys, s, l)
    BY <1>16, <1>17 DEF Alike, SamePart
  <2> HIDE DEF r, t, o, bs
  <2>2. Silent(l) /\ r.kind = "switch" => t.out = r.out
    BY <2>1
  <2>3. Tame(l) => t.out = r.out
    BY <2>1
  <2>4. TopInv(t, bs, ys, s, l)
    BY <2>1, <2>2, <2>3 DEF TopInv
  <2> QED BY <2>4 DEF t, bs
<1>20. TopFlow(path', brs, b, ys, s)
  BY <1>15, <1>16, <1>18, <1>19 DEF TopFlow
<1> QED BY <1>1, <1>14, <1>20 DEF FlowInv, brs, b

-----------------------------------------------------------------------------
(* The flow along the whole walk.                                          *)
LEMMA FlowStarts == ASSUME Init PROVE FlowInv
<1>1. path = <<>> /\ Len(<<>>) = 0 /\ 1..0 = {}
  BY DEF Init
<1>2. \A i \in 1..Len(path) : FALSE
  BY <1>1
<1> QED BY <1>1, <1>2 DEF FlowInv, NodesFlow, SavedFlow, TopFlow
LEMMA FlowStutters == ASSUME FlowInv, UNCHANGED vars PROVE FlowInv'
<1>1. /\ openerStack' = openerStack /\ branchStacks' = branchStacks
      /\ path' = path /\ live' = live /\ account' = account
  BY DEF vars, stacks, maps, flags
<1> QED BY <1>1, Zenon DEF FlowInv

LEMMA FlowSteps == ASSUME WalkInv, FlowInv, [Next]_vars PROVE FlowInv'
<1>1. CASE EnterFunction
  BY <1>1, EnterFunctionFlows
<1>2. CASE ExitFunction
  BY <1>2, ExitFunctionFlows
<1>3. CASE EnterIf
  BY <1>3, EnterIfIsFresh, FreshFlows
<1>4. CASE Else
  BY <1>4, ElseFlows
<1>5. CASE ExitIf
  BY <1>5, ExitIfFlows
<1>6. CASE EnterLoop
  BY <1>6, EnterLoopIsFresh, FreshFlows
<1>7. CASE ExitLoop
  BY <1>7, ExitLoopFlows
<1>8. CASE EnterSwitch
  BY <1>8, EnterSwitchIsFresh, FreshFlows
<1>9. CASE \E default \in BOOLEAN : BeginCase(default)
  BY <1>9, BeginCaseFlows
<1>10. CASE EndCase
  BY <1>10, EndCaseFlows
<1>11. CASE ExitSwitch
  BY <1>11, ExitSwitchFlows
<1>12. CASE \E catch, finally \in BOOLEAN : EnterTry(catch, finally)
  BY <1>12, EnterTryIsGuarded, GuardedFlows
<1>13. CASE NextPart
  BY <1>13, NextPartFlows
<1>14. CASE ExitCatch
  BY <1>14, ExitCatchFlows
<1>15. CASE ExitFinally
  BY <1>15, ExitFinallyFlows
<1>16. CASE Return
  BY <1>16, ReturnFlows
<1>17. CASE ThrowStatement
  BY <1>17, ThrowFlows
<1>18. CASE \E i \in DOMAIN path : BreakContinue(i) \/ BreakSwitch(i)
  BY <1>18, BreakContinueFlows, BreakSwitchFlows
<1>19. CASE \E opener \in Openers : Open(opener)
  BY <1>19, OpenFlows
<1>20. CASE \E closer \in Closers : Close(closer)
  BY <1>20, CloseFlows
<1>21. CASE Yield
  BY <1>21, YieldFlows
<1>22. CASE UNCHANGED vars
  BY <1>22, FlowStutters
<1> QED BY <1>1, <1>2, <1>3, <1>4, <1>5, <1>6, <1>7, <1>8, <1>9, <1>10, <1>11, <1>12, <1>13, <1>14, <1>15,
           <1>16, <1>17, <1>18, <1>19, <1>20, <1>21, <1>22 DEF Next

(* A function is judged only where it is left.                             *)
LEMMA OnlyExitJudges ==
  ASSUME [Next]_vars, ~ ExitFunction
  PROVE  verdict' = {} \/ verdict' = verdict
<1>1. CASE EnterFunction
  BY <1>1 DEF EnterFunction
<1>2. CASE EnterIf \/ Else \/ EnterLoop \/ ExitLoop \/ EnterSwitch \/ EndCase
  BY <1>2 DEF EnterIf, Else, EnterLoop, ExitLoop, EnterSwitch, EndCase, Unmarked, Mark
<1>3. CASE ExitIf
  BY <1>3 DEF ExitIf, Mark
<1>4. CASE \E default \in BOOLEAN : BeginCase(default)
  BY <1>4 DEF BeginCase, Mark
<1>5. CASE ExitSwitch
  BY <1>5 DEF ExitSwitch, Mark, Unmarked
<1>6. CASE \E catch, finally \in BOOLEAN : EnterTry(catch, finally)
  BY <1>6 DEF EnterTry, Unmarked
<1>7. CASE NextPart
  BY <1>7 DEF NextPart, Mark
<1>8. CASE ExitCatch \/ ExitFinally
  BY <1>8 DEF ExitCatch, ExitFinally, Mark
<1>9. CASE Return \/ ThrowStatement
  BY <1>9 DEF Return, ThrowStatement, EarlyExit, Mark
<1>10. CASE \E i \in DOMAIN path : BreakContinue(i) \/ BreakSwitch(i)
  BY <1>10 DEF BreakContinue, BreakSwitch, Mark
<1>11. CASE \E opener \in Openers : Open(opener)
  BY <1>11 DEF Open, Unmarked
<1>12. CASE \E closer \in Closers : Close(closer)
  BY <1>12 DEF Close, Mark
<1>13. CASE Yield
  BY <1>13 DEF Yield, Mark
<1>14. CASE UNCHANGED vars
  BY <1>14 DEF vars
<1> QED BY <1>1, <1>2, <1>3, <1>4, <1>5, <1>6, <1>7, <1>8, <1>9, <1>10, <1>11, <1>12, <1>13, <1>14 DEF Next
Leaking == Top.leaks \/ \E x \in live : x.open # {}
LEMMA ExitJudges ==
  ASSUME WalkInv, ExitFunction
  PROVE  /\ path # <<>> /\ Top.kind = "function" /\ account[Place] \in SUBSET (Marks \ {"leaked"})
         /\ verdict' = account[Place] \cup If(openerStack # {}, "warned") \cup If(Leaking, "leaked")
<1>1. /\ path # <<>> /\ Top.kind = "function"
      /\ verdict' = Last(account) \cup If(openerStack # {}, "warned") \cup If(Leaking, "leaked")
  BY DEF ExitFunction, Leaking
<1>2. account \in Seq(SUBSET (Marks \ {"leaked"})) /\ Place \in Nat \ {0} /\ Place \in 1..Place
  BY <1>1, PlaceKnown DEF WalkInv, Typed
<1>3. account[Place] \in SUBSET (Marks \ {"leaked"})
  BY <1>2, ElementOfSeq DEF Place
<1>4. account # <<>>
  BY <1>2, EmptySeq DEF Place
<1>5. Last(account) = account[Place]
  BY <1>2, <1>4, FrontIs DEF Place
<1> QED BY <1>1, <1>3, <1>5

(* A leak of a regular function: either the rule has warned, or its stack  *)
(* is not empty where the function ends.                                   *)
LEMMA LeaksJudged ==
  ASSUME WalkInv, FlowInv, EveryLeakReported, [Next]_vars
  PROVE  EveryLeakReported'
<1>1. CASE ~ ExitFunction
  BY <1>1, OnlyExitJudges DEF EveryLeakReported
<1>2. CASE ExitFunction
  <2> SUFFICES ASSUME "leaked" \in verdict', "irregular" \notin verdict', ~AllowConditionalClosers, "warned" \notin verdict'
               PROVE  FALSE
    BY DEF EveryLeakReported
  <2>1. /\ path # <<>> /\ Top.kind = "function" /\ account[Place] \in SUBSET (Marks \ {"leaked"})
        /\ verdict' = account[Place] \cup If(openerStack # {}, "warned") \cup If(Leaking, "leaked")
    BY <1>2, ExitJudges
  <2>2. Silent(account[Place])
    BY <2>1 DEF Silent, Regular
  <2>3. openerStack = {} /\ Leaking
    BY <2>1 DEF If
  <2>4. /\ PlaceInv(path, Len(path), live, openerStack, account[Place])
        /\ NodeInv(path, Len(path), BranchesAt(branchStacks, Top.id), account[Place])
    BY <2>1, FlowKnown
  <2>5. ~ Top.leaks
    BY <2>1, <2>2, <2>4 DEF NodeInv, OutFits, Top
  <2>6. \A x \in live : x.open = {}
    BY <2>2, <2>3, <2>4 DEF PlaceInv, Fits
  <2> QED BY <2>3, <2>5, <2>6 DEF Leaking
<1> QED BY <1>1, <1>2

(* If some execution leaves the function with a call still open, the rule  *)
(* warns of a call left open in that function: the executions that reach a *)
(* place have no more calls open than the rule's stack has, and those that *)
(* left it early had none, or are held by a loop or a finally block.       *)
THEOREM PairedCallsLeaksReported == Spec => []EveryLeakReported
<1>1. Init => WalkInv /\ FlowInv /\ EveryLeakReported
  BY WalkStarts, FlowStarts DEF Init, EveryLeakReported
<1>2. (WalkInv /\ FlowInv /\ EveryLeakReported) /\ [Next]_vars => (WalkInv /\ FlowInv /\ EveryLeakReported)'
  BY WalkSteps, FlowSteps, LeaksJudged
<1> QED BY <1>1, <1>2, PTL DEF Spec

-----------------------------------------------------------------------------
(* Warnings. What a node remembers of uneven executions stays remembered.  *)
Keeps(r, s) ==
  /\ s.kind = r.kind /\ s.depth = r.depth /\ s.saved = r.saved /\ r.out \subseteq s.out
  /\ r.part # "finally" => s.part # "finally"
LEMMA UnevenMore ==
  ASSUME NEW xs, NEW ys, Uneven(xs), xs \subseteq ys
  PROVE  Uneven(ys)
  BY DEF Uneven
LEMMA UnevenCarries ==
  ASSUME NEW p, NEW q, NEW xs, NEW ys, NEW d, UnevenAt(p, xs, d), Len(p) \in Nat \ {0}, Len(q) \in Nat,
         NEW n \in {Len(p) - 1, Len(p)}, n <= Len(q), \A i \in 1..n : Keeps(p[i], q[i]),
         p[Len(p)].depth = d /\ Uneven(xs) => UnevenAt(q, ys, d),
         p[Len(p)].depth = d /\ p[Len(p)].part = "between" /\ p[Len(p)].cases = 0 /\ Uneven(p[Len(p)].saved) =>
           UnevenAt(q, ys, d),
         n < Len(p) /\ p[Len(p)].kind = "function" /\ n > 0 /\ p[n].depth = d /\ Uneven(p[Len(p)].saved) => UnevenAt(q, ys, d),
         n < Len(p) /\ p[Len(p)].kind # "function" /\ p[Len(p)].part # "finally" /\ p[Len(p)].depth = d /\ Uneven(p[Len(p)].out) =>
           UnevenAt(q, ys, d)
  PROVE  UnevenAt(q, ys, d)
<1> DEFINE k == Len(p)
<1>1. k \in Nat \ {0} /\ k \in Nat /\ n \in Nat /\ (n = k - 1 \/ n = k) /\ \A i \in 1..n : i \in 1..Len(q)
  OBVIOUS
<1>2. \A i \in 1..k : i \in 1..n \/ (i = k /\ n < k)
  BY <1>1
<1>3. ASSUME NEW i \in 1..k, NEW j \in 1..k, j = i + 1, p[j].kind = "function", p[i].depth = d, Uneven(p[j].saved)
      PROVE  UnevenAt(q, ys, d)
  <2>1. CASE j \in 1..n
    <3>1. i \in 1..n
      BY <1>1, <1>3, <2>1
    <3>2. q[j].kind = "function" /\ q[i].depth = d /\ q[j].saved = p[j].saved
      BY <1>3, <2>1, <3>1 DEF Keeps
    <3>3. i \in 1..Len(q) /\ j \in 1..Len(q)
      BY <1>1, <2>1, <3>1
    <3> QED BY <1>3, <3>2, <3>3 DEF UnevenAt
  <2>2. CASE j = k /\ n < k
    <3>1. n = i /\ n > 0
      BY <1>1, <1>3, <2>2
    <3> QED BY <1>3, <2>2, <3>1
  <2> QED BY <1>2, <2>1, <2>2
<1>4. ASSUME NEW i \in 1..k, p[i].kind # "function", p[i].part # "finally", p[i].depth = d, Uneven(p[i].out)
      PROVE  UnevenAt(q, ys, d)
  <2>1. CASE i \in 1..n
    <3>1. q[i].kind # "function" /\ q[i].part # "finally" /\ q[i].depth = d /\ p[i].out \subseteq q[i].out
      BY <1>4, <2>1 DEF Keeps
    <3>2. Uneven(q[i].out) /\ i \in 1..Len(q)
      BY <1>1, <1>4, <2>1, <3>1, UnevenMore
    <3> QED BY <3>1, <3>2 DEF UnevenAt
  <2> QED BY <1>2, <1>4, <2>1
<1> HIDE DEF k
<1>5. \/ p[Len(p)].depth = d /\ Uneven(xs)
      \/ p[Len(p)].depth = d /\ p[Len(p)].part = "between" /\ p[Len(p)].cases = 0 /\ Uneven(p[Len(p)].saved)
      \/ \E i, j \in 1..k : j = i + 1 /\ p[j].kind = "function" /\ p[i].depth = d /\ Uneven(p[j].saved)
      \/ \E i \in 1..k : p[i].kind # "function" /\ p[i].part # "finally" /\ p[i].depth = d /\ Uneven(p[i].out)
  BY DEF UnevenAt, k
<1> QED BY <1>3, <1>4, <1>5

(* The steps within a function: n nodes are kept, all or all but the last. *)
WarnedKept(n) ==
  /\ n \in {Len(path) - 1, Len(path)} /\ n <= Len(path') /\ Len(path') \in Nat
  /\ \A i \in 1..n : Keeps(path[i], path'[i])
LEMMA WarnedStep ==
  ASSUME WalkInv, WarnedInv, path # <<>>, NEW ms, Marked(ms), NEW n, WarnedKept(n),
         n < Len(path) => Top.kind # "function",
         Tame(account'[Place]) =>
           /\ Uneven(live) => UnevenAt(path', live', Place)
           /\ Top.part = "between" /\ Top.cases = 0 /\ Uneven(Top.saved) => UnevenAt(path', live', Place)
           /\ n < Len(path) /\ Top.part # "finally" /\ Uneven(Top.out) => UnevenAt(path', live', Place)
           /\ "warned" \in ms => UnevenAt(path', live', Place)
  PROVE  WarnedInv'
<1>1. Place' = Place
  BY PlaceStays
<1>2. /\ Len(path) \in Nat \ {0} /\ path[Len(path)].depth = Place /\ path[Len(path)] = Top /\ Place \in 1..Place
  BY PlaceKnown DEF Top
<1>3. ASSUME NEW d \in 1..Place, Tame(account'[d]), "warned" \in account'[d]
      PROVE  UnevenAt(path', live', d)
  <2>1. CASE d = Place /\ "warned" \in ms
    BY <1>3, <2>1
  <2>2. CASE ~ (d = Place /\ "warned" \in ms)
    <3>1. Tame(account[d]) /\ "warned" \in account[d]
      <4>1. CASE d # Place
        BY <1>3, <4>1 DEF Marked
      <4>2. CASE d = Place
        <5>1. account'[Place] = account[Place] \cup ms /\ account[Place] \subseteq account'[Place]
          BY MarksKnown
        <5>2. Tame(account[Place])
          BY <1>3, <4>2, <5>1, MarksGrow
        <5> QED BY <1>3, <2>2, <4>2, <5>1, <5>2
      <4> QED BY <4>1, <4>2
    <3>2. UnevenAt(path, live, d)
      BY <3>1 DEF WarnedInv
    <3>3. /\ n \in {Len(path) - 1, Len(path)} /\ n <= Len(path') /\ Len(path') \in Nat
          /\ \A i \in 1..n : Keeps(path[i], path'[i])
      BY DEF WarnedKept
    <3>4. path[Len(path)].depth = d /\ Uneven(live) => UnevenAt(path', live', d)
      BY <1>2, <1>3
    <3>5. path[Len(path)].depth = d /\ path[Len(path)].part = "between" /\ path[Len(path)].cases = 0
            /\ Uneven(path[Len(path)].saved) => UnevenAt(path', live', d)
      BY <1>2, <1>3
    <3>6. ~ (n < Len(path) /\ path[Len(path)].kind = "function")
      BY <1>2
    <3>7. n < Len(path) /\ path[Len(path)].part # "finally" /\ path[Len(path)].depth = d /\ Uneven(path[Len(path)].out) =>
           UnevenAt(path', live', d)
      BY <1>2, <1>3
    <3> QED BY <1>2, <3>2, <3>3, <3>4, <3>5, <3>6, <3>7, UnevenCarries
  <2> QED BY <2>1, <2>2
<1> QED BY <1>1, <1>3 DEF WarnedInv
LEMMA KeepsItself ==
  ASSUME NEW r
  PROVE  Keeps(r, r) /\ \A s : Same(r, s) => Keeps(r, s)
  BY DEF Keeps, Same, Alike, SamePart, SameOut

(* Two executions that are uneven, by two stacks of which one is smaller.  *)
LEMMA UnevenBy ==
  ASSUME NEW xs, NEW k, Sound(xs, k), NEW s, NEW t, Over(xs, s), Under(xs, t), t \subseteq s, t # s
  PROVE  Uneven(xs)
<1>1. PICK x \in xs : s \subseteq x.open
  BY DEF Over
<1>2. PICK y \in xs : y.open \subseteq t
  BY DEF Under
<1>3. y.open \in SUBSET x.open /\ y.open # x.open
  BY <1>1, <1>2
<1>4. IsFiniteSet(x.open)
  BY DEF Sound
<1>5. Cardinality(x.open) # Cardinality(y.open)
  BY <1>3, <1>4, FS_Subset
<1> QED BY <1>5 DEF Uneven
LEMMA OverMore ==
  ASSUME NEW xs, NEW ys, xs \subseteq ys, NEW s, Level(xs, s)
  PROVE  Over(ys, s) /\ Under(ys, s)
  BY DEF Level, Over, Under

(* Calls: an opener and a closer of open calls shift every execution by one. *)
LEMMA CallsKept ==
  ASSUME WalkInv, path # <<>>, path' = path
  PROVE  /\ WarnedKept(Len(path)) /\ Len(path) \in Nat
         /\ \A ys : Uneven(ys) => UnevenAt(path', ys, Place)
<1>1. /\ Len(path) \in Nat /\ path[Len(path)].depth = Place
  BY PlaceKnown
<1>2. \A i \in 1..Len(path) : Keeps(path[i], path[i])
  BY KeepsItself
<1> QED BY <1>1, <1>2 DEF WarnedKept, UnevenAt
LEMMA OpenWarned == ASSUME WalkInv, WarnedInv, NEW opener \in Openers, Open(opener) PROVE WarnedInv'
<1> DEFINE k == stackIndexCounter
           c == Call(opener)
           n == Len(path)
           ms == {}
<1>1. /\ path # <<>> /\ path' = path /\ Top.part # "between" /\ k < MaxOpeners
      /\ live' = {[x EXCEPT !.open = @ \cup {c}] : x \in live} /\ Unmarked
  BY DEF Open, InCode
<1>2. Marked(ms)
  BY <1>1, Marking
<1>3. c.index = k /\ k \in Nat /\ live \in SUBSET Executions /\ Sound(live, k)
  BY <1>1, CallIsNew, StateKnown DEF WalkInv, Typed
<1>4. /\ WarnedKept(n) /\ n \in Nat /\ \A ys : Uneven(ys) => UnevenAt(path', ys, Place)
  BY <1>1, CallsKept
<1> HIDE DEF k, c, n
<1>5. Uneven(live) => Uneven(live')
  <2> SUFFICES ASSUME Uneven(live)
               PROVE  Uneven(live')
    OBVIOUS
  <2>1. PICK x, y \in live : Cardinality(x.open) # Cardinality(y.open)
    BY DEF Uneven
  <2>2. ASSUME NEW z \in live
        PROVE  \E w \in live' : w.open = z.open \cup {c} /\ Cardinality(z.open \cup {c}) = Cardinality(z.open) + 1
                                /\ Cardinality(z.open) \in Nat
    <3>1. [z EXCEPT !.open = @ \cup {c}] \in live'
      BY <1>1
    <3>2. z \in Executions
      BY <1>3
    <3>3. [z EXCEPT !.open = @ \cup {c}].open = z.open \cup {c}
      BY <3>2 DEF Executions
    <3>4. IsFiniteSet(z.open) /\ c \notin z.open
      BY <1>3 DEF Sound
    <3>5. Cardinality(z.open \cup {c}) = Cardinality(z.open) + 1 /\ Cardinality(z.open) \in Nat
      BY <3>4, FS_AddElement, FS_CardinalityType
    <3> QED BY <3>1, <3>3, <3>5
  <2>3. PICK v \in live' : v.open = x.open \cup {c} /\ Cardinality(x.open \cup {c}) = Cardinality(x.open) + 1
                                /\ Cardinality(x.open) \in Nat
    BY <2>2
  <2>4. PICK w \in live' : w.open = y.open \cup {c} /\ Cardinality(y.open \cup {c}) = Cardinality(y.open) + 1
                                /\ Cardinality(y.open) \in Nat
    BY <2>2
  <2>5. Cardinality(v.open) # Cardinality(w.open)
    BY <2>1, <2>3, <2>4
  <2> QED BY <2>5 DEF Uneven
<1>6. "warned" \notin ms
  OBVIOUS
<1> HIDE DEF ms
<1>7. ~ (n < Len(path))
  BY <1>4 DEF n
<1> QED BY <1>1, <1>2, <1>4, <1>5, <1>6, <1>7, WarnedStep
LEMMA CloseWarned == ASSUME WalkInv, WarnedInv, NEW closer, Close(closer) PROVE WarnedInv'
<1> DEFINE k == stackIndexCounter
           n == Len(path)
           ms == CloseMarks(closer)
<1>1. /\ path # <<>> /\ path' = path /\ Top.part # "between"
      /\ live' = {[x EXCEPT !.open = @ \ Ends(x, closer)] : x \in live}
  BY DEF Close, InCode
<1>2. Marked(ms)
  BY CloseCalls DEF Calling
<1>3. k \in Nat /\ live \in SUBSET Executions /\ Sound(live, k)
  BY <1>1, PlaceKnown, StateKnown DEF WalkInv, Typed
<1>4. /\ WarnedKept(n) /\ n \in Nat /\ \A ys : Uneven(ys) => UnevenAt(path', ys, Place)
  BY <1>1, CallsKept
<1>5. account'[Place] = account[Place] \cup ms
  BY <1>1, <1>2, MarksKnown
<1>6. "warned" \notin ms
  BY DEF CloseMarks, If
<1>7. Tame(account'[Place]) => \A x \in live : Ends(x, closer) # {}
  BY <1>5 DEF CloseMarks, If, Tame
<1> HIDE DEF k, n, ms
<1>8. ASSUME Tame(account'[Place]), Uneven(live)
      PROVE  Uneven(live')
  <2>1. PICK x, y \in live : Cardinality(x.open) # Cardinality(y.open)
    BY <1>8 DEF Uneven
  <2>2. ASSUME NEW z \in live
        PROVE  \E w \in live' : Cardinality(w.open) = Cardinality(z.open) - 1 /\ Cardinality(z.open) \in Nat
    <3>1. [z EXCEPT !.open = @ \ Ends(z, closer)] \in live'
      BY <1>1
    <3>2. z \in Executions
      BY <1>3
    <3>3. [z EXCEPT !.open = @ \ Ends(z, closer)].open = z.open \ Ends(z, closer)
      BY <3>2 DEF Executions
    <3>4. IsFiniteSet(z.open) /\ (\A c \in z.open : c.index < k) /\ \A c, d \in z.open : c.index = d.index => c = d
      BY <1>3 DEF Sound
    <3>5. PICK e \in Ends(z, closer) : TRUE
      BY <1>7, <1>8
    <3>6. \A c \in z.open : c.index \in Nat
      BY <3>2 DEF Executions, Calls
    <3>7. Ends(z, closer) = {e}
      <4>1. \A c \in Ends(z, closer) : c \in z.open /\ c \in Matching(z.open, closer)
        BY DEF Ends, Matching
      <4>2. \A c \in Ends(z, closer) : c.index <= e.index /\ e.index <= c.index
        BY <3>5, <4>1 DEF Ends
      <4>3. \A c \in Ends(z, closer) : c.index = e.index
        BY <3>5, <3>6, <4>1, <4>2
      <4> QED BY <3>4, <3>5, <4>1, <4>3
    <3>8. e \in z.open
      BY <3>5 DEF Ends, Matching
    <3>9. Cardinality(z.open \ {e}) = Cardinality(z.open) - 1 /\ Cardinality(z.open) \in Nat
      BY <3>4, <3>8, FS_RemoveElement, FS_CardinalityType
    <3> QED BY <3>1, <3>3, <3>7, <3>9
  <2>3. PICK v \in live' : Cardinality(v.open) = Cardinality(x.open) - 1 /\ Cardinality(x.open) \in Nat
    BY <2>2
  <2>4. PICK w \in live' : Cardinality(w.open) = Cardinality(y.open) - 1 /\ Cardinality(y.open) \in Nat
    BY <2>2
  <2>5. Cardinality(v.open) # Cardinality(w.open)
    BY <2>1, <2>3, <2>4
  <2> QED BY <2>5 DEF Uneven
<1>9. ~ (n < Len(path))
  BY <1>4 DEF n
<1> QED BY <1>1, <1>2, <1>4, <1>6, <1>8, <1>9, WarnedStep
LEMMA NotTame ==
  ASSUME WalkInv, WarnedInv, path # <<>>, NEW ms, Marked(ms), ~ Tame(account'[Place]), WarnedKept(Len(path))
  PROVE  WarnedInv'
<1>1. ~ (Len(path) < Len(path))
  BY PlaceKnown
<1> QED BY <1>1, WarnedStep
LEMMA YieldWarned == ASSUME WalkInv, WarnedInv, Yield PROVE WarnedInv'
<1>1. path # <<>> /\ path' = path
  BY DEF Yield, InCode
<1>2. Marked(YieldMarks)
  BY YieldCalls DEF Calling
<1>3. ~ Tame(account'[Place])
  BY <1>1, <1>2, MarksKnown DEF YieldMarks, Tame
<1> QED BY <1>1, <1>2, <1>3, CallsKept, NotTame

(* A node is entered: it saves the executions before it.                   *)
LEMMA PushKept ==
  ASSUME WalkInv, path # <<>>, NEW r, Longer(r, path'), r.depth = Place
  PROVE  /\ WarnedKept(Len(path)) /\ ~ (Len(path) < Len(path))
         /\ \A ys : Uneven(ys) => UnevenAt(path', ys, Place)
         /\ \A ys : path'[Len(path')].part = "between" /\ path'[Len(path')].cases = 0 /\ Uneven(r.saved) =>
              UnevenAt(path', ys, Place)
<1>1. Len(path) \in Nat
  BY PlaceKnown
<1>2. Len(path') = Len(path) + 1 /\ Alike(r, path'[Len(path')]) /\ \A i \in 1..Len(path) : Same(path[i], path'[i])
  BY DEF Longer
<1>3. \A i \in 1..Len(path) : Keeps(path[i], path'[i])
  BY <1>2, KeepsItself
<1>4. path'[Len(path')].depth = Place /\ path'[Len(path')].saved = r.saved
  BY <1>2 DEF Alike
<1> QED BY <1>1, <1>2, <1>3, <1>4 DEF WarnedKept, UnevenAt
LEMMA FreshWarned == ASSUME WalkInv, WarnedInv, NEW r, Fresh(r) PROVE WarnedInv'
<1> DEFINE ms == {}
           n == Len(path)
<1>1. /\ path # <<>> /\ Top.part # "between" /\ r \in SyntaxNode /\ r.depth = Place /\ r.saved = live
      /\ path' = Append(path, r) /\ Unmarked /\ r.cases = 0
      /\ live' = (IF r.part = "between" THEN {} ELSE live)
  BY DEF Fresh, InCode, Entered, Enterable
<1>2. Longer(r, path') /\ path'[Len(path')] = r
  BY <1>1, LongerAppend
<1>3. Marked(ms)
  BY <1>1, Marking
<1>4. /\ WarnedKept(n) /\ ~ (n < Len(path))
      /\ \A ys : Uneven(ys) => UnevenAt(path', ys, Place)
      /\ \A ys : path'[Len(path')].part = "between" /\ path'[Len(path')].cases = 0 /\ Uneven(r.saved) =>
              UnevenAt(path', ys, Place)
  BY <1>1, <1>2, PushKept
<1>5. Uneven(live) => UnevenAt(path', live', Place)
  BY <1>1, <1>2, <1>4
<1>6. "warned" \notin ms
  OBVIOUS
<1> HIDE DEF ms, n
<1> QED BY <1>1, <1>3, <1>4, <1>5, <1>6, WarnedStep
LEMMA GuardedWarned ==
  ASSUME WalkInv, WarnedInv, NEW r, NEW catch \in BOOLEAN, NEW xs, Guarded(r, catch, xs)
  PROVE  WarnedInv'
<1> DEFINE ms == {}
           n == Len(path)
<1>1. /\ path # <<>> /\ Top.part # "between" /\ r.depth = Place /\ live' = live /\ Unmarked
  BY DEF Guarded, InCode, Entered, Enterable
<1>2. Longer(r, path')
  BY GuardedTop
<1>3. Marked(ms)
  BY <1>1, Marking
<1>4. /\ WarnedKept(n) /\ ~ (n < Len(path))
      /\ \A ys : Uneven(ys) => UnevenAt(path', ys, Place)
  BY <1>1, <1>2, PushKept
<1>5. "warned" \notin ms
  OBVIOUS
<1> HIDE DEF ms, n
<1> QED BY <1>1, <1>3, <1>4, <1>5, WarnedStep

(* A node goes from one part to the next.                                  *)
LEMMA TurnKept ==
  ASSUME WalkInv, path # <<>>, NEW r \in SyntaxNode, Alike(Top, r), TopBecomes(r)
  PROVE  /\ WarnedKept(Len(path) - 1)
         /\ \A ys : Uneven(ys) => UnevenAt(path', ys, Place)
         /\ r.part # "finally" /\ r.kind # "function" /\ Uneven(r.out) => \A ys : UnevenAt(path', ys, Place)
<1>1. /\ path'[Len(path)] = r /\ Len(path') = Len(path)
      /\ \A i \in 1..Len(path) : i < Len(path) => path'[i] = path[i]
  BY TopTurns
<1>2. Len(path) \in Nat \ {0} /\ Len(path) \in Nat /\ Len(path) \in 1..Len(path) /\ path[Len(path)] = Top
      /\ path[Len(path)].depth = Place
  BY PlaceKnown DEF Top
<1>3. \A i \in 1..Len(path) - 1 : i \in 1..Len(path) /\ i < Len(path)
  BY <1>2
<1>4. \A i \in 1..Len(path) - 1 : Keeps(path[i], path'[i])
  BY <1>1, <1>3, KeepsItself
<1>5. r.depth = Place
  BY <1>2 DEF Alike
<1>6. WarnedKept(Len(path) - 1)
  BY <1>1, <1>2, <1>4 DEF WarnedKept
<1>7. \A ys : Uneven(ys) => UnevenAt(path', ys, Place)
  BY <1>1, <1>5 DEF UnevenAt
<1>8. r.part # "finally" /\ r.kind # "function" /\ Uneven(r.out) => \A ys : UnevenAt(path', ys, Place)
  BY <1>1, <1>2, <1>5 DEF UnevenAt
<1> QED BY <1>6, <1>7, <1>8
LEMMA ElseWarned == ASSUME WalkInv, WarnedInv, Else PROVE WarnedInv'
<1> DEFINE r == [Top EXCEPT !.part = "else", !.out = @ \cup live]
           ms == {}
           n == Len(path) - 1
<1>1. /\ path # <<>> /\ Top.kind = "if" /\ Top.part = "then" /\ TopBecomes(r) /\ Unmarked
  BY DEF Else
<1>2. r = Turn(Top, "else", live)
  BY Zenon DEF Turn
<1> HIDE DEF r
<1>3. /\ r \in SyntaxNode /\ Alike(Top, r) /\ r.part = "else" /\ r.out = Top.out \cup live
  <2>1. Top \in SyntaxNode /\ live \in SUBSET Executions /\ "else" \in Parts
    BY <1>1, PlaceKnown, TopKnown DEF Parts
  <2> QED BY <2>1, <1>2, PartChanged
<1>4. Marked(ms)
  BY <1>1, Marking
<1>5. /\ WarnedKept(n) /\ (Uneven(r.out) => UnevenAt(path', live', Place))
  BY <1>1, <1>3, TurnKept DEF Alike
<1>6. (Uneven(live) => Uneven(r.out)) /\ (Uneven(Top.out) => Uneven(r.out))
  BY <1>3, UnevenMore
<1>7. "warned" \notin ms /\ Top.kind # "function" /\ Top.part # "between"
  BY <1>1
<1> HIDE DEF ms, n
<1> QED BY <1>1, <1>4, <1>5, <1>6, <1>7, WarnedStep
LEMMA BeginCaseWarned == ASSUME WalkInv, WarnedInv, NEW default \in BOOLEAN, BeginCase(default) PROVE WarnedInv'
<1> DEFINE r == [Top EXCEPT !.part = "case", !.cases = @ + 1, !.default = @ \/ default]
           ms == If(live # {}, "beyond")
           n == Len(path) - 1
<1>1. /\ path # <<>> /\ Top.part = "between" /\ TopBecomes(r) /\ live' = Top.saved \cup live /\ Mark(ms)
  BY DEF BeginCase
<1>2. NodeShape(Top) /\ Top \in SyntaxNode
  BY <1>1, PlaceKnown
<1>3. Top.kind = "switch"
  BY <1>1, <1>2 DEF NodeShape, PartsOf
<1>4. r \in SyntaxNode /\ Alike(Top, r) /\ r.part = "case" /\ r.out = Top.out
  <2>1. Top.cases \in Nat /\ Top.default \in BOOLEAN /\ (Top.default \/ default) \in BOOLEAN /\ Top.cases + 1 \in Nat
    BY <1>2 DEF SyntaxNode
  <2> DEFINE c == Top.cases + 1
             d == Top.default \/ default
  <2>2. c \in Nat /\ d \in BOOLEAN /\ r = [Top EXCEPT !.part = "case", !.cases = c, !.default = d]
    BY <1>2, <2>1 DEF SyntaxNode
  <2> HIDE DEF c, d, r
  <2> QED BY <2>2, <1>2 DEF SyntaxNode, Alike, Parts
<1>5. ms \in SUBSET Unleaked /\ "warned" \notin ms
  BY DEF If, Unleaked, Marks
<1> HIDE DEF r, ms, n
<1>6. Marked(ms)
  BY <1>1, <1>5, Marking
<1>7. /\ WarnedKept(n) /\ (Uneven(live') => UnevenAt(path', live', Place))
      /\ (Uneven(Top.out) => UnevenAt(path', live', Place))
  BY <1>1, <1>3, <1>4, TurnKept DEF Alike, n
<1>8. (Uneven(live) => Uneven(live')) /\ (Uneven(Top.saved) => Uneven(live'))
  BY <1>1, UnevenMore
<1> QED BY <1>1, <1>3, <1>5, <1>6, <1>7, <1>8, WarnedStep
LEMMA EndCaseWarned == ASSUME WalkInv, WarnedInv, EndCase PROVE WarnedInv'
<1> DEFINE r == [Top EXCEPT !.part = "between"]
           ms == If(NewIn(openerStack, stackSnapshots[Top.id]), "irregular")
           n == Len(path) - 1
<1>1. /\ path # <<>> /\ Top.part = "case" /\ TopBecomes(r) /\ Mark(ms) /\ live' = live
  BY DEF EndCase
<1>2. NodeShape(Top) /\ Top \in SyntaxNode
  BY <1>1, PlaceKnown
<1>3. Top.kind = "switch"
  BY <1>1, <1>2 DEF NodeShape, PartsOf
<1>4. r \in SyntaxNode /\ Alike(Top, r) /\ r.part = "between" /\ r.out = Top.out
  BY <1>2 DEF SyntaxNode, Alike, Parts
<1>5. ms \in SUBSET Unleaked /\ "warned" \notin ms
  BY DEF If, Unleaked, Marks
<1> HIDE DEF r, ms, n
<1>6. Marked(ms)
  BY <1>1, <1>5, Marking
<1>7. /\ WarnedKept(n) /\ (Uneven(live) => UnevenAt(path', live', Place))
      /\ (Uneven(Top.out) => UnevenAt(path', live', Place))
  BY <1>1, <1>3, <1>4, TurnKept DEF Alike, n
<1> QED BY <1>1, <1>3, <1>5, <1>6, <1>7, WarnedStep
LEMMA NextPartWarned == ASSUME WalkInv, WarnedInv, NextPart PROVE WarnedInv'
<1> DEFINE part == IF Top.part = "block" /\ Top.catch THEN "catch" ELSE "finally"
           original == stackSnapshots[Top.id]
           branches == Recorded(Top.id)
           r == [Top EXCEPT !.part = part, !.out = @ \cup live]
           ms == If(NewIn(openerStack, original), "irregular")
                   \cup If(/\ part = "finally"
                           /\ \E b \in DOMAIN branches : NewIn(original, branches[b]), "beyond")
           n == Len(path) - 1
<1>1. /\ path # <<>> /\ Top.kind = "try" /\ Top.part # "between"
      /\ TopBecomes(r) /\ live' = (IF part = "catch" THEN Top.thrown ELSE Top.out \cup live) /\ Mark(ms)
  BY DEF NextPart
<1>2. part \in Parts /\ part \in {"catch", "finally"}
  BY DEF Parts
<1>4. ms \in SUBSET Unleaked /\ "warned" \notin ms
  BY DEF If, Unleaked, Marks
<1> HIDE DEF ms, part, branches, original
<1>9. r = Turn(Top, part, live)
  BY Zenon DEF Turn
<1> HIDE DEF r, n
<1>3. /\ r \in SyntaxNode /\ Alike(Top, r) /\ r.part = part /\ r.out = Top.out \cup live
  <2>1. Top \in SyntaxNode /\ live \in SUBSET Executions
    BY <1>1, PlaceKnown, TopKnown
  <2> QED BY <2>1, <1>2, <1>9, PartChanged
<1>5. Marked(ms)
  BY <1>1, <1>4, Marking
<1>6. WarnedKept(n) /\ (Uneven(live') => UnevenAt(path', live', Place))
      /\ (part # "finally" /\ Uneven(r.out) => UnevenAt(path', live', Place))
  BY <1>1, <1>3, TurnKept DEF Alike, n
<1>7. Uneven(r.out) => UnevenAt(path', live', Place)
  BY <1>1, <1>2, <1>3, <1>6
<1>8. (Uneven(live) => Uneven(r.out)) /\ (Uneven(Top.out) => Uneven(r.out))
  BY <1>3, UnevenMore
<1>10. Top.kind # "function"
  BY <1>1
<1> QED BY <1>1, <1>4, <1>5, <1>6, <1>7, <1>8, <1>10, WarnedStep

(* A node is left: what it remembers goes on from there.                   *)
LEMMA FrontKept ==
  ASSUME WalkInv, path # <<>>, Top.kind # "function"
  PROVE  /\ Len(path) - 1 \in Nat \ {0} /\ Len(path) - 1 < Len(path) /\ path[Len(path) - 1].depth = Place
         /\ Len(Front(path)) = Len(path) - 1 /\ \A i \in 1..Len(path) - 1 : Front(path)[i] = path[i]
         /\ Len(path) \in Nat /\ Len(path) - 1 \in 1..Len(path) - 1
<1>1. /\ Len(path) \in Nat \ {0} /\ NodePlace(path, Len(path)) /\ path[Len(path)].depth = Place
      /\ path[Len(path)].kind # "function"
  BY PlaceKnown DEF Top
<1>2. /\ Len(Front(path)) = Len(path) - 1 /\ \A i \in 1..Len(path) - 1 : Front(path)[i] = path[i]
  BY FrontIs DEF WalkInv, Typed
<1>3. Len(path) > 1 /\ path[Len(path)].depth = path[Len(path) - 1].depth
  BY <1>1 DEF NodePlace
<1> QED BY <1>1, <1>2, <1>3
LEMMA PoppedWarned ==
  ASSUME WalkInv, WarnedInv, NEW ms, Pops(ms), Top.out \cup live \subseteq live',
         Top.part = "between" /\ Top.cases = 0 => Top.saved \subseteq live',
         Tame(account'[Place]) /\ "warned" \in ms => Uneven(live')
  PROVE  WarnedInv'
<1> DEFINE n == Len(path) - 1
<1>1. path # <<>> /\ Top.kind # "function" /\ path' = Front(path) /\ Marked(ms)
  BY DEF Pops
<1>2. /\ n \in Nat /\ n < Len(path) /\ path[n].depth = Place
      /\ Len(path') = n /\ (\A i \in 1..n : path'[i] = path[i]) /\ n \in 1..n
  BY <1>1, FrontKept
<1>3. \A i \in 1..n : Keeps(path[i], path'[i])
  BY <1>2, KeepsItself
<1>4. WarnedKept(n)
  BY <1>2, <1>3 DEF WarnedKept
<1>5. Uneven(live') => UnevenAt(path', live', Place)
  BY <1>2 DEF UnevenAt
<1>6. (Uneven(live) => Uneven(live')) /\ (Uneven(Top.out) => Uneven(live'))
  BY UnevenMore
<1>7. Top.part = "between" /\ Top.cases = 0 /\ Uneven(Top.saved) => Uneven(live')
  BY UnevenMore
<1> HIDE DEF n
<1> QED BY <1>1, <1>4, <1>5, <1>6, <1>7, WarnedStep
LEMMA ExitLoopWarned == ASSUME WalkInv, WarnedInv, ExitLoop PROVE WarnedInv'
<1> DEFINE ms == {}
<1>1. /\ path # <<>> /\ Top.kind = "loop" /\ live' = Top.saved \cup Top.out \cup live /\ Unmarked
      /\ path' = Front(path) /\ branchStacks' = branchStacks
  BY DEF ExitLoop, maps
<1>2. Marked(ms) /\ "warned" \notin ms
  BY <1>1, Marking
<1> HIDE DEF ms
<1>3. Pops(ms)
  BY <1>1, <1>2 DEF Pops, MapWithout, Branching
<1> QED BY <1>1, <1>2, <1>3, PoppedWarned
(* Two branches that differ, one of them within the other.                 *)
LEMMA BranchesUneven ==
  ASSUME NEW xs, NEW k, Sound(xs, k), NEW o, NEW bs, NEW n \in Nat, DOMAIN bs = 1..n, \A b \in 1..n : bs[b] \subseteq o,
         ~ Exchanged(o, bs), Partial(o, bs), \A b \in 1..n : Level(xs, bs[b])
  PROVE  Uneven(xs)
<1>1. PICK c \in o, a \in 1..n, b \in 1..n : c \in bs[a] \ bs[b]
  BY DEF Partial
<1>2. bs[b] \subseteq bs[a] /\ bs[b] # bs[a]
  BY <1>1, OrderedBranches
<1>3. Over(xs, bs[a]) /\ Under(xs, bs[b])
  BY DEF Level
<1> QED BY <1>2, <1>3, UnevenBy
LEMMA ExitIfWarned == ASSUME WalkInv, FlowInv, WarnedInv, ExitIf PROVE WarnedInv'
<1> DEFINE n == Len(path)
           m == account[Place]
           l == account'[Place]
           s == openerStack
           o == Top.stack
           old == BranchesAt(branchStacks, Top.id)
           bs == Recorded(Top.id)
<1>1. /\ Pops(IfMarks) /\ Top.kind = "if" /\ Top.kind \in Branching
      /\ live' = Top.out \cup live \cup (IF Top.part = "then" THEN Top.saved ELSE {})
      /\ l = m \cup IfMarks /\ path # <<>>
  BY ExitIfPops DEF Pops
<1>2. Top = path[n] /\ NodeShape(Top) /\ n \in 1..n /\ n \in Nat
  BY <1>1, PlaceKnown DEF Top
<1>3. Top.part \in {"then", "else"}
  BY <1>1, <1>2 DEF NodeShape, PartsOf
<1>4. bs \in Seq(SUBSET Calls) /\ BranchCount(Top, Len(old)) /\ bs = Append(old, s) /\ old \in Seq(SUBSET Calls)
  BY <1>1, OriginalIs
<1>5. DOMAIN bs = 1..Len(bs) /\ Len(bs) = Len(old) + 1 /\ bs[Len(old) + 1] = s /\ Len(old) \in Nat
  <2>1. s \in SUBSET Calls
    BY DEF WalkInv, Typed
  <2> QED BY <2>1, <1>4, AppendIs, LenProperties
<1>6. /\ NodeInv(path, n, old, m) /\ (Tame(m) => Level(live, s)) /\ (Tame(m) => Level(Top.saved, o))
  BY <1>1, <1>3, FlowKnown, SavedKnown DEF TopInv
<1>7. m \subseteq l /\ (Tame(l) => Tame(m))
  BY <1>1, MarksGrow
<1>8. Sound(live, stackIndexCounter) /\ Sound(Top.out, stackIndexCounter) /\ Sound(Top.saved, stackIndexCounter)
  BY <1>1, TopKnown
<1>9. ASSUME Tame(l), "warned" \in IfMarks
      PROVE  Uneven(live')
  <2>1. CASE Top.part = "then"
    <3>1. live' = (live \cup Top.saved) \cup Top.out
      BY <1>1, <2>1
    <3>2. Len(bs) = 1 /\ bs[1] = s
      BY <1>4, <1>5, <2>1 DEF BranchCount
    <3>3. \E b \in DOMAIN bs : NewIn(bs[b], o)
      BY <1>9, <2>1 DEF IfMarks, If
    <3>4. NewIn(s, o)
      BY <1>5, <3>2, <3>3
    <3>5. "beyond" \notin IfMarks
      BY <1>1, <1>9 DEF Tame
    <3>6. ~ NewIn(o, s)
      BY <3>3, <3>5, <2>1 DEF IfMarks, If
    <3>7. o \subseteq s /\ o # s
      BY <3>4, <3>6 DEF NewIn
    <3>8. Over(live \cup Top.saved, s) /\ Under(live \cup Top.saved, o)
      BY <1>6, <1>7, <1>9, OverMore
    <3>9. Sound(live \cup Top.saved, stackIndexCounter)
      BY <1>8, SoundTogether
    <3>10. Uneven(live \cup Top.saved)
      BY <3>7, <3>8, <3>9, UnevenBy
    <3> QED BY <3>1, <3>10, UnevenMore
  <2>2. CASE Top.part = "else"
    <3>1. live' = Top.out \cup live
      BY <1>1, <2>2
    <3>2. /\ DOMAIN bs = 1..2 /\ bs[2] = s /\ bs[1] = old[1] /\ Len(old) = 1
      BY <1>1, <2>2, RecordedTwo
    <3>3. "beyond" \notin IfMarks
      BY <1>1, <1>9 DEF Tame
    <3>4. (~ \E b \in DOMAIN bs : NewIn(bs[b], o)) /\ ~ Exchanged(o, bs)
      BY <3>3, <2>2 DEF IfMarks, If
    <3>5. Partial(o, bs)
      BY <3>4, <1>9 DEF IfMarks, If
    <3>6. \A b \in 1..2 : bs[b] \subseteq o
      BY <3>2, <3>4 DEF NewIn
    <3>7. Level(Top.out, old[1])
      <4>1. 1 \in 1..Len(old)
        BY <3>2
      <4> QED BY <4>1, <1>2, <1>6, <1>7, <1>9, <2>2 DEF NodeInv, BranchInv
    <3>8. \A b \in 1..2 : Level(live', bs[b])
      <4>1. Level(live, s)
        BY <1>6, <1>7, <1>9
      <4>2. Level(live', bs[1]) /\ Level(live', bs[2])
        BY <3>1, <3>2, <3>7, <4>1, LevelMore
      <4>3. \A b \in 1..2 : b = 1 \/ b = 2
        OBVIOUS
      <4> QED BY <4>2, <4>3
    <3>9. Sound(live', stackIndexCounter)
      BY <1>8, <3>1, SoundTogether
    <3> HIDE DEF bs, o
    <3> DEFINE k == 2
    <3>10. k \in Nat /\ DOMAIN bs = 1..k /\ (\A b \in 1..k : bs[b] \subseteq o) /\ \A b \in 1..k : Level(live', bs[b])
      BY <3>2, <3>6, <3>8
    <3> HIDE DEF k
    <3> QED BY <3>4, <3>5, <3>9, <3>10, BranchesUneven
  <2> QED BY <1>3, <2>1, <2>2
<1>10. Top.out \cup live \subseteq live' /\ Top.part # "between"
  BY <1>1, <1>3
<1> QED BY <1>1, <1>9, <1>10, PoppedWarned DEF l
LEMMA ExitCatchWarned == ASSUME WalkInv, FlowInv, WarnedInv, ExitCatch PROVE WarnedInv'
<1> DEFINE n == Len(path)
           m == account[Place]
           l == account'[Place]
           s == openerStack
           o == Top.stack
           old == BranchesAt(branchStacks, Top.id)
           bs == Recorded(Top.id)
           k == 2
<1>1. /\ Pops(CatchMarks) /\ Top.kind = "try" /\ Top.kind \in Branching /\ Top.part = "catch" /\ ~ Top.finally
      /\ live' = Top.out \cup live /\ l = m \cup CatchMarks /\ path # <<>>
  BY ExitCatchPops DEF Pops
<1>2. Top = path[n] /\ n \in 1..n /\ n \in Nat
  BY <1>1, PlaceKnown DEF Top
<1>3. /\ DOMAIN bs = 1..2 /\ bs[2] = s /\ bs[1] = old[1] /\ Len(old) = 1 /\ 1 \in 1..Len(old)
  BY <1>1, RecordedTwo
<1>4. /\ NodeInv(path, n, old, m) /\ (Tame(m) => Level(live, s))
  BY <1>1, FlowKnown DEF TopInv
<1>5. Tame(l) => Tame(m) /\ Regular(m)
  BY <1>1, MarksGrow
<1>6. Tame(l) => s \subseteq o /\ ~ Exchanged(o, bs)
  BY <1>1 DEF CatchMarks, If, Tame, NewIn
<1>7. "warned" \in CatchMarks => Partial(o, bs)
  BY DEF CatchMarks, If
<1>8. Sound(live', stackIndexCounter)
  BY <1>1, TopKnown, SoundTogether
<1>9. BranchInv(path, n, old[1], m)
  BY <1>3, <1>4 DEF NodeInv
<1>10. (Regular(m) => old[1] \subseteq o) /\ (Tame(m) => Level(Top.out, old[1]))
  BY <1>1, <1>2, <1>9 DEF BranchInv
<1>11. \A b \in 1..2 : b = 1 \/ b = 2
  OBVIOUS
<1> HIDE DEF n, m, l, s, o, old, bs
<1>12. ASSUME Tame(l), "warned" \in CatchMarks
       PROVE  Uneven(live')
  <2>1. bs[1] \subseteq o /\ bs[2] \subseteq o /\ ~ Exchanged(o, bs) /\ Partial(o, bs)
    BY <1>3, <1>5, <1>6, <1>7, <1>10, <1>12
  <2>2. Level(live', bs[1]) /\ Level(live', bs[2])
    BY <1>1, <1>3, <1>4, <1>5, <1>10, <1>12, LevelMore
  <2>3. k \in Nat /\ DOMAIN bs = 1..k /\ (\A b \in 1..k : bs[b] \subseteq o) /\ \A b \in 1..k : Level(live', bs[b])
    BY <1>3, <1>11, <2>1, <2>2
  <2> HIDE DEF k
  <2> QED BY <2>1, <2>3, <1>8, BranchesUneven
<1>13. Top.out \cup live \subseteq live' /\ Top.part # "between"
  BY <1>1
<1> QED BY <1>1, <1>12, <1>13, PoppedWarned DEF l
LEMMA ExitSwitchWarned == ASSUME WalkInv, FlowInv, WarnedInv, ExitSwitch PROVE WarnedInv'
<1> DEFINE n == Len(path)
           m == account[Place]
           l == account'[Place]
           o == Top.stack
           bs == Branches(Top.id)
           k == Len(bs)
<1>1. /\ Pops(SwitchExitMarks) /\ Top.kind = "switch" /\ Top.kind \in Branching /\ Top.part = "between"
      /\ live' = Top.out \cup live \cup (IF Top.default THEN {} ELSE Top.saved)
      /\ l = m \cup SwitchExitMarks /\ path # <<>>
  BY ExitSwitchPops DEF Pops
<1>2. Top = path[n] /\ NodeShape(Top) /\ Top \in SyntaxNode
  BY <1>1, PlaceKnown DEF Top
<1>3. bs \in Seq(SUBSET Calls) /\ bs = BranchesAt(branchStacks, Top.id) /\ k \in Nat
  BY <1>1, OriginalIs
<1>4. DOMAIN bs = 1..k
  BY <1>3, LenProperties
<1>5. /\ NodeInv(path, n, bs, m) /\ TopInv(Top, bs, live, openerStack, m)
  BY <1>1, <1>3, FlowKnown
<1>6. Tame(l) => Tame(m) /\ Regular(m)
  BY <1>1, MarksGrow
<1>7. /\ Tame(l) => ~ ("beyond" \in SwitchExitMarks)
      /\ "warned" \in SwitchExitMarks => Partial(o, bs)
      /\ "warned" \in SwitchExitMarks /\ "beyond" \notin SwitchExitMarks => ~ Exchanged(o, bs)
  BY <1>1 DEF SwitchExitMarks, If, Tame
<1>8. Sound(Top.out \cup live, stackIndexCounter)
  BY <1>1, TopKnown, SoundTogether
<1>14. Top.cases = 0 => ~ Top.default
  BY <1>2 DEF NodeShape, SyntaxNode
<1> HIDE DEF n, m, l, o, bs, k
<1>9. ASSUME Tame(m), Regular(m), NEW b \in 1..k
      PROVE  bs[b] \subseteq o /\ Level(Top.out \cup live, bs[b])
  <2>1. BranchInv(path, n, bs[b], m)
    BY <1>5 DEF NodeInv, k
  <2>2. bs[b] \subseteq o
    BY <2>1, <1>1, <1>2, <1>9 DEF BranchInv, o
  <2>3. Level(Top.out \cup live, bs[b])
    BY <1>1, <1>5, <1>9 DEF TopInv, k
  <2> QED BY <2>2, <2>3
<1>10. ASSUME Tame(l), "warned" \in SwitchExitMarks
       PROVE  Uneven(live')
  <2>1. Partial(o, bs) /\ ~ Exchanged(o, bs) /\ Tame(m) /\ Regular(m)
    BY <1>6, <1>7, <1>10
  <2>2. Uneven(Top.out \cup live)
    BY <2>1, <1>3, <1>4, <1>8, <1>9, BranchesUneven
  <2> QED BY <2>2, <1>1, UnevenMore
<1>13. Top.out \cup live \subseteq live' /\ (Top.cases = 0 => Top.saved \subseteq live')
  BY <1>1, <1>14
<1> QED BY <1>1, <1>10, <1>13, PoppedWarned DEF l

(* Jumps: the nodes stay, and have more executions to remember.            *)
LEMMA JumpedKeeps ==
  ASSUME NEW p, NEW zs, NEW q, Jumped(p, zs, q)
  PROVE  Len(q) = Len(p) /\ \A i \in 1..Len(p) : Keeps(p[i], q[i])
  BY DEF Jumped, Follows, Alike, SamePart, Keeps
LEMMA JumpedKept ==
  ASSUME WalkInv, path # <<>>, NEW zs, Jumped(path, zs, path')
  PROVE  WarnedKept(Len(path)) /\ Len(path) \in Nat
<1>1. Len(path) \in Nat
  BY PlaceKnown
<1>2. Len(path') = Len(path) /\ \A i \in 1..Len(path) : Keeps(path[i], path'[i])
  BY JumpedKeeps
<1> QED BY <1>1, <1>2 DEF WarnedKept
LEMMA BeyondWarned ==
  ASSUME WalkInv, WarnedInv, NEW to \in 0..Throw, NEW ms \in SUBSET Unleaked, Jumping(to, ms), "beyond" \in ms
  PROVE  WarnedInv'
<1>1. path # <<>>
  BY DEF Jumping, InCode
<1>2. Jumped(path, Towards(to), path') /\ Marked(ms)
  BY JumpingWalks
<1>3. WarnedKept(Len(path))
  BY <1>1, <1>2, JumpedKept
<1>4. ~ Tame(account'[Place])
  BY <1>1, <1>2, MarksKnown DEF Tame
<1> QED BY <1>1, <1>2, <1>3, <1>4, NotTame
LEMMA ReturnWarned == ASSUME WalkInv, WarnedInv, Return PROVE WarnedInv'
<1>1. PICK f \in Around(path, Len(path)) : path[f].id \in 0..Throw /\ Jumping(path[f].id, EarlyMarks)
  BY ReturnJumps
<1>2. EarlyMarks \in SUBSET Unleaked /\ "beyond" \in EarlyMarks
  BY EarlyExitJumps DEF Return, EarlyMarks
<1> QED BY <1>1, <1>2, BeyondWarned
LEMMA ThrowWarned == ASSUME WalkInv, WarnedInv, ThrowStatement PROVE WarnedInv'
<1>1. Throw \in 0..Throw /\ Jumping(Throw, EarlyMarks)
  BY ThrowJumps
<1>2. EarlyMarks \in SUBSET Unleaked /\ "beyond" \in EarlyMarks
  BY EarlyExitJumps DEF ThrowStatement, EarlyMarks
<1> QED BY <1>1, <1>2, BeyondWarned
LEMMA BreakContinueWarned == ASSUME WalkInv, WarnedInv, NEW i, BreakContinue(i) PROVE WarnedInv'
<1>1. path[i].id \in 0..Throw /\ LoopMarks(i) \in SUBSET Unleaked /\ Jumping(path[i].id, LoopMarks(i))
  BY BreakContinueJumps
<1>2. "beyond" \in LoopMarks(i)
  BY DEF LoopMarks
<1> QED BY <1>1, <1>2, BeyondWarned
(* A break of the case that is on top: the switch remembers the executions. *)
LEMMA BreakTopRemembers ==
  ASSUME WalkInv, Jumping(Top.id, {}), Top.kind = "switch", Top.id \in 0..Throw
  PROVE  \A x \in live : \E y \in path'[Len(path)].out : y.open = x.open
<1> DEFINE k == Len(path)
           zs == Towards(Top.id)
<1>1. path # <<>>
  BY DEF Jumping, InCode
<1>2. Jumped(path, zs, path')
  <2>1. {} \in SUBSET Unleaked
    OBVIOUS
  <2> QED BY <2>1, JumpingWalks
<1>3. zs \in SUBSET Executions
  BY <1>1, TowardsTyped
<1>4. /\ k \in Nat /\ k \in 1..k /\ path[k] = Top
  BY <1>1, PlaceKnown DEF Top
<1>5. \A x \in zs : x \in Executions /\ x.to = path[k].id
  BY <1>3, <1>4, TowardsTyped
<1>6. \A x \in live : \E y \in zs : y.open = x.open
  BY <1>4, TowardsTyped
<1>7. path'[k].out = path[k].out \cup Moved(path, zs, k)
  BY <1>2, <1>4 DEF Jumped
<1> HIDE DEF k
<1>8. \A x \in zs : Reaches(path, x, k)
  <2>1. \A j \in k + 1..Len(path) : FALSE
    BY <1>4 DEF k
  <2> QED BY <1>5, <2>1 DEF Reaches, Stops
<1>9. \A x \in zs : x \in Going(path, zs, k)
  BY <1>4, <1>8 DEF Going, Arriving, Catches
<1> HIDE DEF zs
<1>10. ASSUME NEW x \in live
       PROVE  \E y \in path'[k].out : y.open = x.open
  <2>1. PICK z \in zs : z.open = x.open
    BY <1>6
  <2>2. z \in Going(path, zs, k) /\ z \in Executions
    BY <1>5, <1>9
  <2>3. [z EXCEPT !.to = IF @ = path[k].id THEN Here ELSE @] \in path'[k].out
    BY <1>7, <2>2 DEF Moved
  <2>4. [z EXCEPT !.to = IF @ = path[k].id THEN Here ELSE @].open = z.open
    BY <2>2 DEF Executions
  <2> QED BY <2>1, <2>3, <2>4
<1> QED BY <1>10 DEF k
LEMMA BreakTopWarned ==
  ASSUME WalkInv, WarnedInv, Jumping(Top.id, {}), Top.kind = "switch", Top.id \in 0..Throw
  PROVE  WarnedInv'
<1> DEFINE ms == {}
           n == Len(path)
<1>1. path # <<>> /\ Top.part # "between"
  BY DEF Jumping, InCode
<1>2. Jumped(path, Towards(Top.id), path') /\ Marked(ms)
  <2>1. {} \in SUBSET Unleaked
    OBVIOUS
  <2> QED BY <2>1, JumpingWalks
<1>3. /\ WarnedKept(n) /\ n \in Nat /\ n \in 1..n /\ path[n] = Top /\ path[n].depth = Place /\ NodeShape(path[n])
  BY <1>1, <1>2, JumpedKept, PlaceKnown DEF Top
<1>4. Len(path') = n /\ Keeps(path[n], path'[n])
  BY <1>2, <1>3, JumpedKeeps
<1>5. path[n].part # "finally"
  BY <1>3 DEF NodeShape, PartsOf
<1>6. \A x \in live : \E y \in path'[n].out : y.open = x.open
  BY BreakTopRemembers
<1>7. Uneven(live) => Uneven(path'[n].out)
  BY <1>6 DEF Uneven
<1>8. Uneven(live) => UnevenAt(path', live', Place)
  <2>1. path'[n].kind # "function" /\ path'[n].part # "finally" /\ path'[n].depth = Place
    BY <1>3, <1>4, <1>5 DEF Keeps
  <2> QED BY <1>3, <1>4, <1>7, <2>1 DEF UnevenAt
<1>9. "warned" \notin ms /\ ~ (n < Len(path))
  BY <1>3
<1> HIDE DEF ms, n
<1> QED BY <1>1, <1>2, <1>3, <1>8, <1>9, WarnedStep
LEMMA BreakSwitchWarned == ASSUME WalkInv, WarnedInv, NEW i, BreakSwitch(i) PROVE WarnedInv'
<1>1. /\ path[i].kind = "switch" /\ path[i].id \in 0..Throw
      /\ SwitchMarks(i) \in SUBSET Unleaked /\ Jumping(path[i].id, SwitchMarks(i))
  BY BreakSwitchJumps
<1>2. CASE i = Len(path)
  BY <1>1, <1>2, BreakTopWarned DEF SwitchMarks, Top
<1>3. CASE i # Len(path)
  <2>1. "beyond" \in SwitchMarks(i)
    BY <1>3 DEF SwitchMarks
  <2> QED BY <1>1, <2>1, BeyondWarned
<1> QED BY <1>2, <1>3
LEMMA ExitFinallyWarned == ASSUME WalkInv, FlowInv, WarnedInv, ExitFinally PROVE WarnedInv'
<1> DEFINE n == Len(path) - 1
           ms == FinallyMarks
           zs == {x \in live : x.to # Here}
           q == Front(path)
<1>1. /\ path # <<>> /\ Top.kind = "try" /\ Top.part = "finally" /\ Leaves(ms)
      /\ live' = {x \in live : x.to = Here} /\ account[Place] \subseteq account'[Place]
  BY ExitFinallyLeaves
<1>2. Marked(ms)
  BY <1>1 DEF Leaves
<1>3. Jumped(q, zs, path')
  BY ExitFinallyWalks
<1>4. /\ n \in Nat \ {0} /\ n < Len(path) /\ path[n].depth = Place /\ Len(q) = n
      /\ (\A i \in 1..n : q[i] = path[i]) /\ n \in 1..n
  BY <1>1, FrontKept
<1>5. Len(path') = n /\ \A i \in 1..n : Keeps(path[i], path'[i])
  <2>1. Len(path') = Len(q) /\ \A i \in 1..Len(q) : Keeps(q[i], path'[i])
    BY <1>3, JumpedKeeps
  <2> QED BY <1>4, <2>1
<1>6. WarnedKept(n)
  BY <1>4, <1>5 DEF WarnedKept
<1>7. Tame(account'[Place]) => live' = live
  <2>1. Tame(account'[Place]) => Tame(account[Place])
    BY <1>1, MarksGrow
  <2>2. PlaceInv(path, Len(path), live, openerStack, account[Place])
    BY <1>1, FlowKnown
  <2> QED BY <1>1, <2>1, <2>2 DEF PlaceInv, Stay
<1>8. Uneven(live') => UnevenAt(path', live', Place)
  <2>1. path'[n].depth = Place
    BY <1>4, <1>5 DEF Keeps
  <2> QED BY <1>4, <1>5, <2>1 DEF UnevenAt
<1>9. "warned" \notin ms /\ Top.kind # "function"
  BY <1>1 DEF FinallyMarks, If
<1> HIDE DEF n, ms, zs, q
<1> QED BY <1>1, <1>2, <1>6, <1>7, <1>8, <1>9, WarnedStep

(* A function is entered: the one around it holds its executions in what   *)
(* the new node has saved; and it is left: they are live again.            *)
LEMMA EnterFunctionWarned == ASSUME WalkInv, WarnedInv, EnterFunction PROVE WarnedInv'
<1> DEFINE r == Node("function", "body")
           n == Len(path)
<1>1. /\ nodes < MaxNodes /\ (path # <<>> => Top.part # "between") /\ path' = Append(path, r)
      /\ account' = Append(account, {})
  BY DEF EnterFunction, InCode
<1>2. /\ r \in SyntaxNode /\ r.saved = live /\ r.kind = "function"
  BY <1>1, NodeIs DEF Kinds, PartsOf, Enterable
<1> HIDE DEF r
<1>3. Longer(r, path') /\ path'[Len(path')] = r
  BY <1>1, <1>2, LongerAppend
<1>4. account \in Seq(SUBSET Unleaked) /\ {} \in SUBSET Unleaked /\ path \in Seq(SyntaxNode)
  BY DEF WalkInv, Typed, Unleaked
<1>5. Place' = Place + 1 /\ Place \in Nat /\ account'[Place + 1] = {} /\ \A d \in 1..Place : account'[d] = account[d]
  BY <1>1, <1>4, AppendIs, LenProperties DEF Place
<1>6. Len(path') = n + 1 /\ n \in Nat /\ \A i \in 1..n : Keeps(path[i], path'[i])
  BY <1>3, <1>4, LenProperties, KeepsItself DEF Longer
<1>7. path = <<>> => Place = 0
  BY DEF WalkInv, Walk, Syntax
<1>8. ASSUME NEW d \in 1..Place, Tame(account'[d]), "warned" \in account'[d]
      PROVE  UnevenAt(path', live', d)
  <2>1. UnevenAt(path, live, d)
    BY <1>5, <1>8 DEF WarnedInv
  <2>2. path # <<>>
    BY <1>7
  <2>3. n \in Nat \ {0} /\ Top = path[n] /\ n \in 1..n
    BY <2>2, PlaceKnown DEF Top
  <2>4. path[n].depth = d /\ Uneven(live) => UnevenAt(path', live', d)
    <3> SUFFICES ASSUME path[n].depth = d, Uneven(live)
                 PROVE  UnevenAt(path', live', d)
      OBVIOUS
    <3>1. path'[n + 1].kind = "function" /\ Uneven(path'[n + 1].saved)
      BY <1>2, <1>3, <1>6
    <3>2. path'[n].depth = d
      BY <1>6, <2>3 DEF Keeps
    <3>3. n \in 1..Len(path') /\ n + 1 \in 1..Len(path')
      BY <1>6, <2>3
    <3> HIDE DEF n
    <3> QED BY <3>1, <3>2, <3>3 DEF UnevenAt
  <2>5. path[n].part # "between"
    BY <1>1, <2>2, <2>3
  <2>6. n <= Len(path') /\ ~ (n < n) /\ Len(path') \in Nat
    BY <1>6
  <2>7. n \in {Len(path) - 1, Len(path)} /\ n = Len(path)
    OBVIOUS
  <2> HIDE DEF n
  <2> QED BY <1>6, <2>1, <2>3, <2>4, <2>5, <2>6, <2>7, UnevenCarries
<1>9. ASSUME NEW d \in 1..Place', d \notin 1..Place
      PROVE  "warned" \notin account'[d]
  <2>1. d = Place + 1
    BY <1>5, <1>9
  <2> QED BY <1>5, <2>1
<1> QED BY <1>8, <1>9 DEF WarnedInv
LEMMA ExitFunctionWarned == ASSUME WalkInv, WarnedInv, ExitFunction PROVE WarnedInv'
<1> DEFINE n == Len(path) - 1
<1>1. /\ path # <<>> /\ Top.kind = "function" /\ live' = Top.saved /\ path' = Front(path)
      /\ Place' = Place - 1 /\ \A d \in 1..Place - 1 : account'[d] = account[d]
  BY ExitFunctionWalks DEF ExitFunction
<1>2. /\ Len(path) \in Nat \ {0} /\ path[Len(path)] = Top /\ path[Len(path)].depth = Place /\ Place \in Nat \ {0}
  BY <1>1, PlaceKnown DEF Top
<1>3. Len(path') = n /\ \A i \in 1..n : path'[i] = path[i]
  BY <1>1, FrontIs DEF WalkInv, Typed
<1>4. \A i \in 1..n : Keeps(path[i], path'[i])
  BY <1>3, KeepsItself
<1>5. ASSUME NEW d \in 1..Place - 1, Tame(account'[d]), "warned" \in account'[d]
      PROVE  UnevenAt(path', live', d)
  <2>1. UnevenAt(path, live, d)
    BY <1>1, <1>2, <1>5 DEF WarnedInv
  <2>2. path[Len(path)].depth # d
    BY <1>2
  <2>3. n > 0 /\ path[n].depth = d /\ Uneven(path[Len(path)].saved) => UnevenAt(path', live', d)
    <3> SUFFICES ASSUME n > 0, path[n].depth = d, Uneven(path[Len(path)].saved)
                 PROVE  UnevenAt(path', live', d)
      OBVIOUS
    <3>1. n \in 1..n
      BY <1>2
    <3> QED BY <1>1, <1>2, <1>3, <3>1 DEF UnevenAt
  <2>4. n \in {Len(path) - 1, Len(path)} /\ n <= Len(path') /\ Len(path') \in Nat
    BY <1>2, <1>3
  <2> HIDE DEF n
  <2> QED BY <1>2, <1>4, <2>1, <2>2, <2>3, <2>4, UnevenCarries
<1> QED BY <1>1, <1>5 DEF WarnedInv

-----------------------------------------------------------------------------
(* Warnings along the whole walk.                                          *)
LEMMA WarnedStarts == ASSUME Init PROVE WarnedInv
<1>1. Place = 0 /\ \A d \in 1..0 : FALSE
  BY DEF Init, Place
<1> QED BY <1>1 DEF WarnedInv
LEMMA WarnedStutters == ASSUME WarnedInv, UNCHANGED vars PROVE WarnedInv'
<1>1. path' = path /\ live' = live /\ account' = account
  BY DEF vars, stacks, maps, flags
<1> QED BY <1>1, Zenon DEF WarnedInv, Place
LEMMA WarnedSteps == ASSUME WalkInv, FlowInv, WarnedInv, [Next]_vars PROVE WarnedInv'
<1>1. CASE EnterFunction
  BY <1>1, EnterFunctionWarned
<1>2. CASE ExitFunction
  BY <1>2, ExitFunctionWarned
<1>3. CASE EnterIf
  BY <1>3, EnterIfIsFresh, FreshWarned
<1>4. CASE Else
  BY <1>4, ElseWarned
<1>5. CASE ExitIf
  BY <1>5, ExitIfWarned
<1>6. CASE EnterLoop
  BY <1>6, EnterLoopIsFresh, FreshWarned
<1>7. CASE ExitLoop
  BY <1>7, ExitLoopWarned
<1>8. CASE EnterSwitch
  BY <1>8, EnterSwitchIsFresh, FreshWarned
<1>9. CASE \E default \in BOOLEAN : BeginCase(default)
  BY <1>9, BeginCaseWarned
<1>10. CASE EndCase
  BY <1>10, EndCaseWarned
<1>11. CASE ExitSwitch
  BY <1>11, ExitSwitchWarned
<1>12. CASE \E catch, finally \in BOOLEAN : EnterTry(catch, finally)
  BY <1>12, EnterTryIsGuarded, GuardedWarned
<1>13. CASE NextPart
  BY <1>13, NextPartWarned
<1>14. CASE ExitCatch
  BY <1>14, ExitCatchWarned
<1>15. CASE ExitFinally
  BY <1>15, ExitFinallyWarned
<1>16. CASE Return
  BY <1>16, ReturnWarned
<1>17. CASE ThrowStatement
  BY <1>17, ThrowWarned
<1>18. CASE \E i \in DOMAIN path : BreakContinue(i) \/ BreakSwitch(i)
  BY <1>18, BreakContinueWarned, BreakSwitchWarned
<1>19. CASE \E opener \in Openers : Open(opener)
  BY <1>19, OpenWarned
<1>20. CASE \E closer \in Closers : Close(closer)
  BY <1>20, CloseWarned
<1>21. CASE Yield
  BY <1>21, YieldWarned
<1>22. CASE UNCHANGED vars
  BY <1>22, WarnedStutters
<1> QED BY <1>1, <1>2, <1>3, <1>4, <1>5, <1>6, <1>7, <1>8, <1>9, <1>10, <1>11, <1>12, <1>13, <1>14, <1>15,
           <1>16, <1>17, <1>18, <1>19, <1>20, <1>21, <1>22 DEF Next

(* Where a function ends no node is left that could remember uneven        *)
(* executions of it, but those that are live.                              *)
LEMMA UnevenEnds ==
  ASSUME WalkInv, path # <<>>, Top.kind = "function", UnevenAt(path, live, Place)
  PROVE  Uneven(live)
<1> DEFINE k == Len(path)
<1>1. /\ k \in Nat \ {0} /\ k \in 1..k /\ path[k] = Top /\ NodeShape(Top) /\ Place \in Nat
      /\ \A i \in 1..k : path[i] \in SyntaxNode /\ path[i].depth \in 1..Place
  BY PlaceKnown DEF Top
<1>2. path[k].depth = Place
  BY PlaceKnown
<1>3. Top.part # "between"
  BY <1>1 DEF NodeShape, PartsOf
<1>4. ASSUME NEW i \in 1..k, i < k
      PROVE  path[i].depth < Place
  BY <1>1, <1>2, <1>4, TopBefore DEF Before
<1>5. ASSUME NEW i \in 1..k, NEW j \in 1..k, j = i + 1, path[i].depth = Place
      PROVE  FALSE
  <2>1. i < k
    BY <1>1, <1>5
  <2>2. path[i].depth < Place
    BY <1>4, <2>1
  <2> QED BY <1>1, <1>5, <2>2
<1>6. ASSUME NEW i \in 1..k, path[i].kind # "function", path[i].depth = Place
      PROVE  FALSE
  <2>1. i < k
    BY <1>1, <1>6
  <2>2. path[i].depth < Place
    BY <1>4, <2>1
  <2> QED BY <1>1, <1>6, <2>2
<1> QED BY <1>1, <1>3, <1>5, <1>6 DEF UnevenAt

(* A warning of a tame function that no execution leaves with an open call:*)
(* all are without one, and so is the stack.                               *)
LEMMA WarningsJudged ==
  ASSUME WalkInv, FlowInv, WarnedInv, EveryWarningJustified, [Next]_vars
  PROVE  EveryWarningJustified'
<1>1. CASE ~ ExitFunction
  BY <1>1, OnlyExitJudges DEF EveryWarningJustified
<1>2. CASE ExitFunction
  <2> SUFFICES ASSUME "warned" \in verdict', verdict' \cap {"irregular", "beyond"} = {},
                      "leaked" \notin verdict', "wrong" \notin verdict'
               PROVE  FALSE
    BY DEF EveryWarningJustified
  <2>1. /\ path # <<>> /\ Top.kind = "function" /\ account[Place] \in SUBSET (Marks \ {"leaked"})
        /\ verdict' = account[Place] \cup If(openerStack # {}, "warned") \cup If(Leaking, "leaked")
    BY <1>2, ExitJudges
  <2>2. Tame(account[Place])
    BY <2>1 DEF Tame
  <2>3. ~ Leaking
    BY <2>1 DEF If
  <2>4. \A x \in live : x.open = {}
    BY <2>3 DEF Leaking
  <2>5. TopInv(Top, BranchesAt(branchStacks, Top.id), live, openerStack, account[Place]) /\ NodeShape(Top) /\ Place \in 1..Place
    BY <2>1, FlowKnown, PlaceKnown
  <2>6. Top.part = "body"
    BY <2>1, <2>5 DEF NodeShape, PartsOf
  <2>7. Level(live, openerStack)
    BY <2>2, <2>5, <2>6 DEF TopInv
  <2>8. openerStack = {}
    BY <2>4, <2>7 DEF Level, Over
  <2>9. "warned" \in account[Place]
    BY <2>1, <2>8 DEF If
  <2>10. UnevenAt(path, live, Place)
    BY <2>2, <2>5, <2>9 DEF WarnedInv
  <2>11. Uneven(live)
    BY <2>1, <2>10, UnevenEnds
  <2> QED BY <2>4, <2>11 DEF Uneven
<1> QED BY <1>1, <1>2

(* A function without early exits is warned of only if some execution      *)
(* leaves with an open call, closes what is not open, or yields: where the *)
(* rule warns two executions differ in the number of their open calls, and *)
(* the calls after that change both numbers alike.                         *)
THEOREM PairedCallsWarningsJustified == Spec => []EveryWarningJustified
<1>1. Init => IInv /\ EveryWarningJustified
  BY WalkStarts, FlowStarts, WarnedStarts DEF Init, IInv, EveryWarningJustified
<1>2. (IInv /\ EveryWarningJustified) /\ [Next]_vars => (IInv /\ EveryWarningJustified)'
  BY WalkSteps, FlowSteps, WarnedSteps, WarningsJudged DEF IInv
<1> QED BY <1>1, <1>2, PTL DEF Spec
=============================================================================
