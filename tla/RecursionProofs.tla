-------------------------- MODULE RecursionProofs ---------------------------
(***************************************************************************)
(* Proofs about Recursion.tla, for files of any size with any names.       *)
(*                                                                         *)
(* The walk: the stack of names answers as the syntax tree does, so that   *)
(* the recorded graph is the part of the call graph that the rule can see. *)
(* The search: what is black calls, outside marked cycles, only what is    *)
(* black already or no function of the file. A function that turns black   *)
(* therefore does not reach itself by calls that are left, and what is     *)
(* marked lies on the path of a cycle.                                     *)
(***************************************************************************)
EXTENDS Recursion, SequenceTheorems, WellFoundedInduction, TLAPS

(* The names of functions are not the rule's words for none and inner.     *)
RecursionAssumption == Undefined \notin Names /\ Inner \notin Names

(* Open nodes: functions, variables with one, and methods have names.      *)
Nodes ==
  {x \in [kind : {"function", "variable", "method", "callback", "class"},
          name : Names \cup {Undefined}, inner : BOOLEAN] :
     x.name \in Names <=> x.kind \in {"function", "variable", "method"}}

(* How much of the stack an open node has, and where: behind pos[i] of the *)
(* stack are the entries of the first i nodes. Of the entries of a node    *)
(* only the first can be defined, and it is the node's name.               *)
Width(x) == CASE x.kind = "class" -> 0 [] x.kind = "variable" -> 2 [] OTHER -> 1
Placed(p, stack, pos) ==
  /\ pos[0] = 0 /\ pos[Len(p)] = Len(stack)
  /\ \A i \in 1..Len(p) :
       /\ pos[i] = pos[i - 1] + Width(p[i])
       /\ p[i].name \in Names => stack[pos[i - 1] + 1] = p[i].name
       /\ \A k \in 1..Len(stack) :
            pos[i - 1] < k /\ k <= pos[i] /\ stack[k] # Undefined =>
              k = pos[i - 1] + 1 /\ p[i].name \in Names
  /\ \A i, j \in 0..Len(p) : i <= j => pos[i] <= pos[j]
  /\ \A k \in 1..Len(stack) : \E i \in 1..Len(p) : pos[i - 1] < k /\ k <= pos[i]

Walks ==
  /\ path \in Seq(Nodes) /\ functionStack \in Seq(Names \cup {Undefined})
  /\ \A n \in Names : n \in ToSet(functionStack) => n \in ToSet(registered)
  /\ \E pos \in [0..Len(path) -> Nat] : Placed(path, functionStack, pos)

(* The rule's graph is the part of the call graph that it can see.         *)
GraphIsSeen ==
  /\ registered \in Seq(Known) /\ callees \in [Known -> Seq(Known)]
  /\ CallsAsRead \subseteq Names \X Names
  /\ \A x \in later : x.caller \in Names
  /\ callSites \subseteq Names \X Known
  /\ \A s \in callSites : s[1] \in ToSet(registered) /\ s[2] \in ToSet(callees[s[1]])
  /\ \A u \in Known : \A v \in ToSet(callees[u]) : <<u, v>> \in callSites
  /\ calls \ unseen \subseteq callSites
  /\ callSites \cap (Names \X Names) \subseteq CallsAsRead

(* The calls that are seen and not in a marked cycle.                      *)
Both(u, v) == u \in inCycle /\ v \in inCycle
Unmarked == {e \in calls \ unseen : ~ Both(e[1], e[2])}
(* A call that the search is through with.                                 *)
Settled(u, v) == v \notin ToSet(registered) \/ color[v] = "black" \/ Both(u, v)

(* The path of the search: gray functions, each called by the one before.  *)
PathIsGray ==
  /\ color \in [ToSet(registered) -> {"white", "gray", "black"}]
  /\ search \in Seq([node : ToSet(registered), next : Nat \ {0}])
  /\ \A i, j \in 1..Len(search) : search[i].node = search[j].node => i = j
  /\ \A n \in ToSet(registered) : color[n] = "gray" <=> \E i \in 1..Len(search) : search[i].node = n
Follows(i) ==
  LET visited == search[i].next - 1
  IN  /\ visited \in 1..Len(callees[search[i].node])
      /\ callees[search[i].node][visited] = search[i + 1].node
PathIsOfCalls == \A i \in 1..(Len(search) - 1) : Follows(i)

(* What was visited is settled, but for the call that is being visited.    *)
VisitedAreSettled ==
  /\ \A i \in 1..Len(search) : \A u \in ToSet(registered), v \in Known :
       \A k \in 1..Len(callees[u]) :
         u = search[i].node /\ v = callees[u][k] /\ k < search[i].next =>
           Settled(u, v) \/ (i < Len(search) /\ k = search[i].next - 1)
  /\ \A u \in ToSet(registered) : color[u] = "black" =>
       \A v \in ToSet(callees[u]) : Settled(u, v)
BlackAreDone ==
  \A n \in Names \cap ToSet(registered) : color[n] = "black" => n \notin Reached(Unmarked, n)
MarkedAreRecursive == \A n \in inCycle : n \in Names /\ n \in Reached(CallsAsRead, n)

Searches ==
  /\ PathIsGray /\ PathIsOfCalls /\ VisitedAreSettled /\ BlackAreDone /\ MarkedAreRecursive

IInv ==
  /\ phase \in {"walk", "search", "done"} /\ GraphIsSeen
  /\ phase = "walk" => Walks /\ search = <<>> /\ inCycle = {} /\ reported = {}
  /\ phase # "walk" => Searches
  /\ phase = "search" => reported = {}
  /\ phase = "done" =>
       /\ search = <<>> /\ \A n \in ToSet(registered) : color[n] # "white"
       /\ reported = {s \in callSites : Both(s[1], s[2])}

-----------------------------------------------------------------------------
(* A set of numbers that is not empty has a least element.                 *)
LEMMA LeastIsIn ==
  ASSUME NEW T \in SUBSET Nat, T # {}
  PROVE  Min(T) \in T /\ \A j \in T : Min(T) <= j
<1> DEFINE less == OpToRel(<, Nat)
<1>1. IsWellFoundedOn(less, Nat)
  BY NatLessThanWellFounded
<1>2. \A x, y \in Nat : y < x => <<y, x>> \in less
  BY DEF OpToRel
<1> HIDE DEF less
<1>3. PICK m \in T : \A k \in T : ~ (<<k, m>> \in less)
  BY <1>1, WFMin
<1>4. \A k \in Nat : ~ (k < m) => m <= k
  OBVIOUS
<1>5. \A k \in T : m <= k
  BY <1>2, <1>3, <1>4
<1> QED
  BY <1>3, <1>5 DEF Min

(* A set of indices that is not empty has a greatest element.              *)
LEMMA GreatestIsIn ==
  ASSUME NEW n \in Nat, NEW T \in SUBSET (1..n), T # {}
  PROVE  Max(T) \in T /\ \A j \in T : j <= Max(T)
<1> DEFINE back == {n - t : t \in T}
<1>1. back \in SUBSET Nat /\ back # {}
  <2>1. \A t \in T : t \in Nat /\ n - t \in Nat
    OBVIOUS
  <2> QED
    BY <2>1
<1>2. Min(back) \in back /\ \A j \in back : Min(back) <= j
  BY <1>1, LeastIsIn
<1>3. PICK m \in T : Min(back) = n - m
  BY <1>2
<1>4. \A j \in T : n - m <= n - j
  BY <1>2, <1>3
<1>5. \A j \in T : j <= m
  <2> SUFFICES ASSUME NEW j \in T PROVE j <= m
    OBVIOUS
  <2>1. n - m <= n - j /\ j \in Nat /\ m \in Nat
    BY <1>4
  <2> QED
    BY <2>1
<1>6. \A j \in T : j \in Nat
  OBVIOUS
<1>7. \A j \in T : m >= j
  BY <1>5, <1>6
<1>8. \A i, j \in T : i >= j => j <= i
  BY <1>6
<1>9. Max(T) \in T /\ \A j \in T : Max(T) >= j
  BY <1>7 DEF Max
<1> QED
  BY <1>8, <1>9

(* What holds of a and is passed on to the next number holds up to b.      *)
LEMMA Chain ==
  ASSUME NEW a \in Nat, NEW b \in Nat, NEW T,
         a \in T, \A i \in a..b : i \in T /\ i < b => i + 1 \in T
  PROVE  \A i \in a..b : i \in T
<1> DEFINE bad == {i \in a..b : i \notin T}
<1> SUFFICES ASSUME bad # {} PROVE FALSE
  OBVIOUS
<1>1. bad \in SUBSET Nat
  OBVIOUS
<1> DEFINE m == Min(bad)
<1>2. m \in bad /\ \A j \in bad : m <= j
  BY <1>1, LeastIsIn
<1>3. m \in a..b /\ m \notin T /\ m # a
  BY <1>2
<1> HIDE DEF m
<1>4. m - 1 \in a..b /\ m - 1 < b /\ ~ (m <= m - 1) /\ (m - 1) + 1 = m
  BY <1>3
<1>5. m - 1 \in T
  BY <1>2, <1>4
<1> QED
  BY <1>3, <1>4, <1>5

(* The first n elements of a sequence.                                     *)
LEMMA FirstOnes ==
  ASSUME NEW S, NEW s \in Seq(S), NEW n \in 0..Len(s)
  PROVE  /\ SubSeq(s, 1, n) \in Seq(S) /\ Len(SubSeq(s, 1, n)) = n
         /\ \A i \in 1..n : SubSeq(s, 1, n)[i] = s[i]
<1>1. Len(s) \in Nat
  BY LenProperties
<1>2. \A i \in 1..Len(s) : s[i] \in S
  BY ElementOfSeq
<1>3. n \in Int /\ 1 \in Int /\ n - 1 + 1 = n /\ (IF 1 <= n THEN n - 1 + 1 ELSE 0) = n
  BY <1>1
<1>4. \A i \in 1..n : i \in 1..Len(s) /\ 1 + i - 1 = i
  BY <1>1
<1>5. \A i \in 1..n : s[i] \in S
  BY <1>2, <1>4
<1>6. /\ SubSeq(s, 1, n) \in Seq(S)
      /\ Len(SubSeq(s, 1, n)) = IF 1 <= n THEN n - 1 + 1 ELSE 0
      /\ \A i \in 1..n - 1 + 1 : SubSeq(s, 1, n)[i] = s[1 + i - 1]
  BY <1>3, <1>5, SubSeqProperties
<1> QED
  BY <1>3, <1>4, <1>6

-----------------------------------------------------------------------------
(* The stack of names.                                                     *)

(* An open node has at most two entries, and one at least if it has a name.*)
LEMMA WidthTyped ==
  ASSUME NEW x \in Nodes
  PROVE  Width(x) \in 0..2 /\ (x.name \in Names => Width(x) >= 1)
BY DEF Width, Nodes

(* Looking down the stack finds the innermost function with a name.        *)
LEMMA StackAnswers ==
  ASSUME RecursionAssumption, NEW p \in Seq(Nodes), NEW stack \in Seq(Names \cup {Undefined}),
         NEW pos \in [0..Len(p) -> Nat], Placed(p, stack, pos)
  PROVE  Enclosing(stack) = CallerIn(p)
<1> DEFINE n == Len(p)
           m == Len(stack)
           named == {i \in 1..n : p[i].name \in Names}
           defined == {k \in 1..m : stack[k] # Undefined}
<1>1. n \in Nat /\ m \in Nat /\ DOMAIN p = 1..n /\ DOMAIN stack = 1..m
  OBVIOUS
<1>2. \A i \in 1..n : p[i] \in Nodes /\ pos[i] \in Nat /\ pos[i - 1] \in Nat
                       /\ i \in 0..n /\ i - 1 \in 0..n
  BY <1>1
<1>3. \A i \in 1..n : /\ Width(p[i]) \in 0..2
                       /\ p[i].name \in Names => Width(p[i]) >= 1
  BY <1>2, WidthTyped
<1>4. pos[0] = 0 /\ pos[n] = m
  BY DEF Placed
<1>5. \A i \in 1..n : pos[i] = pos[i - 1] + Width(p[i])
  BY DEF Placed
<1>6. \A i \in named : stack[pos[i - 1] + 1] = p[i].name
  BY DEF Placed
<1>7. \A i \in 1..n, k \in defined :
        pos[i - 1] < k /\ k <= pos[i] => k = pos[i - 1] + 1 /\ i \in named
  BY DEF Placed
<1>8. \A i, j \in 0..n : i <= j => pos[i] <= pos[j]
  BY DEF Placed
<1>9. \A k \in 1..m : \E i \in 1..n : pos[i - 1] < k /\ k <= pos[i]
  BY DEF Placed
<1>10. Enclosing(stack) = IF defined = {} THEN Undefined ELSE stack[Max(defined)]
  BY <1>1 DEF Enclosing
<1>11. CallerIn(p) = IF named = {} THEN Undefined ELSE p[Max(named)].name
  BY <1>1 DEF CallerIn
<1>12. CASE named = {}
  <2>1. defined = {}
    BY <1>7, <1>9, <1>12
  <2> QED
    BY <2>1, <1>10, <1>11, <1>12
<1>13. CASE named # {}
  <2> DEFINE i == Max(named)
             k == pos[i - 1] + 1
  <2> HIDE DEF i, n, m
  <2>1. i \in named /\ \A j \in named : j <= i
    BY <1>1, <1>13, GreatestIsIn DEF i
  <2>2. i \in 1..n /\ i \in 0..n /\ i - 1 \in 0..n /\ pos[i - 1] \in Nat /\ pos[i] \in Nat /\ p[i].name \in Names
    BY <2>1, <1>2
  <2>3. pos[i] >= k /\ k \in Nat
    <3>1. Width(p[i]) \in 0..2 /\ (p[i].name \in Names => Width(p[i]) >= 1)
      <4>1. p[i] \in Nodes
        BY <2>2, <1>2
      <4> QED
        BY <4>1, WidthTyped
    <3>2. pos[i] = pos[i - 1] + Width(p[i])
      BY <2>2, <1>5
    <3>3. \A a \in Nat, b \in 0..2 : b >= 1 => a + b >= a + 1 /\ a + 1 \in Nat
      OBVIOUS
    <3> QED
      BY <2>2, <3>1, <3>2, <3>3
  <2>4. pos[i] <= m
    <3>1. i <= n /\ n \in 0..n
      BY <2>2, <1>1
    <3> QED
      BY <2>2, <3>1, <1>4, <1>8
  <2>5. k \in 1..m
    BY <2>2, <2>3, <2>4, <1>1
  <2>6. stack[k] = p[i].name /\ stack[k] # Undefined
    BY <2>1, <2>2, <1>6 DEF RecursionAssumption
  <2>7. k \in defined
    BY <2>5, <2>6
  <2>8. ASSUME NEW l \in defined PROVE k >= l
    <3>1. PICK j \in 1..n : pos[j - 1] < l /\ l <= pos[j]
      BY <1>9
    <3>2. l = pos[j - 1] + 1 /\ j \in named
      BY <1>7, <3>1
    <3>3. j <= i
      BY <2>1, <3>2
    <3>4. j - 1 \in 0..n /\ j - 1 <= i - 1 /\ pos[j - 1] \in Nat
      BY <2>2, <3>1, <3>3, <1>1, <1>2
    <3>5. pos[j - 1] <= pos[i - 1]
      BY <1>8, <2>2, <3>4
    <3> QED
      BY <3>2, <3>4, <3>5, <2>2
  <2>9. Max(defined) = k
    <3>1. Max(defined) \in defined /\ \A j \in defined : j <= Max(defined)
      BY <1>1, <2>7, GreatestIsIn
    <3>2. Max(defined) \in 1..m
      BY <3>1
    <3>3. k >= Max(defined) /\ k <= Max(defined)
      BY <2>7, <2>8, <3>1
    <3> QED
      BY <3>2, <3>3, <2>5, <1>1
  <2> QED
    BY <2>6, <2>7, <2>9, <1>10, <1>11, <1>13 DEF i
<1> QED
  BY <1>12, <1>13

(* A node is opened, and what it has on the stack is pushed.               *)
LEMMA Pushed ==
  ASSUME NEW p \in Seq(Nodes), NEW stack \in Seq(Names \cup {Undefined}),
         NEW pos \in [0..Len(p) -> Nat], Placed(p, stack, pos), NEW x \in Nodes,
         NEW q \in Seq(Nodes), q = Append(p, x), NEW stack2 \in Seq(Names \cup {Undefined}),
         Len(stack2) = Len(stack) + Width(x), \A k \in 1..Len(stack) : stack2[k] = stack[k],
         x.name \in Names => stack2[Len(stack) + 1] = x.name,
         x.name \notin Names /\ Width(x) = 1 => stack2[Len(stack) + 1] = Undefined,
         Width(x) = 2 => x.name \in Names /\ stack2[Len(stack) + 2] = Undefined
  PROVE  \E pos2 \in [0..Len(q) -> Nat] : Placed(q, stack2, pos2)
<1> DEFINE n == Len(p)
           m == Len(stack)
           w == Width(x)
           pos2 == [i \in 0..(n + 1) |-> IF i <= n THEN pos[i] ELSE m + w]
<1>1. n \in Nat /\ m \in Nat /\ Len(q) = n + 1 /\ q[n + 1] = x /\ \A i \in 1..n : q[i] = p[i]
  OBVIOUS
<1>2. w \in 0..2 /\ (x.name \in Names => w >= 1)
  BY WidthTyped
<1>3. Len(stack2) = m + w
  OBVIOUS
<1>4. pos[0] = 0 /\ pos[n] = m /\ pos \in [0..n -> Nat]
  BY DEF Placed
<1>5. ASSUME NEW i \in 1..n
      PROVE  /\ pos[i] = pos[i - 1] + Width(p[i])
             /\ p[i].name \in Names => stack[pos[i - 1] + 1] = p[i].name
             /\ \A k \in 1..m : pos[i - 1] < k /\ k <= pos[i] /\ stack[k] # Undefined =>
                   k = pos[i - 1] + 1 /\ p[i].name \in Names
             /\ p[i] \in Nodes
  BY DEF Placed
<1>6. \A i, j \in 0..n : i <= j => pos[i] <= pos[j]
  BY DEF Placed
<1>7. \A k \in 1..m : \E i \in 1..n : pos[i - 1] < k /\ k <= pos[i]
  BY DEF Placed
<1>8. \A k \in 1..m : stack2[k] = stack[k]
  OBVIOUS
<1>9. /\ x.name \in Names => stack2[m + 1] = x.name
      /\ x.name \notin Names /\ w = 1 => stack2[m + 1] = Undefined
      /\ w = 2 => x.name \in Names /\ stack2[m + 2] = Undefined
  OBVIOUS
<1> HIDE DEF n, m, w
<1>10. pos2 \in [0..(n + 1) -> Nat] /\ pos2[n + 1] = m + w /\ pos2[0] = 0
       /\ \A i \in 0..n : pos2[i] = pos[i]
  BY <1>1, <1>2, <1>4
<1> HIDE DEF pos2
<1>11. \A i \in 0..n : pos[i] \in Nat /\ pos[i] <= m
  BY <1>1, <1>4, <1>6
<1>12. ASSUME NEW i \in 1..(n + 1)
       PROVE  /\ pos2[i] = pos2[i - 1] + Width(q[i])
              /\ q[i].name \in Names => stack2[pos2[i - 1] + 1] = q[i].name
              /\ \A k \in 1..(m + w) : pos2[i - 1] < k /\ k <= pos2[i] /\ stack2[k] # Undefined =>
                    k = pos2[i - 1] + 1 /\ q[i].name \in Names
  <2>1. CASE i = n + 1
    <3>1. pos2[i - 1] = m /\ pos2[i] = m + w /\ q[i] = x
      <4>1. i - 1 = n /\ n \in 0..n
        BY <2>1, <1>1
      <4> QED
        BY <4>1, <2>1, <1>1, <1>4, <1>10
    <3>2. ASSUME NEW k \in 1..(m + w), m < k, k <= m + w, stack2[k] # Undefined
          PROVE  k = m + 1 /\ x.name \in Names
      <4>1. (k = m + 1 /\ w >= 1) \/ (k = m + 2 /\ w = 2)
        <5>1. m \in Nat /\ k \in Nat /\ m < k /\ k <= m + w
          BY <3>2, <1>1, <1>2
        <5>2. w = 0 \/ w = 1 \/ w = 2
          BY <1>2
        <5> QED
          BY <5>1, <5>2
      <4>2. w = 1 \/ w = 2
        BY <4>1, <1>2
      <4> QED
        BY <4>1, <4>2, <3>2, <1>9
    <3> QED
      BY <3>1, <3>2, <1>9 DEF w
  <2>2. CASE i # n + 1
    <3>1. i \in 1..n /\ i \in 0..n /\ i - 1 \in 0..n
      BY <2>2, <1>1
    <3>2. pos2[i] = pos[i] /\ pos2[i - 1] = pos[i - 1] /\ q[i] = p[i]
          /\ pos[i] \in Nat /\ pos[i - 1] \in Nat /\ pos[i] <= m
      BY <3>1, <1>1, <1>10, <1>11
    <3>3. p[i].name \in Names => pos[i - 1] + 1 \in 1..m
      <4>1. p[i].name \in Names => Width(p[i]) >= 1
        BY <3>1, <1>5, WidthTyped
      <4>2. Width(p[i]) \in 0..2 /\ pos[i] = pos[i - 1] + Width(p[i])
        BY <3>1, <1>5, WidthTyped
      <4> QED
        BY <3>2, <4>1, <4>2, <1>1
    <3>4. ASSUME NEW k \in 1..(m + w), k <= pos[i] PROVE k \in 1..m
      BY <3>2, <3>4, <1>1
    <3> QED
      BY <3>1, <3>2, <3>3, <3>4, <1>5, <1>8
  <2> QED
    BY <2>1, <2>2
<1>13. ASSUME NEW i \in 0..(n + 1), NEW j \in 0..(n + 1), i <= j PROVE pos2[i] <= pos2[j]
  <2>1. CASE j = n + 1 /\ i = n + 1
    BY <2>1, <1>10, <1>1, <1>2
  <2>2. CASE j = n + 1 /\ i # n + 1
    <3>1. i \in 0..n
      BY <2>2, <1>1
    <3>2. pos2[i] = pos[i] /\ pos[i] \in Nat /\ pos[i] <= m /\ pos2[j] = m + w
      BY <3>1, <2>2, <1>10, <1>11
    <3> QED
      BY <3>2, <1>1, <1>2
  <2>3. CASE j # n + 1
    <3>1. i \in 0..n /\ j \in 0..n
      BY <1>13, <2>3, <1>1
    <3> QED
      BY <3>1, <1>13, <1>6, <1>10
  <2> QED
    BY <2>1, <2>2, <2>3
<1>14. ASSUME NEW k \in 1..(m + w) PROVE \E i \in 1..(n + 1) : pos2[i - 1] < k /\ k <= pos2[i]
  <2>1. CASE k \in 1..m
    <3>1. PICK i \in 1..n : pos[i - 1] < k /\ k <= pos[i]
      BY <2>1, <1>7
    <3>2. i \in 1..(n + 1) /\ i \in 0..n /\ i - 1 \in 0..n
      BY <3>1, <1>1
    <3> QED
      BY <3>1, <3>2, <1>10
  <2>2. CASE k \notin 1..m
    <3>1. m < k /\ k <= m + w /\ n + 1 \in 1..(n + 1) /\ (n + 1) - 1 = n /\ n \in 0..n
      BY <2>2, <1>1, <1>2
    <3> QED
      BY <3>1, <1>4, <1>10
  <2> QED
    BY <2>1, <2>2
<1>15. Placed(q, stack2, pos2)
  <2>1. Len(q) = n + 1 /\ Len(stack2) = m + w
    BY <1>1, <1>3
  <2> QED
    BY <2>1, <1>10, <1>12, <1>13, <1>14 DEF Placed
<1> QED
  BY <1>1, <1>10, <1>15

(* A node is left, and its entries are popped.                             *)
LEMMA Popped ==
  ASSUME NEW p \in Seq(Nodes), p # <<>>, NEW stack \in Seq(Names \cup {Undefined}),
         NEW pos \in [0..Len(p) -> Nat], Placed(p, stack, pos),
         NEW q \in Seq(Nodes), q = SubSeq(p, 1, Len(p) - 1),
         NEW stack2 \in Seq(Names \cup {Undefined}),
         Len(stack2) = Len(stack) - Width(p[Len(p)]), \A k \in 1..Len(stack2) : stack2[k] = stack[k]
  PROVE  \E pos2 \in [0..Len(q) -> Nat] : Placed(q, stack2, pos2)
<1> DEFINE n == Len(p)
           m == Len(stack)
           l == Len(stack2)
           pos2 == [i \in 0..(n - 1) |-> pos[i]]
<1>1. n \in Nat /\ n >= 1 /\ m \in Nat /\ l \in Nat /\ Len(q) = n - 1 /\ \A i \in 1..(n - 1) : q[i] = p[i]
  <2>1. Len(p) \in Nat /\ Len(p) >= 1 /\ Len(stack) \in Nat /\ Len(stack2) \in Nat
    OBVIOUS
  <2>2. Len(p) - 1 \in 0..Len(p)
    BY <2>1
  <2> QED
    BY <2>1, <2>2, FirstOnes
<1>2. n \in 1..n /\ n \in 0..n /\ n - 1 \in 0..n
  BY <1>1
<1>3. pos[0] = 0 /\ pos[n] = m /\ pos[n] = pos[n - 1] + Width(p[n])
  BY <1>2 DEF Placed
<1>4. l = m - Width(p[n]) /\ \A k \in 1..l : stack2[k] = stack[k]
  OBVIOUS
<1>5. Width(p[n]) \in 0..2 /\ pos[n - 1] \in Nat
  BY <1>2, WidthTyped
<1>6. ASSUME NEW i \in 1..n
      PROVE  /\ pos[i] = pos[i - 1] + Width(p[i])
             /\ p[i].name \in Names => stack[pos[i - 1] + 1] = p[i].name
             /\ \A k \in 1..m : pos[i - 1] < k /\ k <= pos[i] /\ stack[k] # Undefined =>
                   k = pos[i - 1] + 1 /\ p[i].name \in Names
             /\ p[i] \in Nodes
  BY DEF Placed
<1>7. \A i, j \in 0..n : i <= j => pos[i] <= pos[j]
  BY DEF Placed
<1>8. \A k \in 1..m : \E i \in 1..n : pos[i - 1] < k /\ k <= pos[i]
  BY DEF Placed
<1>9. \A i \in 0..n : pos[i] \in Nat
  OBVIOUS
<1> HIDE DEF n, m, l
<1>10. pos[n - 1] = l
  <2>1. \A a, b \in Nat, c \in 0..2 : b = a + c => a = b - c
    OBVIOUS
  <2> QED
    BY <2>1, <1>1, <1>3, <1>4, <1>5
<1>11. pos2 \in [0..(n - 1) -> Nat] /\ \A i \in 0..(n - 1) : pos2[i] = pos[i] /\ pos[i] \in Nat /\ pos[i] <= l
  BY <1>1, <1>2, <1>7, <1>9, <1>10
<1> HIDE DEF pos2
<1>12. l <= m
  BY <1>1, <1>4, <1>5
<1>13. ASSUME NEW i \in 1..(n - 1)
       PROVE  /\ pos2[i] = pos2[i - 1] + Width(q[i])
              /\ q[i].name \in Names => stack2[pos2[i - 1] + 1] = q[i].name
              /\ \A k \in 1..l : pos2[i - 1] < k /\ k <= pos2[i] /\ stack2[k] # Undefined =>
                    k = pos2[i - 1] + 1 /\ q[i].name \in Names
  <2>1. i \in 1..n /\ i \in 0..(n - 1) /\ i - 1 \in 0..(n - 1)
    BY <1>1
  <2>2. pos2[i] = pos[i] /\ pos2[i - 1] = pos[i - 1] /\ q[i] = p[i]
        /\ pos[i] \in Nat /\ pos[i - 1] \in Nat /\ pos[i] <= l
    BY <2>1, <1>1, <1>11
  <2>3. p[i].name \in Names => pos[i - 1] + 1 \in 1..l
    <3>1. p[i].name \in Names => Width(p[i]) >= 1
      BY <2>1, <1>6, WidthTyped
    <3>2. Width(p[i]) \in 0..2 /\ pos[i] = pos[i - 1] + Width(p[i])
      BY <2>1, <1>6, WidthTyped
    <3> QED
      BY <2>2, <3>1, <3>2, <1>1
  <2>4. \A k \in 1..l : k \in 1..m
    BY <1>1, <1>12
  <2> QED
    BY <2>1, <2>2, <2>3, <2>4, <1>4, <1>6
<1>14. ASSUME NEW i \in 0..(n - 1), NEW j \in 0..(n - 1), i <= j PROVE pos2[i] <= pos2[j]
  <2>1. i \in 0..n /\ j \in 0..n
    BY <1>1
  <2> QED
    BY <2>1, <1>14, <1>7, <1>11
<1>15. ASSUME NEW k \in 1..l PROVE \E i \in 1..(n - 1) : pos2[i - 1] < k /\ k <= pos2[i]
  <2>1. k \in 1..m
    BY <1>1, <1>12
  <2>2. PICK i \in 1..n : pos[i - 1] < k /\ k <= pos[i]
    BY <2>1, <1>8
  <2>3. i # n
    BY <2>2, <1>1, <1>10
  <2>4. i \in 1..(n - 1) /\ i \in 0..(n - 1) /\ i - 1 \in 0..(n - 1)
    BY <2>2, <2>3, <1>1
  <2> QED
    BY <2>2, <2>4, <1>11
<1>16. Placed(q, stack2, pos2)
  <2>1. Len(q) = n - 1 /\ Len(stack2) = l /\ n - 1 \in 0..(n - 1) /\ 0 \in 0..(n - 1)
    BY <1>1 DEF l
  <2>2. pos2[0] = 0 /\ pos2[n - 1] = l
    BY <2>1, <1>3, <1>10, <1>11
  <2> QED
    BY <2>1, <2>2, <1>13, <1>14, <1>15 DEF Placed
<1> QED
  BY <1>1, <1>11, <1>16

(* Registering adds a name, or leaves it where it is.                      *)
LEMMA Registers ==
  ASSUME NEW S, NEW s \in Seq(S), NEW x \in S
  PROVE  Registered(s, x) \in Seq(S) /\ ToSet(Registered(s, x)) = ToSet(s) \cup {x}
<1>1. Len(s) \in Nat /\ DOMAIN s = 1..Len(s)
  BY LenProperties
<1>2. CASE Contains(s, x)
  BY <1>1, <1>2 DEF Registered, Contains, ToSet
<1>3. CASE ~ Contains(s, x)
  <2> DEFINE t == Append(s, x)
             n == Len(s)
  <2>1. t \in Seq(S) /\ Len(t) = n + 1 /\ t[n + 1] = x /\ \A i \in 1..n : t[i] = s[i]
    BY AppendProperties
  <2>2. DOMAIN t = 1..(n + 1)
    BY <2>1, LenProperties
  <2>3. n + 1 \in 1..(n + 1) /\ \A i \in 1..n : i \in 1..(n + 1)
    BY <1>1
  <2>4. \A i \in 1..(n + 1) : i \in 1..n \/ i = n + 1
    BY <1>1
  <2> HIDE DEF t, n
  <2>5. ToSet(t) = ToSet(s) \cup {x}
    <3>1. \A y : y \in ToSet(t) <=> \E i \in 1..(n + 1) : y = t[i]
      BY <2>2 DEF ToSet
    <3>2. \A y : y \in ToSet(s) <=> \E i \in 1..n : y = s[i]
      BY <1>1 DEF ToSet, n
    <3>3. \A y : y \in ToSet(t) <=> y \in ToSet(s) \/ y = x
      BY <3>1, <3>2, <2>1, <2>3, <2>4
    <3> QED
      BY <3>3
  <2> QED
    BY <1>3, <2>1, <2>5 DEF Registered, t
<1> QED
  BY <1>2, <1>3

(* A statement belongs to a function exactly if one with a name is open.   *)
LEMMA CallerTyped ==
  ASSUME NEW p \in Seq(Nodes)
  PROVE  /\ CallerIn(p) \in Names \cup {Undefined}
         /\ (\E i \in 1..Len(p) : p[i].name \in Names) => CallerIn(p) \in Names
         /\ CallerIn(p) # Undefined => \E i \in 1..Len(p) : p[i].name \in Names
<1> DEFINE n == Len(p)
           named == {i \in 1..n : p[i].name \in Names}
<1>1. n \in Nat /\ DOMAIN p = 1..n
  BY LenProperties
<1>2. CallerIn(p) = IF named = {} THEN Undefined ELSE p[Max(named)].name
  BY <1>1 DEF CallerIn
<1>3. named # {} => Max(named) \in named
  BY <1>1, GreatestIsIn
<1> QED
  BY <1>2, <1>3

(* The function that a call is recorded for is the one it belongs to.      *)
LEMMA CallerIsKnown ==
  ASSUME RecursionAssumption, Walks
  PROVE  /\ Enclosing(functionStack) = CallerIn(path)
         /\ CallerIn(path) # Undefined => CallerIn(path) \in Names \cap ToSet(registered)
<1>1. path \in Seq(Nodes) /\ functionStack \in Seq(Names \cup {Undefined})
  BY DEF Walks
<1>2. PICK pos \in [0..Len(path) -> Nat] : Placed(path, functionStack, pos)
  BY DEF Walks
<1>3. Enclosing(functionStack) = CallerIn(path)
  BY <1>1, <1>2, StackAnswers
<1>4. ASSUME CallerIn(path) # Undefined PROVE CallerIn(path) \in Names \cap ToSet(registered)
  <2> DEFINE m == Len(functionStack)
             defined == {k \in 1..m : functionStack[k] # Undefined}
  <2>1. m \in Nat /\ DOMAIN functionStack = 1..m
    BY <1>1, LenProperties
  <2>2. Enclosing(functionStack) = IF defined = {} THEN Undefined ELSE functionStack[Max(defined)]
    BY <2>1 DEF Enclosing
  <2>3. defined # {} => Max(defined) \in defined
    BY <2>1, GreatestIsIn
  <2>4. CallerIn(path) \in ToSet(functionStack)
    BY <1>3, <1>4, <2>1, <2>2, <2>3 DEF ToSet
  <2>5. CallerIn(path) \in Names
    BY <1>1, <1>4, CallerTyped
  <2> QED
    BY <2>4, <2>5 DEF Walks
<1> QED
  BY <1>3, <1>4

-----------------------------------------------------------------------------
(* The walk.                                                               *)

(* What is pushed for a node.                                              *)
Entries(x, names) ==
  /\ names \in Seq(Names \cup {Undefined}) /\ Len(names) = Width(x)
  /\ x.name \in Names => names[1] = x.name
  /\ x.name \notin Names /\ Width(x) = 1 => names[1] = Undefined
  /\ Width(x) = 2 => x.name \in Names /\ names[2] = Undefined

(* A node is opened with its entries, whose names are registered.          *)
LEMMA Opening ==
  ASSUME RecursionAssumption, Walks, NEW x \in Nodes, NEW names, Entries(x, names),
         path' = Append(path, x), functionStack' = functionStack \o names,
         ToSet(registered) \subseteq ToSet(registered'),
         x.name \in Names => x.name \in ToSet(registered')
  PROVE  Walks'
<1> USE DEF Entries
<1> DEFINE w == Width(x)
           m == Len(functionStack)
<1>1. path \in Seq(Nodes) /\ functionStack \in Seq(Names \cup {Undefined})
      /\ \A n \in Names : n \in ToSet(functionStack) => n \in ToSet(registered)
  BY DEF Walks
<1>2. PICK pos \in [0..Len(path) -> Nat] : Placed(path, functionStack, pos)
  BY DEF Walks
<1>3. path' \in Seq(Nodes)
  BY <1>1, AppendProperties
<1>4. w \in 0..2 /\ (x.name \in Names => w >= 1) /\ m \in Nat
  BY <1>1, WidthTyped, LenProperties
<1>5. /\ functionStack' \in Seq(Names \cup {Undefined}) /\ Len(functionStack') = m + w
      /\ \A k \in 1..(m + w) : functionStack'[k] = IF k <= m THEN functionStack[k] ELSE names[k - m]
  BY <1>1, ConcatProperties
<1>6. \A k \in 1..m : functionStack'[k] = functionStack[k]
  <2>1. \A k \in 1..m : k \in 1..(m + w) /\ k <= m
    BY <1>4
  <2> QED
    BY <1>5, <2>1
<1>7. w >= 1 => functionStack'[m + 1] = names[1]
  <2> HIDE DEF m, w
  <2>1. w >= 1 => m + 1 \in 1..(m + w) /\ ~ (m + 1 <= m) /\ (m + 1) - m = 1
    BY <1>4
  <2> QED
    BY <1>5, <2>1
<1>8. w = 2 => functionStack'[m + 2] = names[2]
  <2> HIDE DEF m, w
  <2>1. w = 2 => m + 2 \in 1..(m + w) /\ ~ (m + 2 <= m) /\ (m + 2) - m = 2
    BY <1>4
  <2> QED
    BY <1>5, <2>1
<1>9. /\ x.name \in Names => functionStack'[m + 1] = x.name
      /\ x.name \notin Names /\ w = 1 => functionStack'[m + 1] = Undefined
      /\ w = 2 => x.name \in Names /\ functionStack'[m + 2] = Undefined
  <2>1. w = 1 => w >= 1
    OBVIOUS
  <2> QED
    BY <1>4, <1>7, <1>8, <2>1
<1>10. \E pos2 \in [0..Len(path') -> Nat] : Placed(path', functionStack', pos2)
  <2> DEFINE q == path'
             stack == functionStack'
  <2>1. /\ q \in Seq(Nodes) /\ q = Append(path, x) /\ stack \in Seq(Names \cup {Undefined})
        /\ Len(stack) = m + w /\ \A k \in 1..m : stack[k] = functionStack[k]
    BY <1>3, <1>5, <1>6
  <2>2. /\ x.name \in Names => stack[m + 1] = x.name
        /\ x.name \notin Names /\ w = 1 => stack[m + 1] = Undefined
        /\ w = 2 => x.name \in Names /\ stack[m + 2] = Undefined
    BY <1>9
  <2> HIDE DEF q, stack
  <2>3. \E pos2 \in [0..Len(q) -> Nat] : Placed(q, stack, pos2)
    BY <1>1, <1>2, <2>1, <2>2, Pushed
  <2> QED
    BY <2>3 DEF q, stack
<1>11. ASSUME NEW n \in Names, n \in ToSet(functionStack') PROVE n \in ToSet(registered')
  <2>1. PICK k \in 1..(m + w) : functionStack'[k] = n
    <3>1. DOMAIN functionStack' = 1..(m + w)
      BY <1>5, LenProperties
    <3> QED
      BY <3>1, <1>11 DEF ToSet
  <2> HIDE DEF m, w
  <2>2. CASE k \in 1..m
    <3>1. functionStack[k] = n
      BY <2>1, <2>2, <1>6
    <3>2. DOMAIN functionStack = 1..m
      BY <1>1, LenProperties DEF m
    <3> QED
      BY <3>1, <3>2, <2>2, <1>1 DEF ToSet
  <2>3. CASE k \notin 1..m
    <3>1. (k = m + 1 /\ w >= 1) \/ (k = m + 2 /\ w = 2)
      BY <2>1, <2>3, <1>4
    <3>2. CASE k = m + 1 /\ w >= 1
      <4>1. w = 1 \/ w = 2
        BY <3>2, <1>4
      <4>2. x.name \in Names \/ n = Undefined
        BY <4>1, <3>2, <2>1, <1>9
      <4>3. CASE x.name \in Names
        BY <4>3, <3>2, <2>1, <1>9
      <4>4. CASE x.name \notin Names
        <5>1. names[1] = Undefined /\ n = names[1]
          BY <4>1, <4>4, <3>2, <2>1, <1>7, <1>9
        <5> QED
          BY <5>1 DEF RecursionAssumption
      <4> QED
        BY <4>3, <4>4
    <3>3. CASE k = m + 2 /\ w = 2
      BY <3>3, <2>1, <1>9 DEF RecursionAssumption
    <3> QED
      BY <3>1, <3>2, <3>3
  <2> QED
    BY <2>2, <2>3
<1> QED
  BY <1>3, <1>5, <1>10, <1>11 DEF Walks

(* Nothing of the walk changes but what has been registered and called.    *)
LEMMA GraphGrows ==
  ASSUME GraphIsSeen, registered' \in Seq(Known), ToSet(registered) \subseteq ToSet(registered'),
         UNCHANGED <<callees, callSites, calls, unseen, misread, later>>
  PROVE  GraphIsSeen'
BY DEF GraphIsSeen, CallsAsRead

(* A call is recorded for its caller.                                      *)
LEMMA Recording ==
  ASSUME GraphIsSeen, NEW caller \in Names, caller \in ToSet(registered), NEW callee \in Known,
         RecordLocalCall(caller, callee),
         CallsAsRead \subseteq CallsAsRead', CallsAsRead' \subseteq Names \X Names,
         callee \in Names => <<caller, callee>> \in CallsAsRead',
         calls' \ unseen' \subseteq (calls \ unseen) \cup {<<caller, callee>>},
         \A x \in later' : x.caller \in Names
  PROVE  GraphIsSeen'
<1>1. /\ registered \in Seq(Known) /\ callees \in [Known -> Seq(Known)]
      /\ callSites \subseteq Names \X Known
      /\ calls \ unseen \subseteq callSites
      /\ callSites \cap (Names \X Names) \subseteq CallsAsRead
  BY DEF GraphIsSeen
<1>2. \A s \in callSites : s[1] \in ToSet(registered) /\ s[2] \in ToSet(callees[s[1]])
  BY DEF GraphIsSeen
<1>3. \A u \in Known : \A v \in ToSet(callees[u]) : <<u, v>> \in callSites
  BY DEF GraphIsSeen
<1>4. caller \in Known /\ callees[caller] \in Seq(Known)
  BY <1>1 DEF Known
<1>5. Contains(registered, caller)
  <2>1. DOMAIN registered = 1..Len(registered)
    BY <1>1, LenProperties
  <2> QED
    BY <2>1 DEF ToSet, Contains
<1>6. /\ callSites' = callSites \cup {<<caller, callee>>}
      /\ callees' = [callees EXCEPT ![caller] = Registered(callees[caller], callee)]
      /\ registered' = registered
  BY <1>5 DEF RecordLocalCall
<1> DEFINE more == Registered(callees[caller], callee)
<1>7. more \in Seq(Known) /\ ToSet(more) = ToSet(callees[caller]) \cup {callee}
  <2> DEFINE before == callees[caller]
  <2>1. before \in Seq(Known)
    BY <1>4
  <2> HIDE DEF before
  <2>2. Registered(before, callee) \in Seq(Known)
        /\ ToSet(Registered(before, callee)) = ToSet(before) \cup {callee}
    BY <2>1, Registers
  <2> QED
    BY <2>2 DEF before
<1> HIDE DEF more
<1>8. callees' \in [Known -> Seq(Known)] /\ callees'[caller] = more
      /\ \A u \in Known \ {caller} : callees'[u] = callees[u]
  BY <1>1, <1>4, <1>6, <1>7 DEF more
<1>9. callSites' \subseteq Names \X Known
  BY <1>1, <1>6
<1>10. \A s \in callSites' : s[1] \in ToSet(registered') /\ s[2] \in ToSet(callees'[s[1]])
  <2> SUFFICES ASSUME NEW s \in callSites'
               PROVE  s[1] \in ToSet(registered') /\ s[2] \in ToSet(callees'[s[1]])
    OBVIOUS
  <2>1. CASE s = <<caller, callee>>
    BY <2>1, <1>6, <1>7, <1>8
  <2>2. CASE s \in callSites
    <3>1. s[1] \in Known /\ s[1] \in ToSet(registered) /\ s[2] \in ToSet(callees[s[1]])
      BY <2>2, <1>1, <1>2 DEF Known
    <3> QED
      BY <3>1, <1>6, <1>7, <1>8
  <2> QED
    BY <2>1, <2>2, <1>6
<1>11. \A u \in Known : \A v \in ToSet(callees'[u]) : <<u, v>> \in callSites'
  <2> SUFFICES ASSUME NEW u \in Known, NEW v \in ToSet(callees'[u]) PROVE <<u, v>> \in callSites'
    OBVIOUS
  <2> QED
    BY <1>3, <1>6, <1>7, <1>8
<1>12. calls' \ unseen' \subseteq callSites' /\ callSites' \cap (Names \X Names) \subseteq CallsAsRead'
  <2> SUFFICES ASSUME NEW s PROVE /\ s \in calls' /\ s \notin unseen' => s \in callSites'
                                  /\ s \in callSites' /\ s \in Names \X Names => s \in CallsAsRead'
    OBVIOUS
  <2>1. s \in callSites' <=> s \in callSites \/ s = <<caller, callee>>
    BY <1>6
  <2>2. s = <<caller, callee>> /\ s \in Names \X Names => s \in CallsAsRead'
    OBVIOUS
  <2> QED
    BY <2>1, <2>2, <1>1
<1> QED
  BY <1>1, <1>6, <1>8, <1>9, <1>10, <1>11, <1>12 DEF GraphIsSeen

(* Every step of the walk keeps the stack and the graph.                   *)
LEMMA WalkSteps ==
  ASSUME RecursionAssumption, Walks, GraphIsSeen, Walk, ~ ProgramExit
  PROVE  Walks' /\ GraphIsSeen' /\ phase = "walk" /\ UNCHANGED searching
<1>1. /\ path \in Seq(Nodes) /\ functionStack \in Seq(Names \cup {Undefined})
      /\ registered \in Seq(Known)
  BY DEF Walks, GraphIsSeen
<1>2. /\ Enclosing(functionStack) = CallerIn(path)
      /\ CallerIn(path) # Undefined => CallerIn(path) \in Names \cap ToSet(registered)
  BY CallerIsKnown
<1>3. Names \subseteq Known /\ Inner \in Known /\ Undefined \notin Names /\ Inner \notin Names
  BY DEF Known, RecursionAssumption
<1>4. CallerIn(path) \in Names \cup {Undefined}
  BY <1>1, CallerTyped
<1>5. \A n \in Known : /\ Registered(registered, n) \in Seq(Known)
                       /\ ToSet(Registered(registered, n)) = ToSet(registered) \cup {n}
  BY <1>1, Registers
<1>6. ASSUME NEW n \in Names, FunctionDeclaration(n) PROVE Walks' /\ GraphIsSeen' /\ phase = "walk" /\ UNCHANGED searching
  <2> DEFINE x == [kind |-> "function", name |-> n, inner |-> FALSE]
             names == <<n>>
  <2>1. x \in Nodes /\ x.name = n /\ Width(x) = 1
    BY DEF Nodes, Width
  <2>2. names \in Seq(Names \cup {Undefined}) /\ Len(names) = 1 /\ names[1] = n
    OBVIOUS
  <2>3. /\ path' = Append(path, x) /\ functionStack' = functionStack \o names
        /\ registered' = Registered(registered, n)
    BY <1>6 DEF FunctionDeclaration, Enter, Push
  <2>4. ToSet(registered) \subseteq ToSet(registered') /\ n \in ToSet(registered')
        /\ registered' \in Seq(Known)
    BY <2>3, <1>3, <1>5
  <2> HIDE DEF x, names
  <2>5. Walks'
    <3>1. Entries(x, names)
      BY <1>3, <2>1, <2>2 DEF Entries
    <3>2. x \in Nodes /\ (x.name \in Names => x.name \in ToSet(registered'))
      BY <2>1, <2>4
    <3> QED
      BY <3>1, <3>2, <2>3, <2>4, Opening
  <2>6. UNCHANGED <<callees, callSites, calls, unseen, misread, later>> /\ phase = "walk" /\ UNCHANGED searching
    BY <1>6 DEF FunctionDeclaration, Enter, truth, CanEnter
  <2> QED
    BY <2>4, <2>5, <2>6, GraphGrows
<1>7. ASSUME NEW n \in Names, NEW inner \in BOOLEAN, FunctionVariable(n, inner)
      PROVE  Walks' /\ GraphIsSeen' /\ phase = "walk" /\ UNCHANGED searching
  <2> DEFINE x == [kind |-> "variable", name |-> n, inner |-> inner]
             names == <<n, Undefined>>
  <2>1. x \in Nodes /\ x.name = n /\ Width(x) = 2
    BY DEF Nodes, Width
  <2>2. names \in Seq(Names \cup {Undefined}) /\ Len(names) = 2 /\ names[1] = n /\ names[2] = Undefined
    OBVIOUS
  <2>3. /\ path' = Append(path, x) /\ functionStack' = functionStack \o names
        /\ registered' = IF inner THEN Registered(Registered(registered, n), Inner) ELSE Registered(registered, n)
    BY <1>7 DEF FunctionVariable, Enter, Push
  <2>4. ToSet(registered) \subseteq ToSet(registered') /\ n \in ToSet(registered')
        /\ registered' \in Seq(Known)
    <3> DEFINE one == Registered(registered, n)
    <3>1. one \in Seq(Known) /\ ToSet(one) = ToSet(registered) \cup {n}
      BY <1>3, <1>5
    <3> HIDE DEF one
    <3>2. Registered(one, Inner) \in Seq(Known) /\ ToSet(Registered(one, Inner)) = ToSet(one) \cup {Inner}
      <4>1. one \in Seq(Known) /\ Inner \in Known
        BY <3>1, <1>3
      <4> QED
        BY <4>1, Registers
    <3>3. registered' = Registered(one, Inner) \/ registered' = one
      BY <2>3 DEF one
    <3> QED
      BY <3>1, <3>2, <3>3
  <2> HIDE DEF x, names
  <2>5. Walks'
    <3>1. Entries(x, names)
      BY <1>3, <2>1, <2>2 DEF Entries
    <3>2. x \in Nodes /\ (x.name \in Names => x.name \in ToSet(registered'))
      BY <2>1, <2>4
    <3> QED
      BY <3>1, <3>2, <2>3, <2>4, Opening
  <2>6. UNCHANGED <<callees, callSites, calls, unseen, misread, later>> /\ phase = "walk" /\ UNCHANGED searching
    BY <1>7 DEF FunctionVariable, Enter, truth, CanEnter
  <2> QED
    BY <2>4, <2>5, <2>6, GraphGrows
<1>8. ASSUME NEW inner \in BOOLEAN, Callback(inner)
      PROVE  Walks' /\ GraphIsSeen' /\ phase = "walk" /\ UNCHANGED searching
  <2> DEFINE x == [kind |-> "callback", name |-> Undefined, inner |-> inner]
             names == <<Undefined>>
  <2>1. x \in Nodes /\ x.name \notin Names /\ Width(x) = 1
    BY <1>3 DEF Nodes, Width
  <2>2. names \in Seq(Names \cup {Undefined}) /\ Len(names) = 1 /\ names[1] = Undefined
    OBVIOUS
  <2>3. /\ path' = Append(path, x) /\ functionStack' = functionStack \o names
        /\ registered' = IF inner THEN Registered(registered, Inner) ELSE registered
    BY <1>8 DEF Callback, Enter, Push
  <2>4. ToSet(registered) \subseteq ToSet(registered') /\ registered' \in Seq(Known)
    BY <2>3, <1>1, <1>3, <1>5
  <2> HIDE DEF x, names
  <2>5. Walks'
    <3>1. Entries(x, names)
      BY <1>3, <2>1, <2>2 DEF Entries
    <3>2. x \in Nodes /\ (x.name \in Names => x.name \in ToSet(registered'))
      BY <2>1, <2>4
    <3> QED
      BY <3>1, <3>2, <2>3, <2>4, Opening
  <2>6. UNCHANGED <<callees, callSites, calls, unseen, misread, later>> /\ phase = "walk" /\ UNCHANGED searching
    BY <1>8 DEF Callback, Enter, truth, CanEnter
  <2> QED
    BY <2>4, <2>5, <2>6, GraphGrows
<1>9. ASSUME ClassDeclaration PROVE Walks' /\ GraphIsSeen' /\ phase = "walk" /\ UNCHANGED searching
  <2> DEFINE x == [kind |-> "class", name |-> Undefined, inner |-> FALSE]
             names == << >>
  <2>1. x \in Nodes /\ x.name \notin Names /\ Width(x) = 0
    BY <1>3 DEF Nodes, Width
  <2>2. names \in Seq(Names \cup {Undefined}) /\ Len(names) = 0
    OBVIOUS
  <2>3. /\ path' = Append(path, x) /\ functionStack' = functionStack /\ registered' = registered
    BY <1>9 DEF ClassDeclaration, Enter, graph
  <2>4. functionStack' = functionStack \o names
    BY <2>3, <1>1, ConcatEmptySeq
  <2>5. ToSet(registered) \subseteq ToSet(registered') /\ registered' \in Seq(Known)
    BY <2>3, <1>1
  <2> HIDE DEF x, names
  <2>6. Walks'
    <3>1. Entries(x, names)
      BY <1>3, <2>1, <2>2 DEF Entries
    <3>2. x \in Nodes /\ (x.name \in Names => x.name \in ToSet(registered'))
      BY <2>1, <2>5
    <3> QED
      BY <3>1, <3>2, <2>3, <2>4, <2>5, Opening
  <2>7. UNCHANGED <<callees, callSites, calls, unseen, misread, later>> /\ phase = "walk" /\ UNCHANGED searching
    BY <1>9 DEF ClassDeclaration, Enter, truth, graph, CanEnter
  <2> QED
    BY <2>5, <2>6, <2>7, GraphGrows
<1>10. ASSUME NEW n \in Names, MethodDefinition(n)
       PROVE  Walks' /\ GraphIsSeen' /\ phase = "walk" /\ UNCHANGED searching
  <2> DEFINE x == [kind |-> "method", name |-> n, inner |-> FALSE]
             names == <<n>>
  <2>1. x \in Nodes /\ x.name = n /\ Width(x) = 1
    BY DEF Nodes, Width
  <2>2. names \in Seq(Names \cup {Undefined}) /\ Len(names) = 1 /\ names[1] = n
    OBVIOUS
  <2>3. /\ path' = Append(path, x) /\ functionStack' = functionStack \o names
        /\ registered' = Registered(registered, n)
    BY <1>10 DEF MethodDefinition, Enter, Push
  <2>4. ToSet(registered) \subseteq ToSet(registered') /\ n \in ToSet(registered')
        /\ registered' \in Seq(Known)
    BY <2>3, <1>3, <1>5
  <2> HIDE DEF x, names
  <2>5. Walks'
    <3>1. Entries(x, names)
      BY <1>3, <2>1, <2>2 DEF Entries
    <3>2. x \in Nodes /\ (x.name \in Names => x.name \in ToSet(registered'))
      BY <2>1, <2>4
    <3> QED
      BY <3>1, <3>2, <2>3, <2>4, Opening
  <2>6. UNCHANGED <<callees, callSites>> /\ phase = "walk" /\ UNCHANGED searching
    BY <1>10 DEF MethodDefinition, Enter, CanEnter
  <2>7. PICK edges : /\ edges \subseteq Names \X Names /\ misread' = misread
                     /\ calls' = calls \cup edges /\ unseen' = unseen \cup (edges \ calls)
    <3> DEFINE earlier == {y \in later : y.class = classStack[Len(classStack)] /\ y.method = n}
               edges == {<<y.caller, n>> : y \in earlier}
    <3>1. edges \subseteq Names \X Names
      BY DEF GraphIsSeen
    <3>2. misread' = misread /\ calls' = calls \cup edges /\ unseen' = unseen \cup (edges \ calls)
      BY <1>10 DEF MethodDefinition
    <3> QED
      BY <3>1, <3>2
  <2>8. later' \subseteq later
    BY <1>10 DEF MethodDefinition
  <2>9. /\ CallsAsRead' \subseteq Names \X Names /\ calls' \ unseen' \subseteq callSites
        /\ callSites \cap (Names \X Names) \subseteq CallsAsRead'
        /\ \A y \in later' : y.caller \in Names
    BY <2>7, <2>8 DEF GraphIsSeen, CallsAsRead
  <2>10. GraphIsSeen'
    BY <2>4, <2>6, <2>9 DEF GraphIsSeen
  <2> QED
    BY <2>5, <2>6, <2>10
<1>11. ASSUME Leave PROVE Walks' /\ GraphIsSeen' /\ phase = "walk" /\ UNCHANGED searching
  <2> DEFINE n == Len(path)
             m == Len(functionStack)
             x == path[n]
             q == path'
             stack == functionStack'
  <2>1. phase = "walk" /\ path # << >> /\ path' = Front(path) /\ UNCHANGED <<searching, graph, truth>>
    BY <1>11 DEF Leave
  <2>2. n \in Nat /\ n >= 1 /\ m \in Nat
    BY <1>1, <2>1, EmptySeq, LenProperties
  <2>3. n \in 1..n /\ n - 1 \in 0..n /\ n \in 0..n
    BY <2>2
  <2>4. x \in Nodes /\ Width(x) \in 0..2
    BY <1>1, <2>3, ElementOfSeq, WidthTyped
  <2>5. PICK pos \in [0..n -> Nat] : Placed(path, functionStack, pos)
    BY DEF Walks
  <2>6. Width(x) <= m
    <3>1. pos[n] = m /\ pos[n] = pos[n - 1] + Width(x)
      BY <2>3, <2>5 DEF Placed
    <3>2. pos[n - 1] \in Nat
      BY <2>3, <2>5
    <3> HIDE DEF n, m, x
    <3> QED
      BY <3>1, <3>2, <2>2, <2>4
  <2>7. q = SubSeq(path, 1, n - 1) /\ q \in Seq(Nodes)
    <3>1. q = SubSeq(path, 1, n - 1)
      BY <2>1 DEF Front
    <3>2. SubSeq(path, 1, n - 1) \in Seq(Nodes)
      BY <2>3, <1>1, FirstOnes
    <3> QED
      BY <3>1, <3>2
  <2>8. stack \in Seq(Names \cup {Undefined}) /\ Len(stack) = m - Width(x)
        /\ \A k \in 1..Len(stack) : stack[k] = functionStack[k]
    <3>1. CASE x.kind = "class"
      <4>1. stack = functionStack /\ Width(x) = 0
        BY <1>11, <3>1 DEF Leave, Top, Width
      <4> QED
        BY <4>1, <1>1, <2>2
    <3>2. CASE x.kind # "class"
      <4>1. stack = SubSeq(functionStack, 1, m - Width(x))
        BY <1>11, <3>2 DEF Leave, Top, Pop, Width
      <4> DEFINE l == m - Width(x)
      <4>2. l \in 0..m
        <5> HIDE DEF m, x
        <5> QED
          BY <2>2, <2>4, <2>6
      <4> HIDE DEF l
      <4>3. /\ SubSeq(functionStack, 1, l) \in Seq(Names \cup {Undefined})
            /\ Len(SubSeq(functionStack, 1, l)) = l
            /\ \A i \in 1..l : SubSeq(functionStack, 1, l)[i] = functionStack[i]
        BY <4>2, <1>1, FirstOnes
      <4> QED
        BY <4>1, <4>3 DEF l
    <3> QED
      BY <3>1, <3>2
  <2>9. \E pos2 \in [0..Len(path') -> Nat] : Placed(path', functionStack', pos2)
    <3> HIDE DEF q, stack
    <3>1. \E pos2 \in [0..Len(q) -> Nat] : Placed(q, stack, pos2)
      BY <1>1, <2>1, <2>5, <2>7, <2>8, Popped
    <3> QED
      BY <3>1 DEF q, stack
  <2>10. \A k \in 1..Len(stack) : k \in 1..m
    <3>1. \A a \in Nat, b \in 0..2 : \A k \in 1..(a - b) : k \in 1..a
      OBVIOUS
    <3> QED
      BY <3>1, <2>2, <2>4, <2>8
  <2>11. ToSet(functionStack') \subseteq ToSet(functionStack)
    <3>1. DOMAIN functionStack' = 1..Len(stack) /\ DOMAIN functionStack = 1..m
      BY <1>1, <2>8, LenProperties
    <3> HIDE DEF m
    <3> QED
      BY <3>1, <2>8, <2>10 DEF ToSet
  <2>12. registered' = registered /\ UNCHANGED <<callees, callSites, calls, unseen, misread, later>>
    BY <2>1 DEF graph, truth
  <2>13. Walks'
    <3>1. \A k \in Names : k \in ToSet(functionStack') => k \in ToSet(registered')
      BY <2>11, <2>12 DEF Walks
    <3> QED
      BY <3>1, <2>7, <2>8, <2>9 DEF Walks
  <2> QED
    BY <2>1, <2>12, <2>13, <1>1, GraphGrows
<1>12. UNCHANGED <<path, functionStack, registered>> => Walks'
  BY DEF Walks
<1>13. ASSUME NEW n \in Names, NEW resolved \in BOOLEAN, Call(n, resolved)
       PROVE  Walks' /\ GraphIsSeen' /\ phase = "walk" /\ UNCHANGED searching
  <2> DEFINE caller == CallerIn(path)
  <2>1. caller \in Names /\ caller \in ToSet(registered) /\ Enclosing(functionStack) = caller
        /\ caller # Undefined
    BY <1>13, <1>2, <1>3 DEF Call
  <2>2. UNCHANGED <<path, later, searching>> /\ phase = "walk"
    BY <1>13 DEF Call, CanCall
  <2>3. CASE resolved
    <3>1. /\ calls' = calls \cup {<<caller, n>>} /\ unseen' = unseen \ {<<caller, n>>}
          /\ misread' = misread /\ RecordLocalCall(caller, n)
      BY <1>13, <2>1, <2>3 DEF Call
    <3>2. UNCHANGED <<path, functionStack, registered>>
      BY <2>2, <3>1 DEF RecordLocalCall, walked
    <3>3. /\ CallsAsRead \subseteq CallsAsRead' /\ CallsAsRead' \subseteq Names \X Names
          /\ calls' \ unseen' \subseteq (calls \ unseen) \cup {<<caller, n>>}
          /\ <<caller, n>> \in CallsAsRead' /\ \A y \in later' : y.caller \in Names
      BY <2>1, <2>2, <3>1 DEF GraphIsSeen, CallsAsRead
    <3>4. n \in Known
      BY <1>3
    <3> HIDE DEF caller
    <3>5. GraphIsSeen'
      BY <2>1, <3>1, <3>3, <3>4, Recording
    <3> QED
      BY <3>2, <3>5, <2>2, <1>12
  <2>4. CASE ~ resolved
    <3>1. calls' = calls /\ unseen' = unseen /\ misread' = misread /\ UNCHANGED <<graph, walked>>
      BY <1>13, <2>1, <2>4 DEF Call
    <3>2. UNCHANGED <<path, functionStack, registered, callees, callSites, calls, unseen, misread, later>>
      BY <2>2, <3>1 DEF graph, walked
    <3>3. GraphIsSeen'
      BY <3>2, <1>1, GraphGrows
    <3> QED
      BY <3>2, <3>3, <2>2, <1>12
  <2> QED
    BY <2>3, <2>4
<1>14. ASSUME InnerCall PROVE Walks' /\ GraphIsSeen' /\ phase = "walk" /\ UNCHANGED searching
  <2> DEFINE inner == {i \in DOMAIN path : path[i].inner}
             l == Max(inner)
             q == SubSeq(path, 1, l)
             caller == CallerIn(path)
             callee == CallerIn(q)
             edge == <<caller, callee>>
  <2>1. /\ inner # {} /\ callee # Undefined /\ phase = "walk"
        /\ calls' = calls \cup {edge}
        /\ unseen' = IF edge \in calls \ unseen THEN unseen ELSE unseen \cup {edge}
        /\ RecordLocalCall(Enclosing(functionStack), Inner)
        /\ UNCHANGED <<path, misread, later, searching>>
    BY <1>14 DEF InnerCall, CanCall
  <2>2. DOMAIN path = 1..Len(path) /\ Len(path) \in Nat
    BY <1>1, LenProperties
  <2>3. l \in 1..Len(path)
    <3>1. inner \in SUBSET (1..Len(path))
      BY <2>2
    <3> HIDE DEF inner
    <3> QED
      BY <3>1, <2>1, <2>2, GreatestIsIn
  <2> HIDE DEF l
  <2>4. q \in Seq(Nodes) /\ Len(q) = l /\ \A i \in 1..l : q[i] = path[i]
    <3>1. l \in 0..Len(path)
      BY <2>2, <2>3
    <3> QED
      BY <3>1, <1>1, FirstOnes
  <2>5. \A i \in 1..l : i \in 1..Len(path)
    BY <2>2, <2>3
  <2>6. callee \in Names /\ \E i \in 1..Len(q) : q[i].name \in Names
    <3> HIDE DEF q
    <3>1. /\ CallerIn(q) \in Names \cup {Undefined}
          /\ CallerIn(q) # Undefined => \E i \in 1..Len(q) : q[i].name \in Names
      BY <2>4, CallerTyped
    <3> QED
      BY <3>1, <2>1
  <2>7. \E i \in 1..Len(path) : path[i].name \in Names
    BY <2>4, <2>5, <2>6
  <2>8. caller \in Names
    BY <2>7, <1>1, CallerTyped
  <2>9. caller \in ToSet(registered) /\ Enclosing(functionStack) = caller
    BY <2>8, <1>2, <1>3
  <2>10. RecordLocalCall(caller, Inner)
    BY <2>1, <2>9
  <2>11. UNCHANGED <<path, functionStack, registered>>
    BY <2>1 DEF RecordLocalCall, walked
  <2> HIDE DEF caller, callee
  <2>12. /\ CallsAsRead \subseteq CallsAsRead' /\ CallsAsRead' \subseteq Names \X Names
         /\ calls' \ unseen' \subseteq (calls \ unseen) \cup {<<caller, Inner>>}
         /\ \A y \in later' : y.caller \in Names
    <3>1. edge \in Names \X Names
      BY <2>6, <2>8
    <3>2. CallsAsRead \subseteq Names \X Names /\ \A y \in later : y.caller \in Names
      BY DEF GraphIsSeen
    <3>3. calls' = calls \cup {edge} /\ misread' = misread /\ later' = later
          /\ unseen' = IF edge \in calls \ unseen THEN unseen ELSE unseen \cup {edge}
      BY <2>1
    <3> HIDE DEF edge
    <3>4. calls' \ unseen' \subseteq calls \ unseen
      BY <3>3
    <3> QED
      BY <3>1, <3>2, <3>3, <3>4 DEF CallsAsRead
  <2>13. GraphIsSeen'
    BY <2>8, <2>9, <2>10, <2>12, <1>3, Recording
  <2> QED
    BY <2>1, <2>11, <2>13, <1>12
<1>15. ASSUME NEW n \in Names, NEW instance \in BOOLEAN, ThisCall(n, instance)
       PROVE  Walks' /\ GraphIsSeen' /\ phase = "walk" /\ UNCHANGED searching
  <2> DEFINE caller == CallerIn(path)
             edge == <<caller, n>>
             known == n \in classMethods[classStack[Len(classStack)]]
  <2>1. phase = "walk" /\ caller # Undefined /\ UNCHANGED <<path, searching>>
    BY <1>15 DEF ThisCall, CanCall
  <2>2. caller \in Names /\ caller \in ToSet(registered) /\ Enclosing(functionStack) = caller
    BY <2>1, <1>2, <1>3
  <2>3. CASE known
    <3>1. /\ RecordLocalCall(caller, n) /\ later' = later
          /\ \/ calls' = calls \cup {edge} /\ unseen' = unseen \ {edge} /\ misread' = misread
             \/ misread' = misread \cup {edge} /\ UNCHANGED <<calls, unseen>>
      BY <1>15, <2>2, <2>3 DEF ThisCall
    <3>2. UNCHANGED <<path, functionStack, registered>>
      BY <2>1, <3>1 DEF RecordLocalCall, walked
    <3> HIDE DEF caller
    <3>3. /\ CallsAsRead \subseteq CallsAsRead' /\ CallsAsRead' \subseteq Names \X Names
          /\ calls' \ unseen' \subseteq (calls \ unseen) \cup {<<caller, n>>}
          /\ <<caller, n>> \in CallsAsRead' /\ \A y \in later' : y.caller \in Names
      BY <2>2, <3>1 DEF GraphIsSeen, CallsAsRead
    <3>4. GraphIsSeen'
      BY <2>2, <3>1, <3>3, <1>3, Recording
    <3> QED
      BY <3>2, <3>4, <2>1, <1>12
  <2>4. CASE ~ known
    <3>1. /\ \A y \in later' : y \in later \/ y.caller = caller
          /\ UNCHANGED <<calls, unseen, misread, graph, walked>>
      BY <1>15, <2>4 DEF ThisCall
    <3>2. UNCHANGED <<path, functionStack, registered, callees, callSites, calls, unseen, misread>>
      BY <2>1, <3>1 DEF graph, walked
    <3>3. GraphIsSeen'
      BY <3>1, <3>2, <2>2 DEF GraphIsSeen, CallsAsRead
    <3> QED
      BY <3>2, <3>3, <2>1, <1>12
  <2> QED
    BY <2>3, <2>4
<1> QED
  BY <1>6, <1>7, <1>8, <1>9, <1>10, <1>11, <1>13, <1>14, <1>15 DEF Walk
-----------------------------------------------------------------------------
(* The search.                                                             *)

(* With fewer calls there is no more to reach.                             *)
LEMMA ReachedShrinks ==
  ASSUME NEW E, NEW F, E \subseteq F, NEW n
  PROVE  Reached(E, n) \subseteq Reached(F, n)
BY DEF Reached

(* The search begins with nothing visited.                                 *)
LEMMA ExitSteps ==
  ASSUME GraphIsSeen, search = <<>>, inCycle = {}, ProgramExit
  PROVE  GraphIsSeen' /\ Searches'
<1>1. /\ color' = [n \in ToSet(registered) |-> "white"] /\ search' = << >> /\ inCycle' = {}
      /\ UNCHANGED <<registered, callees, callSites, calls, unseen, misread, later>>
  BY DEF ProgramExit, Unsearched, graph, truth
<1>2. Len(search') = 0 /\ \A i \in Int : i \notin 1..Len(search')
  BY <1>1
<1>3. PathIsGray'
  <2>1. color' \in [ToSet(registered') -> {"white", "gray", "black"}]
        /\ \A n \in ToSet(registered') : color'[n] = "white"
    BY <1>1
  <2>2. search' \in Seq([node : ToSet(registered'), next : Nat \ {0}])
    BY <1>1, EmptySeq
  <2> QED
    BY <1>2, <2>1, <2>2 DEF PathIsGray
<1>4. PathIsOfCalls'
  <2>1. \A i \in 1..(0 - 1) : FALSE
    OBVIOUS
  <2> QED
    BY <1>2, <2>1 DEF PathIsOfCalls
<1>5. VisitedAreSettled'
  BY <1>1, <1>2 DEF VisitedAreSettled
<1>6. BlackAreDone' /\ MarkedAreRecursive'
  BY <1>1 DEF BlackAreDone, MarkedAreRecursive, CallsAsRead
<1>7. GraphIsSeen'
  BY <1>1 DEF GraphIsSeen, CallsAsRead
<1> QED
  BY <1>3, <1>4, <1>5, <1>6, <1>7 DEF Searches
(* A call that the search is through with stays one.                       *)
LEMMA SettledStays ==
  ASSUME UNCHANGED registered, inCycle \subseteq inCycle', NEW u, NEW v, Settled(u, v),
         v \in ToSet(registered) /\ color[v] = "black" => color'[v] = "black"
  PROVE  Settled(u, v)'
BY DEF Settled, Both

(* Functions that were done stay so while calls are only marked.           *)
LEMMA DoneStays ==
  ASSUME BlackAreDone, UNCHANGED <<registered, calls, unseen>>, inCycle \subseteq inCycle',
         NEW n \in Names \cap ToSet(registered), color[n] = "black"
  PROVE  n \notin Reached(Unmarked', n)
<1>1. Unmarked' \subseteq Unmarked
  BY DEF Unmarked, Both
<1>2. n \notin Reached(Unmarked, n)
  BY DEF BlackAreDone
<1> QED
  BY <1>1, <1>2, ReachedShrinks

(* The search at a node, and the path with the next neighbour passed.      *)
LEMMA Advances ==
  ASSUME GraphIsSeen, PathIsGray, search # <<>>
  PROVE  LET L == Len(search)
         IN  /\ L \in 1..L /\ Last(search) = search[L]
             /\ DOMAIN color = ToSet(registered)
             /\ \A i \in 1..L : /\ search[i].node \in ToSet(registered)
                                /\ search[i].next \in Nat \ {0}
                                /\ search[i].node \in Known
                                /\ color[search[i].node] = "gray"
             /\ Advanced \in Seq([node : ToSet(registered), next : Nat \ {0}])
             /\ Len(Advanced) = L
             /\ \A i \in 1..L : Advanced[i].node = search[i].node
             /\ \A i \in 1..L : i # L => Advanced[i] = search[i]
             /\ Advanced[L].next = search[L].next + 1
<1> DEFINE L == Len(search)
           Entry == [node : ToSet(registered), next : Nat \ {0}]
<1>1. search \in Seq(Entry) /\ DOMAIN color = ToSet(registered)
      /\ \A n \in ToSet(registered) : color[n] = "gray" <=> \E i \in 1..L : search[i].node = n
  BY DEF PathIsGray
<1>2. L \in Nat /\ L >= 1 /\ DOMAIN search = 1..L
  BY <1>1, LenProperties, EmptySeq
<1>3. \A i \in 1..L : search[i] \in Entry
  BY <1>1, ElementOfSeq
<1>4. ToSet(registered) \subseteq Known
  BY DEF GraphIsSeen, ToSet
<1>5. L \in 1..L
  BY <1>2
<1>6. \A i \in 1..L : /\ search[i].node \in ToSet(registered)
                       /\ search[i].next \in Nat \ {0}
                       /\ search[i].node \in Known
  BY <1>3, <1>4
<1>7. \A i \in 1..L : color[search[i].node] = "gray"
  BY <1>1, <1>6
<1>8. Last(search) = search[L]
  BY DEF Last
<1> DEFINE entry == [search[L] EXCEPT !.next = @ + 1]
<1>9. entry \in Entry /\ entry.node = search[L].node /\ entry.next = search[L].next + 1
  <2>1. search[L] \in Entry
    BY <1>3, <1>5
  <2> HIDE DEF L
  <2> QED
    BY <2>1
<1>10. Advanced = [search EXCEPT ![L] = entry]
  BY DEF Advanced
<1> HIDE DEF entry
<1>11. Advanced \in Seq(Entry) /\ Len(Advanced) = L /\ Advanced[L] = entry
       /\ \A i \in 1..L : i # L => Advanced[i] = search[i]
  <2> HIDE DEF Entry
  <2> QED
    BY <1>1, <1>2, <1>5, <1>9, <1>10, ExceptSeq
<1> HIDE DEF L
<1>12. \A i \in 1..L : Advanced[i].node = search[i].node
  BY <1>9, <1>11
<1> QED
  BY <1>1, <1>5, <1>6, <1>7, <1>8, <1>9, <1>11, <1>12 DEF L

(* Depth-first search from a new root.                                     *)
LEMMA RootSteps ==
  ASSUME GraphIsSeen, Searches, Root
  PROVE  Searches'
<1> DEFINE c == Min(White)
           n == registered[c]
<1>1. /\ search = << >> /\ White # {} /\ search' = <<[node |-> n, next |-> 1]>>
      /\ color' = [color EXCEPT ![n] = "gray"]
      /\ UNCHANGED <<registered, callees, callSites, calls, unseen, misread, later, inCycle>>
  BY DEF Root, SearchDepthFirst, Unsearched, graph, truth
<1>2. n \in ToSet(registered) /\ color[n] = "white"
  <2>1. registered \in Seq(Known)
    BY DEF GraphIsSeen
  <2>2. DOMAIN registered \in SUBSET Nat
    BY <2>1, LenProperties
  <2>3. White \in SUBSET Nat /\ White \subseteq DOMAIN registered
    BY <2>2 DEF White
  <2>4. c \in White
    BY <1>1, <2>3, LeastIsIn
  <2> HIDE DEF c
  <2> QED
    BY <2>4 DEF White, ToSet
<1> HIDE DEF n
<1>3. color \in [ToSet(registered) -> {"white", "gray", "black"}]
      /\ \A m \in ToSet(registered) : color[m] # "gray"
  <2>1. \A i \in Int : i \notin 1..Len(search)
    BY <1>1
  <2> QED
    BY <2>1 DEF Searches, PathIsGray
<1>4. /\ color' \in [ToSet(registered) -> {"white", "gray", "black"}]
      /\ \A m \in ToSet(registered) : color'[m] = IF m = n THEN "gray" ELSE color[m]
  BY <1>1, <1>2, <1>3
<1>5. search' \in Seq([node : ToSet(registered), next : Nat \ {0}])
      /\ Len(search') = 1 /\ search'[1] = [node |-> n, next |-> 1]
  BY <1>1, <1>2
<1>6. \A i \in 1..1 : i = 1
  OBVIOUS
<1>7. PathIsGray'
  BY <1>1, <1>2, <1>3, <1>4, <1>5, <1>6 DEF PathIsGray
<1>8. PathIsOfCalls'
  <2>1. \A i \in 1..(1 - 1) : FALSE
    OBVIOUS
  <2> QED
    BY <1>5, <2>1 DEF PathIsOfCalls
<1>9. \A m \in ToSet(registered) : color[m] = "black" <=> color'[m] = "black"
  BY <1>2, <1>4
<1>10. VisitedAreSettled'
  <2>1. ASSUME NEW i \in 1..Len(search'), NEW k \in Nat, k >= 1
        PROVE  ~ (k < search'[i].next)
    BY <1>5, <2>1
  <2>2. \A i \in 1..Len(search'), u \in ToSet(registered) : \A k \in 1..Len(callees[u]) :
          ~ (k < search'[i].next)
    BY <2>1
  <2>3. ASSUME NEW u \in ToSet(registered), color'[u] = "black", NEW v \in ToSet(callees[u])
        PROVE  Settled(u, v)'
    BY <1>1, <1>9, <2>3, SettledStays DEF Searches, VisitedAreSettled
  <2> QED
    BY <1>1, <2>2, <2>3 DEF VisitedAreSettled
<1>11. BlackAreDone'
  <2> SUFFICES ASSUME NEW m \in Names \cap ToSet(registered), color'[m] = "black"
               PROVE  m \notin Reached(Unmarked', m)
    BY <1>1 DEF BlackAreDone
  <2> QED
    BY <1>1, <1>9, DoneStays DEF Searches
<1>12. MarkedAreRecursive'
  BY <1>1 DEF Searches, MarkedAreRecursive, CallsAsRead
<1> QED
  BY <1>7, <1>8, <1>10, <1>11, <1>12 DEF Searches
(* The calls of a function by which the search visits its neighbour.       *)
LEMMA Visits ==
  ASSUME GraphIsSeen, PathIsGray, CanVisit
  PROVE  LET L == Len(search) IN
         /\ search # << >> /\ search[L].next \in 1..Len(callees[search[L].node])
         /\ Neighbor = callees[search[L].node][search[L].next]
         /\ Neighbor \in ToSet(callees[search[L].node])
         /\ <<search[L].node, Neighbor>> \in callSites
<1> DEFINE L == Len(search)
           x == search[L].node
           k == search[L].next
<1>1. search # << >> /\ Last(search).next <= Len(callees[Last(search).node])
  BY DEF CanVisit
<1>2. Last(search) = search[L] /\ x \in Known /\ k \in Nat \ {0}
  BY <1>1, Advances
<1>3. callees[x] \in Seq(Known)
  BY <1>2 DEF GraphIsSeen
<1>4. Len(callees[x]) \in Nat /\ DOMAIN callees[x] = 1..Len(callees[x])
  BY <1>3, LenProperties
<1>5. k \in 1..Len(callees[x])
  BY <1>1, <1>2, <1>4
<1>6. Neighbor = callees[x][k]
  BY <1>2 DEF Neighbor
<1>7. Neighbor \in ToSet(callees[x])
  BY <1>4, <1>5, <1>6 DEF ToSet
<1>8. <<x, Neighbor>> \in callSites
  BY <1>2, <1>7 DEF GraphIsSeen
<1> QED
  BY <1>1, <1>5, <1>6, <1>7, <1>8

(* The calls on the path are recorded.                                     *)
LEMMA PathIsRecorded ==
  ASSUME GraphIsSeen, PathIsGray, PathIsOfCalls, NEW i \in 1..(Len(search) - 1)
  PROVE  <<search[i].node, search[i + 1].node>> \in callSites
<1> DEFINE x == search[i].node
           k == search[i].next - 1
<1>1. Len(search) \in Nat
  BY LenProperties DEF PathIsGray
<1>2. i \in 1..Len(search)
  BY <1>1
<1>3. search # << >>
  BY <1>1, <1>2, EmptySeq
<1>4. x \in Known
  BY <1>2, <1>3, Advances
<1>5. k \in 1..Len(callees[x]) /\ callees[x][k] = search[i + 1].node
  BY DEF PathIsOfCalls, Follows
<1>6. callees[x] \in Seq(Known)
  BY <1>4 DEF GraphIsSeen
<1>7. search[i + 1].node \in ToSet(callees[x])
  BY <1>5, <1>6, LenProperties DEF ToSet
<1> QED
  BY <1>4, <1>7 DEF GraphIsSeen

(* A visit keeps the path and what is behind it, if it settles the call    *)
(* or goes on to the neighbour.                                            *)
LEMMA PassesOn ==
  ASSUME GraphIsSeen, Searches, CanVisit, Unsearched,
         search' = Advanced, color' = color, inCycle \subseteq inCycle',
         NEW u, u = search[Len(search)].node, NEW v, v = Neighbor, Settled(u, v)'
  PROVE  PathIsGray' /\ PathIsOfCalls' /\ VisitedAreSettled' /\ BlackAreDone'
<1> DEFINE L == Len(search)
           x == search[L].node
<1>1. PathIsGray /\ PathIsOfCalls /\ VisitedAreSettled /\ BlackAreDone
  BY DEF Searches
<1>2. UNCHANGED <<registered, callees, callSites, calls, unseen, misread>>
  BY DEF Unsearched, graph, truth
<1>3. /\ search # << >> /\ search[L].next \in 1..Len(callees[x])
      /\ Neighbor = callees[x][search[L].next]
  BY <1>1, Visits
<1>4. /\ L \in 1..L /\ Len(search') = L
      /\ search' \in Seq([node : ToSet(registered), next : Nat \ {0}])
      /\ \A i \in 1..L : search'[i].node = search[i].node
      /\ \A i \in 1..L : i # L => search'[i] = search[i]
      /\ search'[L].next = search[L].next + 1
      /\ \A i \in 1..L : search[i].next \in Nat
  BY <1>1, <1>3, Advances
<1> HIDE DEF L
<1>5. PathIsGray'
  <2>1. /\ \A i, j \in 1..L : search[i].node = search[j].node => i = j
        /\ \A n \in ToSet(registered) : color[n] = "gray" <=> \E i \in 1..L : search[i].node = n
        /\ color \in [ToSet(registered) -> {"white", "gray", "black"}]
    BY <1>1 DEF PathIsGray, L
  <2> DEFINE old == [i \in 1..L |-> search[i].node]
             new == [i \in 1..L |-> search'[i].node]
  <2>a. old = new
    BY <1>4
  <2>b. /\ \A i, j \in 1..L : old[i] = old[j] => i = j
        /\ \A n \in ToSet(registered) : color[n] = "gray" <=> \E i \in 1..L : old[i] = n
    BY <2>1
  <2>c. /\ \A i, j \in 1..L : new[i] = new[j] => i = j
        /\ \A n \in ToSet(registered) : color[n] = "gray" <=> \E i \in 1..L : new[i] = n
    BY <2>a, <2>b
  <2>2. /\ \A i, j \in 1..L : search'[i].node = search'[j].node => i = j
        /\ \A n \in ToSet(registered) : color[n] = "gray" <=> \E i \in 1..L : search'[i].node = n
    BY <2>c
  <2> QED
    BY <1>2, <1>4, <2>1, <2>2 DEF PathIsGray
<1>6. PathIsOfCalls'
  <2> SUFFICES ASSUME NEW i \in 1..(L - 1) PROVE Follows(i)'
    BY <1>4 DEF PathIsOfCalls
  <2>1. i \in 1..L /\ i + 1 \in 1..L /\ i # L
    BY <1>4
  <2>2. search'[i] = search[i] /\ search'[i + 1].node = search[i + 1].node
    BY <1>4, <2>1
  <2>3. Follows(i)
    BY <1>1 DEF PathIsOfCalls, L
  <2> QED
    BY <1>2, <2>2, <2>3 DEF Follows
<1>7. \A y, z : Settled(y, z) => Settled(y, z)'
  BY <1>2, SettledStays
<1>8. VisitedAreSettled'
  <2>1. ASSUME NEW i \in 1..L, NEW y \in ToSet(registered), NEW z \in Known,
               NEW k \in 1..Len(callees[y]),
               y = search[i].node, z = callees[y][k], k < search[i].next
        PROVE  Settled(y, z) \/ (i < L /\ k = search[i].next - 1)
    BY <1>1, <2>1 DEF VisitedAreSettled, L
  <2>2. ASSUME NEW i \in 1..L, NEW y \in ToSet(registered), NEW z \in Known,
               NEW k \in 1..Len(callees[y]),
               y = search[i].node, z = callees[y][k], k < search'[i].next
        PROVE  Settled(y, z)' \/ (i < L /\ k = search'[i].next - 1)
    <3>1. CASE i # L
      <4>1. search'[i].next = search[i].next
        BY <1>4, <3>1
      <4>2. Settled(y, z) \/ (i < L /\ k = search[i].next - 1)
        BY <2>1, <2>2, <4>1
      <4> QED
        BY <1>7, <4>1, <4>2
    <3>2. CASE i = L
      <4>1. k < search[L].next \/ k = search[L].next
        BY <1>4, <2>2, <3>2
      <4>2. CASE k < search[L].next
        <5>1. Settled(y, z)
          BY <2>1, <1>4, <2>2, <3>2, <4>2
        <5> QED
          BY <1>7, <5>1
      <4>3. CASE k = search[L].next
        <5>1. y = u /\ z = v
          BY <1>3, <2>2, <3>2, <4>3 DEF L
        <5> QED
          BY <5>1
      <4> QED
        BY <4>1, <4>2, <4>3
    <3> QED
      BY <3>1, <3>2
  <2>4. ASSUME NEW n \in ToSet(registered), color[n] = "black", NEW z \in ToSet(callees[n])
        PROVE  Settled(n, z)'
    BY <1>1, <1>7, <2>4 DEF VisitedAreSettled
  <2>5. L = Len(search') /\ registered' = registered /\ callees' = callees
    BY <1>2, <1>4
  <2>6. \A i \in 1..Len(search') : \A y \in ToSet(registered'), z \in Known :
          \A k \in 1..Len(callees'[y]) :
            y = search'[i].node /\ z = callees'[y][k] /\ k < search'[i].next =>
              Settled(y, z)' \/ (i < Len(search') /\ k = search'[i].next - 1)
    <3> SUFFICES ASSUME NEW i \in 1..Len(search'), NEW y \in ToSet(registered'), NEW z \in Known,
                        NEW k \in 1..Len(callees'[y]),
                        y = search'[i].node, z = callees'[y][k], k < search'[i].next
                 PROVE  Settled(y, z)' \/ (i < Len(search') /\ k = search'[i].next - 1)
      OBVIOUS
    <3>1. i \in 1..L /\ y \in ToSet(registered) /\ k \in 1..Len(callees[y]) /\ z = callees[y][k]
      BY <2>5
    <3>2. y = search[i].node
      BY <1>4, <3>1
    <3> QED
      BY <2>2, <2>5, <3>1, <3>2
  <2> QED
    BY <2>4, <2>5, <2>6 DEF VisitedAreSettled
<1>9. BlackAreDone'
  <2> SUFFICES ASSUME NEW m \in Names \cap ToSet(registered), color[m] = "black"
               PROVE  m \notin Reached(Unmarked', m)
    BY <1>2 DEF BlackAreDone
  <2> QED
    BY <1>1, <1>2, DoneStays
<1> QED
  BY <1>5, <1>6, <1>8, <1>9
(* A neighbour that is done, or no function of the file, is passed by.     *)
LEMMA OtherSteps ==
  ASSUME RecursionAssumption, GraphIsSeen, Searches, VisitOther
  PROVE  Searches'
<1> DEFINE u == search[Len(search)].node
           v == Neighbor
<1>1. /\ CanVisit /\ search' = Advanced /\ UNCHANGED <<color, inCycle>> /\ Unsearched
      /\ ColorOf(v) \in {"black", Undefined}
  BY DEF VisitOther
<1>2. UNCHANGED <<registered, calls, misread>>
  BY <1>1 DEF Unsearched, graph, truth
<1>3. color \in [ToSet(registered) -> {"white", "gray", "black"}]
  BY DEF Searches, PathIsGray
<1>4. v \in ToSet(registered) => color[v] = "black"
  BY <1>1, <1>3 DEF ColorOf, Undefined
<1> HIDE DEF u, v
<1>5. \A y, z : z = v => Settled(y, z)'
  BY <1>1, <1>2, <1>4 DEF Settled
<1>6. PathIsGray' /\ PathIsOfCalls' /\ VisitedAreSettled' /\ BlackAreDone'
  BY <1>1, <1>5, PassesOn DEF u, v
<1>7. MarkedAreRecursive'
  BY <1>1, <1>2 DEF Searches, MarkedAreRecursive, CallsAsRead
<1> QED
  BY <1>6, <1>7 DEF Searches

(* What is marked of a path.                                               *)
LEMMA MarkedIsSuffix ==
  ASSUME NEW S, NEW s \in Seq(S), NEW n \in ToSet(s)
  PROVE  \E c \in 1..Len(s) : s[c] = n /\ Marked(s, n) = {s[i] : i \in c..Len(s)}
<1> DEFINE L == Len(s)
           at == {i \in 1..L : s[i] = n}
           c == Max(at)
           t == SubSeq(s, c, L)
<1>1. L \in Nat /\ DOMAIN s = 1..L
  BY LenProperties
<1>2. at # {}
  BY <1>1 DEF ToSet
<1>3. c \in at
  BY <1>1, <1>2, GreatestIsIn
<1>4. LastIndex(s, n) = c
  BY <1>1 DEF LastIndex
<1>5. Marked(s, n) = ToSet(t)
  BY <1>4 DEF Marked
<1> HIDE DEF c, L
<1>6. c \in 1..L /\ s[c] = n
  BY <1>3
<1>7. \A i \in c..L : s[i] \in S
  <2>1. \A i \in c..L : i \in 1..L
    BY <1>1, <1>6
  <2> QED
    BY <2>1, ElementOfSeq DEF L
<1>8. /\ t \in Seq(S) /\ Len(t) = IF c <= L THEN L - c + 1 ELSE 0
      /\ \A i \in 1..L - c + 1 : t[i] = s[c + i - 1]
  BY <1>1, <1>6, <1>7, SubSeqProperties
<1>9. DOMAIN t = 1..(L - c + 1)
  <2>1. c <= L
    BY <1>1, <1>6
  <2> QED
    BY <1>8, <2>1, LenProperties
<1> HIDE DEF t
<1>10. ToSet(t) = {s[i] : i \in c..L}
  <2>1. \A i \in 1..(L - c + 1) : c + i - 1 \in c..L
    BY <1>1, <1>6
  <2>2. \A j \in c..L : j - c + 1 \in 1..(L - c + 1) /\ c + (j - c + 1) - 1 = j
    BY <1>1, <1>6
  <2>3. ToSet(t) = {t[i] : i \in 1..(L - c + 1)}
    BY <1>9 DEF ToSet
  <2>4. \A i \in 1..(L - c + 1) : t[i] = s[c + i - 1]
    BY <1>8
  <2>5. \A x \in ToSet(t) : x \in {s[i] : i \in c..L}
    BY <2>1, <2>3, <2>4
  <2>6. \A j \in c..L : s[j] \in ToSet(t)
    BY <2>2, <2>3, <2>4
  <2> QED
    BY <2>5, <2>6
<1> QED
  BY <1>5, <1>6, <1>10 DEF L

(* A neighbour on the path closes a cycle, from where it is on the path.   *)
LEMMA CycleIsRecursive ==
  ASSUME RecursionAssumption, GraphIsSeen, PathIsGray, PathIsOfCalls, CanVisit,
         NEW c \in 1..Len(search), search[c].node = Neighbor, NEW i \in c..Len(search)
  PROVE  search[i].node \in Names /\ search[i].node \in Reached(CallsAsRead, search[i].node)
<1> DEFINE L == Len(search)
           node == [j \in 1..L |-> search[j].node]
<1>1. L \in Nat
  BY LenProperties DEF PathIsGray
<1>2. \A j \in 1..(L - 1) : j \in 1..L /\ j + 1 \in 1..L
  BY <1>1
<1>3. \A j \in 1..(L - 1) : <<node[j], node[j + 1]>> \in callSites
  <2>1. \A j \in 1..(L - 1) : <<search[j].node, search[j + 1].node>> \in callSites
    BY PathIsRecorded
  <2> QED
    BY <1>2, <2>1
<1>4. L \in 1..L
  BY <1>1
<1>5. <<node[L], node[c]>> \in callSites
  BY <1>4, Visits
<1> HIDE DEF L, node
<1>6. c \in 1..L /\ i \in c..L
  BY DEF L
<1>7. \A j \in c..L : j \in 1..L /\ (j # L => j \in 1..(L - 1) /\ j + 1 \in c..L)
  BY <1>1, <1>6
<1>8. \A j \in c..L : node[j] \in Names
  <2>1. callSites \subseteq Names \X Known
    BY DEF GraphIsSeen
  <2> QED
    BY <1>3, <1>5, <1>7, <2>1
<1>9. /\ \A j \in c..L : j # L => <<node[j], node[j + 1]>> \in CallsAsRead
      /\ <<node[L], node[c]>> \in CallsAsRead
  <2>1. callSites \cap (Names \X Names) \subseteq CallsAsRead
    BY DEF GraphIsSeen
  <2>2. L \in c..L /\ c \in c..L
    BY <1>1, <1>6
  <2> QED
    BY <1>3, <1>5, <1>7, <1>8, <2>1, <2>2
<1>10. ASSUME NEW C \in SUBSET Names,
              \A e \in CallsAsRead : e[1] = node[i] \/ e[1] \in C => e[2] \in C
       PROVE  node[i] \in C
  <2> DEFINE T == {j \in c..L : node[j] \in C}
  <2>1. \A j \in c..L : (j = i \/ j \in T) /\ j # L => j + 1 \in T
    BY <1>7, <1>9, <1>10
  <2>2. L = i \/ L \in T => c \in T
    <3>1. c \in c..L /\ L \in c..L
      BY <1>1, <1>6
    <3> QED
      BY <3>1, <1>9, <1>10
  <2> HIDE DEF T
  <2>3. i \in Nat /\ c \in Nat /\ i <= L /\ c <= i /\ i \in c..L
    BY <1>1, <1>6
  <2>4. c \in T
    <3>1. CASE i = L
      BY <2>2, <3>1
    <3>2. CASE i # L
      <4>1. i + 1 \in T
        BY <2>1, <2>3, <3>2
      <4>2. \A j \in (i + 1)..L : j \in c..L /\ (j < L => j # L)
        BY <1>1, <2>3
      <4>3. \A j \in (i + 1)..L : j \in T /\ j < L => j + 1 \in T
        BY <2>1, <4>2
      <4>4. i + 1 \in Nat /\ L \in (i + 1)..L
        BY <1>1, <2>3, <3>2
      <4>5. \A j \in (i + 1)..L : j \in T
        BY <1>1, <4>1, <4>3, <4>4, Chain
      <4> QED
        BY <2>2, <4>4, <4>5
    <3> QED
      BY <3>1, <3>2
  <2>5. \A j \in c..i : j \in T
    <3>1. \A j \in c..i : j < i => j \in c..L /\ j # L
      BY <1>1, <2>3
    <3>2. \A j \in c..i : j \in T /\ j < i => j + 1 \in T
      BY <2>1, <3>1
    <3> QED
      BY <2>3, <2>4, <3>2, Chain
  <2>6. i \in T
    <3>1. i \in c..i
      BY <2>3
    <3> QED
      BY <3>1, <2>5
  <2> QED
    BY <2>6 DEF T
<1>11. node[i] \in Names /\ node[i] \in Reached(CallsAsRead, node[i])
  BY <1>6, <1>8, <1>10 DEF Reached
<1> QED
  BY <1>6, <1>7, <1>11 DEF node
(* A neighbour on the path: the cycle that it closes is marked.            *)
LEMMA GraySteps ==
  ASSUME RecursionAssumption, GraphIsSeen, Searches, VisitGray
  PROVE  Searches'
<1> DEFINE L == Len(search)
           v == Neighbor
           marked == Marked(SearchPath, v)
<1>1. /\ CanVisit /\ search' = Advanced /\ UNCHANGED color /\ Unsearched
      /\ ColorOf(v) = "gray" /\ inCycle' = inCycle \cup marked
  BY DEF VisitGray
<1>2. UNCHANGED <<registered, calls, misread>>
  BY <1>1 DEF Unsearched, graph, truth
<1>3. PathIsGray /\ PathIsOfCalls /\ MarkedAreRecursive
  BY DEF Searches
<1>4. L \in Nat /\ DOMAIN search = 1..L /\ color \in [ToSet(registered) -> {"white", "gray", "black"}]
  BY <1>3, LenProperties DEF PathIsGray
<1>5. search # << >>
  BY <1>1 DEF CanVisit
<1>6. \A i \in 1..L : search[i].node \in ToSet(registered)
  BY <1>3, <1>5, Advances
<1>7. SearchPath \in Seq(ToSet(registered)) /\ Len(SearchPath) = L
      /\ \A i \in 1..L : SearchPath[i] = search[i].node
  <2>1. SearchPath = [i \in 1..L |-> search[i].node]
    BY <1>4 DEF SearchPath
  <2> HIDE DEF L
  <2>2. SearchPath \in [1..L -> ToSet(registered)]
    BY <1>6, <2>1
  <2>3. SearchPath \in Seq(ToSet(registered)) /\ Len(SearchPath) = L
    BY <1>4, <2>2, IsASeq, LenProperties
  <2> QED
    BY <2>1, <2>3
<1>8. v \in ToSet(registered) /\ color[v] = "gray"
  BY <1>1, <1>4 DEF ColorOf, Undefined
<1>9. v \in ToSet(SearchPath)
  <2>1. \E i \in 1..L : search[i].node = v
    BY <1>3, <1>8 DEF PathIsGray
  <2>2. DOMAIN SearchPath = 1..L
    BY <1>7, LenProperties
  <2> QED
    BY <1>7, <2>1, <2>2 DEF ToSet
<1>10. PICK c \in 1..L : SearchPath[c] = v /\ marked = {SearchPath[i] : i \in c..L}
  <2> HIDE DEF v
  <2> QED
    BY <1>7, <1>9, MarkedIsSuffix
<1>11. \A n \in marked : n \in Names /\ n \in Reached(CallsAsRead, n)
  <2> SUFFICES ASSUME NEW i \in c..L PROVE search[i].node \in Names /\ search[i].node \in Reached(CallsAsRead, search[i].node)
    <3>1. \A j \in c..L : j \in 1..L
      BY <1>4, <1>10
    <3> QED
      BY <3>1, <1>7, <1>10
  <2>1. search[c].node = v
    BY <1>7, <1>10
  <2> QED
    BY <1>1, <1>3, <2>1, CycleIsRecursive
<1>12. search[L].node \in marked /\ v \in marked
  <2> HIDE DEF L
  <2>1. L \in c..L /\ L \in 1..L /\ c \in c..L
    BY <1>4, <1>10
  <2> QED
    BY <1>7, <1>10, <2>1
<1> HIDE DEF v, marked, L
<1>13. \A y, z : y \in marked /\ z \in marked => Settled(y, z)'
  BY <1>1 DEF Settled, Both
<1>14. inCycle \subseteq inCycle'
  BY <1>1
<1>15. PathIsGray' /\ PathIsOfCalls' /\ VisitedAreSettled' /\ BlackAreDone'
  BY <1>1, <1>12, <1>13, <1>14, PassesOn DEF v, L
<1>16. MarkedAreRecursive'
  BY <1>1, <1>2, <1>3, <1>11 DEF MarkedAreRecursive, CallsAsRead
<1> QED
  BY <1>15, <1>16 DEF Searches

(* A new neighbour: the path goes on to it.                                *)
LEMMA WhiteSteps ==
  ASSUME RecursionAssumption, GraphIsSeen, Searches, VisitWhite
  PROVE  Searches'
<1> DEFINE L == Len(search)
           v == Neighbor
           entry == [node |-> v, next |-> 1]
           Entry == [node : ToSet(registered), next : Nat \ {0}]
<1>1. /\ CanVisit /\ search' = Append(Advanced, entry) /\ color' = [color EXCEPT ![v] = "gray"]
      /\ Unsearched /\ UNCHANGED inCycle /\ ColorOf(v) = "white"
  BY DEF VisitWhite, SearchDepthFirst
<1>2. UNCHANGED <<registered, callees, calls, unseen, misread>>
  BY <1>1 DEF Unsearched, graph, truth
<1>3. PathIsGray /\ PathIsOfCalls /\ VisitedAreSettled /\ BlackAreDone /\ MarkedAreRecursive
  BY DEF Searches
<1>4. /\ color \in [ToSet(registered) -> {"white", "gray", "black"}]
      /\ \A i, j \in 1..L : search[i].node = search[j].node => i = j
      /\ \A n \in ToSet(registered) : color[n] = "gray" <=> \E i \in 1..L : search[i].node = n
  BY <1>3 DEF PathIsGray
<1>5. v \in ToSet(registered) /\ color[v] = "white"
  BY <1>1, <1>4 DEF ColorOf, Undefined
<1>6. /\ search # << >> /\ search[L].next \in 1..Len(callees[search[L].node])
      /\ v = callees[search[L].node][search[L].next]
  BY <1>1, <1>3, Visits
<1>7. /\ L \in 1..L /\ Advanced \in Seq(Entry) /\ Len(Advanced) = L
      /\ \A i \in 1..L : Advanced[i].node = search[i].node
      /\ \A i \in 1..L : i # L => Advanced[i] = search[i]
      /\ Advanced[L].next = search[L].next + 1
      /\ \A i \in 1..L : search[i].next \in Nat
      /\ \A i \in 1..L : color[search[i].node] = "gray"
  BY <1>3, <1>6, Advances
<1> HIDE DEF L, v
<1>8. entry \in Entry /\ entry.node = v /\ entry.next = 1
  BY <1>5
<1> HIDE DEF entry, Entry
<1>9. /\ search' \in Seq(Entry) /\ Len(search') = L + 1 /\ search'[L + 1] = entry
      /\ \A i \in 1..L : search'[i] = Advanced[i]
  BY <1>1, <1>7, <1>8, AppendProperties
<1>10. \A i \in 1..(L + 1) : i \in 1..L \/ i = L + 1
  BY <1>7
<1>11. /\ \A i \in 1..L : search'[i].node = search[i].node
       /\ search'[L + 1].node = v /\ search'[L + 1].next = 1
       /\ \A i \in 1..L : i # L => search'[i].next = search[i].next
       /\ search'[L].next = search[L].next + 1
  BY <1>7, <1>8, <1>9
<1>12. /\ color' \in [ToSet(registered) -> {"white", "gray", "black"}]
       /\ \A n \in ToSet(registered) : color'[n] = IF n = v THEN "gray" ELSE color[n]
  BY <1>1, <1>4, <1>5
<1>13. \A n \in ToSet(registered) : color[n] = "black" <=> color'[n] = "black"
  BY <1>5, <1>12
<1>14. \A i \in 1..L : search[i].node # v
  BY <1>5, <1>7
<1>15. PathIsGray'
  <2> DEFINE node == [i \in 1..(L + 1) |-> search'[i].node]
  <2>1. node[L + 1] = v /\ \A i \in 1..L : node[i] = search[i].node
    <3>1. L + 1 \in 1..(L + 1) /\ \A i \in 1..L : i \in 1..(L + 1)
      BY <1>7
    <3> QED
      BY <3>1, <1>11
  <2> HIDE DEF node
  <2>2. \A i, j \in 1..(L + 1) : node[i] = node[j] => i = j
    BY <1>4, <1>10, <1>14, <2>1
  <2>3. ASSUME NEW n \in ToSet(registered)
        PROVE  color'[n] = "gray" <=> \E i \in 1..(L + 1) : node[i] = n
    <3>1. \A i \in 1..L : i \in 1..(L + 1)
      BY <1>7
    <3>2. L + 1 \in 1..(L + 1)
      BY <1>7
    <3>3. CASE n = v
      <4>1. color'[n] = "gray"
        BY <3>3, <1>12
      <4>2. node[L + 1] = n
        BY <3>3, <2>1
      <4> QED
        BY <4>1, <4>2, <3>2
    <3>4. CASE n # v
      <4>1. color'[n] = "gray" <=> \E i \in 1..L : search[i].node = n
        <5>1. color'[n] = color[n]
          BY <1>12, <3>4
        <5>2. color[n] = "gray" <=> \E i \in 1..L : search[i].node = n
          BY <1>4
        <5> QED
          BY <5>1, <5>2
      <4>2. (\E i \in 1..L : search[i].node = n) <=> \E i \in 1..L : node[i] = n
        BY <2>1
      <4>3. (\E i \in 1..L : node[i] = n) <=> \E i \in 1..(L + 1) : node[i] = n
        BY <3>1, <3>4, <1>10, <2>1
      <4> QED
        BY <4>1, <4>2, <4>3
    <3> QED
      BY <3>3, <3>4
  <2>4. \A i \in 1..(L + 1) : node[i] = search'[i].node
    BY DEF node
  <2>5. \A i, j \in 1..(L + 1) : search'[i].node = search'[j].node => i = j
    BY <2>2, <2>4
  <2>6. \A n \in ToSet(registered) : color'[n] = "gray" <=> \E i \in 1..(L + 1) : search'[i].node = n
    BY <2>3, <2>4
  <2> QED
    BY <1>2, <1>9, <1>12, <2>5, <2>6 DEF PathIsGray, Entry
<1>16. PathIsOfCalls'
  <2> SUFFICES ASSUME NEW i \in 1..L PROVE Follows(i)'
    <3>1. (L + 1) - 1 = L
      BY <1>7
    <3> QED
      BY <3>1, <1>9 DEF PathIsOfCalls
  <2>1. CASE i = L
    <3>1. search'[L].next - 1 = search[L].next
      BY <1>7, <1>11
    <3> QED
      BY <1>2, <1>6, <1>7, <1>11, <2>1, <3>1 DEF Follows
  <2>2. CASE i # L
    <3>1. i \in 1..(L - 1) /\ i + 1 \in 1..L
      BY <1>7, <2>2
    <3>2. Follows(i)
      BY <1>3, <3>1 DEF PathIsOfCalls, L
    <3> QED
      BY <1>2, <1>11, <2>2, <3>1, <3>2 DEF Follows
  <2> QED
    BY <2>1, <2>2
<1>17. \A y, z : Settled(y, z) => Settled(y, z)'
  <2> SUFFICES ASSUME NEW y, NEW z, Settled(y, z) PROVE Settled(y, z)'
    OBVIOUS
  <2> QED
    BY <1>1, <1>2, <1>13, SettledStays
<1>18. VisitedAreSettled'
  <2>1. ASSUME NEW i \in 1..(L + 1), NEW y \in ToSet(registered), NEW z \in Known,
               NEW k \in 1..Len(callees[y]),
               y = search'[i].node, z = callees[y][k], k < search'[i].next
        PROVE  Settled(y, z)' \/ (i < L + 1 /\ k = search'[i].next - 1)
    <3>1. CASE i = L + 1
      BY <1>11, <2>1, <3>1
    <3>2. CASE i \in 1..L
      <4>1. k < search[i].next => Settled(y, z) \/ (i < L /\ k = search[i].next - 1)
        <5>1. y = search[i].node
          BY <1>11, <2>1, <3>2
        <5> QED
          BY <1>3, <2>1, <3>2, <5>1 DEF VisitedAreSettled, L
      <4>2. CASE i = L
        <5>1. k < search[L].next \/ k = search'[L].next - 1
          BY <1>7, <1>11, <2>1, <4>2
        <5>2. L < L + 1 /\ ~ (L < L)
          BY <1>7
        <5> QED
          BY <1>17, <4>1, <4>2, <5>1, <5>2
      <4>3. CASE i # L
        <5>1. search'[i].next = search[i].next /\ (i < L => i < L + 1)
          BY <1>7, <1>11, <3>2, <4>3
        <5> QED
          BY <1>17, <2>1, <4>1, <5>1
      <4> QED
        BY <4>2, <4>3
    <3> QED
      BY <3>1, <3>2, <1>10
  <2>2. ASSUME NEW n \in ToSet(registered), color'[n] = "black", NEW z \in ToSet(callees[n])
        PROVE  Settled(n, z)'
    BY <1>3, <1>13, <1>17, <2>2 DEF VisitedAreSettled
  <2>3. L + 1 = Len(search') /\ registered' = registered /\ callees' = callees
    BY <1>2, <1>9
  <2>4. \A i \in 1..Len(search') : \A y \in ToSet(registered'), z \in Known :
          \A k \in 1..Len(callees'[y]) :
            y = search'[i].node /\ z = callees'[y][k] /\ k < search'[i].next =>
              Settled(y, z)' \/ (i < Len(search') /\ k = search'[i].next - 1)
    <3> SUFFICES ASSUME NEW i \in 1..Len(search'), NEW y \in ToSet(registered'), NEW z \in Known,
                        NEW k \in 1..Len(callees'[y]),
                        y = search'[i].node, z = callees'[y][k], k < search'[i].next
                 PROVE  Settled(y, z)' \/ (i < Len(search') /\ k = search'[i].next - 1)
      OBVIOUS
    <3>1. i \in 1..(L + 1) /\ y \in ToSet(registered) /\ k \in 1..Len(callees[y]) /\ z = callees[y][k]
      BY <2>3
    <3> QED
      BY <2>1, <2>3, <3>1
  <2> QED
    BY <2>2, <2>3, <2>4 DEF VisitedAreSettled
<1>19. BlackAreDone'
  <2> SUFFICES ASSUME NEW m \in Names \cap ToSet(registered), color'[m] = "black"
               PROVE  m \notin Reached(Unmarked', m)
    BY <1>2 DEF BlackAreDone
  <2> QED
    BY <1>1, <1>2, <1>3, <1>13, DoneStays
<1>20. MarkedAreRecursive'
  BY <1>1, <1>2, <1>3 DEF MarkedAreRecursive, CallsAsRead
<1> QED
  BY <1>15, <1>16, <1>18, <1>19, <1>20 DEF Searches
(* A function whose neighbours all were visited is done: all that it calls *)
(* outside marked cycles is black or unknown, and so is all that they call.*)
LEMMA FinishSteps ==
  ASSUME RecursionAssumption, GraphIsSeen, Searches, Finish
  PROVE  Searches'
<1> DEFINE L == Len(search)
           x == search[L].node
           Entry == [node : ToSet(registered), next : Nat \ {0}]
<1>1. /\ phase = "search" /\ search # << >> /\ ~ CanVisit /\ search' = Front(search)
      /\ color' = [color EXCEPT ![Last(search).node] = "black"]
      /\ Unsearched /\ UNCHANGED inCycle
  BY DEF Finish
<1>2. UNCHANGED <<registered, callees, calls, unseen, misread>>
  BY <1>1 DEF Unsearched, graph, truth
<1>3. PathIsGray /\ PathIsOfCalls /\ VisitedAreSettled /\ BlackAreDone /\ MarkedAreRecursive
  BY DEF Searches
<1>4. /\ color \in [ToSet(registered) -> {"white", "gray", "black"}] /\ search \in Seq(Entry)
      /\ \A i, j \in 1..L : search[i].node = search[j].node => i = j
      /\ \A n \in ToSet(registered) : color[n] = "gray" <=> \E i \in 1..L : search[i].node = n
  BY <1>3 DEF PathIsGray
<1>5. /\ L \in 1..L /\ Last(search) = search[L] /\ x \in ToSet(registered) /\ x \in Known
      /\ search[L].next \in Nat
      /\ \A i \in 1..L : color[search[i].node] = "gray"
  BY <1>1, <1>3, Advances
<1>6. callees[x] \in Seq(Known) /\ Len(callees[x]) \in Nat
  <2>1. callees[x] \in Seq(Known)
    BY <1>5 DEF GraphIsSeen
  <2> QED
    BY <2>1, LenProperties
<1>7. \A k \in 1..Len(callees[x]) : k < search[L].next
  <2>1. ~ (search[L].next <= Len(callees[x]))
    BY <1>1, <1>5 DEF CanVisit
  <2> QED
    BY <2>1, <1>5, <1>6
<1>8. /\ search' \in Seq(Entry) /\ Len(search') = L - 1
      /\ \A i \in 1..(L - 1) : search'[i] = search[i]
  <2>1. search' = SubSeq(search, 1, L - 1)
    BY <1>1 DEF Front
  <2> DEFINE l == L - 1
  <2>2. l \in 0..Len(search)
    BY <1>5
  <2> HIDE DEF l, Entry
  <2>3. /\ SubSeq(search, 1, l) \in Seq(Entry) /\ Len(SubSeq(search, 1, l)) = l
        /\ \A i \in 1..l : SubSeq(search, 1, l)[i] = search[i]
    BY <1>4, <2>2, FirstOnes
  <2> QED
    BY <2>1, <2>3 DEF l
<1> HIDE DEF L, Entry
<1>9. \A i \in 1..(L - 1) : i \in 1..L /\ i # L
  BY <1>5
<1>10. /\ color' \in [ToSet(registered) -> {"white", "gray", "black"}]
       /\ \A n \in ToSet(registered) : color'[n] = IF n = x THEN "black" ELSE color[n]
  BY <1>1, <1>4, <1>5
<1>11. color[x] = "gray"
  BY <1>5
<1>12. \A i \in 1..(L - 1) : search[i].node # x
  BY <1>4, <1>5, <1>9
<1> HIDE DEF x
<1>13. PathIsGray'
  <2>1. \A i, j \in 1..(L - 1) : search'[i].node = search'[j].node => i = j
    BY <1>4, <1>8, <1>9
  <2>2. ASSUME NEW n \in ToSet(registered)
        PROVE  color'[n] = "gray" <=> \E i \in 1..(L - 1) : search'[i].node = n
    <3>1. (\E i \in 1..(L - 1) : search'[i].node = n) <=> \E i \in 1..(L - 1) : search[i].node = n
      BY <1>8
    <3>2. CASE n = x
      BY <1>10, <1>12, <3>1, <3>2
    <3>3. CASE n # x
      <4>1. color'[n] = "gray" <=> \E i \in 1..L : search[i].node = n
        BY <1>4, <1>10, <3>3
      <4>2. \A i \in 1..L : search[i].node = n => i \in 1..(L - 1)
        <5>1. \A i \in 1..L : i # L => i \in 1..(L - 1)
          BY <1>5
        <5> QED
          BY <3>3, <5>1 DEF x
      <4> QED
        BY <3>1, <4>1, <4>2, <1>9
    <3> QED
      BY <3>2, <3>3
  <2> QED
    BY <1>2, <1>8, <1>10, <2>1, <2>2 DEF PathIsGray, Entry
<1>14. PathIsOfCalls'
  <2> SUFFICES ASSUME NEW i \in 1..((L - 1) - 1) PROVE Follows(i)'
    BY <1>8 DEF PathIsOfCalls
  <2>1. i \in 1..(L - 1) /\ i + 1 \in 1..(L - 1)
    BY <1>5
  <2>2. Follows(i)
    BY <1>3, <2>1 DEF PathIsOfCalls, L
  <2> QED
    BY <1>2, <1>8, <2>1, <2>2 DEF Follows
<1>15. ASSUME NEW y, NEW z, Settled(y, z) PROVE Settled(y, z)'
  <2>1. z \in ToSet(registered) /\ color[z] = "black" => color'[z] = "black"
    BY <1>10
  <2> QED
    BY <1>1, <1>2, <1>15, <2>1, SettledStays
<1>16. ASSUME NEW y, NEW z, z = x PROVE Settled(y, z)'
  BY <1>2, <1>5, <1>10, <1>16 DEF Settled
<1>17. ASSUME NEW z \in ToSet(callees[x]) PROVE Settled(x, z)
  <2>1. PICK k \in 1..Len(callees[x]) : callees[x][k] = z
    BY <1>6, LenProperties DEF ToSet
  <2>2. z \in Known
    BY <1>6, <2>1, ElementOfSeq
  <2>3. k < search[L].next /\ ~ (L < L)
    BY <1>5, <1>7, <2>1
  <2>4. x = search[L].node
    BY DEF x
  <2>5. Settled(x, z) \/ (L < L /\ k = search[L].next - 1)
    BY <1>3, <1>5, <2>1, <2>2, <2>3, <2>4 DEF VisitedAreSettled, L
  <2> QED
    BY <2>3, <2>5
<1>18. VisitedAreSettled'
  <2>1. ASSUME NEW i \in 1..(L - 1), NEW y \in ToSet(registered), NEW z \in Known,
               NEW k \in 1..Len(callees[y]),
               y = search[i].node, z = callees[y][k], k < search[i].next
        PROVE  Settled(y, z)' \/ (i < L - 1 /\ k = search[i].next - 1)
    <3>1. Settled(y, z) \/ (i < L /\ k = search[i].next - 1)
      BY <1>3, <1>9, <2>1 DEF VisitedAreSettled, L
    <3>2. CASE i < L - 1
      BY <1>15, <3>1, <3>2
    <3>3. CASE ~ (i < L - 1) /\ k = search[i].next - 1
      <4>1. i + 1 = L
        BY <1>5, <3>3
      <4>2. callees[search[i].node][search[i].next - 1] = search[i + 1].node
        <5>1. i \in 1..(Len(search) - 1)
          BY <1>5 DEF L
        <5> QED
          BY <1>3, <5>1 DEF PathIsOfCalls, Follows
      <4>3. z = x
        BY <2>1, <3>3, <4>1, <4>2 DEF x
      <4> QED
        BY <1>16, <4>3
    <3> QED
      BY <1>15, <3>1, <3>2, <3>3
  <2>2. ASSUME NEW n \in ToSet(registered), color'[n] = "black", NEW z \in ToSet(callees[n])
        PROVE  Settled(n, z)'
    <3>1. CASE n = x
      BY <1>15, <1>17, <3>1
    <3>2. CASE n # x
      <4>1. Settled(n, z)
        BY <1>3, <1>10, <2>2, <3>2 DEF VisitedAreSettled
      <4> QED
        BY <1>15, <4>1
    <3> QED
      BY <3>1, <3>2
  <2>3. L - 1 = Len(search') /\ registered' = registered /\ callees' = callees
    BY <1>2, <1>8
  <2>4. \A i \in 1..Len(search') : \A y \in ToSet(registered'), z \in Known :
          \A k \in 1..Len(callees'[y]) :
            y = search'[i].node /\ z = callees'[y][k] /\ k < search'[i].next =>
              Settled(y, z)' \/ (i < Len(search') /\ k = search'[i].next - 1)
    <3> SUFFICES ASSUME NEW i \in 1..Len(search'), NEW y \in ToSet(registered'), NEW z \in Known,
                        NEW k \in 1..Len(callees'[y]),
                        y = search'[i].node, z = callees'[y][k], k < search'[i].next
                 PROVE  Settled(y, z)' \/ (i < Len(search') /\ k = search'[i].next - 1)
      OBVIOUS
    <3>1. i \in 1..(L - 1) /\ y \in ToSet(registered) /\ k \in 1..Len(callees[y]) /\ z = callees[y][k]
      BY <2>3
    <3>2. search'[i] = search[i]
      BY <1>8, <3>1
    <3> QED
      BY <2>1, <2>3, <3>1, <3>2
  <2> QED
    BY <2>2, <2>3, <2>4 DEF VisitedAreSettled
<1>19. x \in Names => x \notin Reached(Unmarked, x)
  <2> DEFINE C == {y \in Names : y \notin ToSet(registered) \/ color[y] = "black"}
  <2>1. x \notin C
    BY <1>5, <1>11
  <2>2. ASSUME NEW e \in Unmarked, e[1] = x \/ e[1] \in C PROVE e[2] \in C
    <3>1. e \in callSites /\ e \in Names \X Names /\ ~ Both(e[1], e[2])
      BY DEF Unmarked, GraphIsSeen, CallsAsRead
    <3>2. e[1] \in ToSet(registered) /\ e[2] \in ToSet(callees[e[1]])
      BY <3>1 DEF GraphIsSeen
    <3>3. Settled(e[1], e[2])
      <4>1. CASE e[1] = x
        BY <1>17, <3>2, <4>1
      <4>2. CASE e[1] \in C
        BY <1>3, <3>2, <4>2 DEF VisitedAreSettled
      <4> QED
        BY <2>2, <4>1, <4>2
    <3> QED
      BY <3>1, <3>3 DEF Settled
  <2>3. C \in SUBSET Names
    OBVIOUS
  <2> HIDE DEF C
  <2> QED
    BY <2>1, <2>2, <2>3 DEF Reached
<1>20. BlackAreDone'
  <2>1. Unmarked' = Unmarked
    BY <1>1, <1>2 DEF Unmarked, Both
  <2> SUFFICES ASSUME NEW m \in Names \cap ToSet(registered), color'[m] = "black"
               PROVE  m \notin Reached(Unmarked, m)
    BY <1>2, <2>1 DEF BlackAreDone
  <2> QED
    BY <1>3, <1>10, <1>19 DEF BlackAreDone
<1>21. MarkedAreRecursive'
  BY <1>1, <1>2, <1>3 DEF MarkedAreRecursive, CallsAsRead
<1> QED
  BY <1>13, <1>14, <1>18, <1>20, <1>21 DEF Searches

-----------------------------------------------------------------------------
(* The invariant.                                                          *)

(* Nothing has been walked, registered or called at the beginning.         *)
LEMMA Begins ==
  ASSUME Init
  PROVE  IInv
<1>1. /\ path = << >> /\ functionStack = << >> /\ registered = << >>
      /\ callees = [n \in Known |-> << >>] /\ callSites = {} /\ calls = {} /\ unseen = {} /\ misread = {}
      /\ later = {} /\ phase = "walk" /\ search = << >> /\ inCycle = {} /\ reported = {}
  BY DEF Init
<1>2. ToSet(registered) = {} /\ ToSet(functionStack) = {} /\ \A u \in Known : ToSet(callees[u]) = {}
  BY <1>1 DEF ToSet
<1>3. Walks
  <2> DEFINE pos == [i \in 0..0 |-> 0]
  <2>1. Len(path) = 0 /\ Len(functionStack) = 0
    BY <1>1
  <2>2. pos \in [0..0 -> Nat] /\ pos[0] = 0
    OBVIOUS
  <2>3. (\A i \in 1..0 : FALSE) /\ \A i \in 0..0 : i = 0
    OBVIOUS
  <2> HIDE DEF pos
  <2>4. Placed(path, functionStack, pos)
    BY <2>1, <2>2, <2>3 DEF Placed
  <2>5. path \in Seq(Nodes) /\ functionStack \in Seq(Names \cup {Undefined})
    BY <1>1, EmptySeq
  <2> QED
    BY <1>2, <2>1, <2>2, <2>4, <2>5 DEF Walks
<1>4. GraphIsSeen
  <2>1. registered \in Seq(Known) /\ << >> \in Seq(Known)
    BY <1>1, EmptySeq
  <2>2. callees \in [Known -> Seq(Known)]
    BY <1>1, <2>1
  <2> QED
    BY <1>1, <1>2, <2>1, <2>2 DEF GraphIsSeen, CallsAsRead
<1> QED
  BY <1>1, <1>3, <1>4 DEF IInv

(* Every step keeps the invariant.                                         *)
LEMMA Steps ==
  ASSUME RecursionAssumption, IInv, [Next]_vars
  PROVE  IInv'
<1>1. ASSUME Walk, ~ ProgramExit PROVE IInv'
  <2>1. phase = "walk"
    BY <1>1 DEF Walk, FunctionDeclaration, MethodDefinition, FunctionVariable, Call, ThisCall,
           Callback, ClassDeclaration, InnerCall, Leave, CanEnter, CanCall
  <2>2. Walks /\ GraphIsSeen /\ search = << >> /\ inCycle = {} /\ reported = {}
    BY <2>1 DEF IInv
  <2>3. Walks' /\ GraphIsSeen' /\ UNCHANGED searching
    BY <1>1, <2>2, WalkSteps
  <2> QED
    BY <2>1, <2>2, <2>3 DEF IInv, searching
<1>2. ASSUME ProgramExit PROVE IInv'
  <2>1. phase = "walk" /\ phase' = "search" /\ UNCHANGED reported
    BY <1>2 DEF ProgramExit
  <2>2. GraphIsSeen /\ search = << >> /\ inCycle = {} /\ reported = {}
    BY <2>1 DEF IInv
  <2>3. GraphIsSeen' /\ Searches'
    BY <1>2, <2>2, ExitSteps
  <2> QED
    BY <2>1, <2>2, <2>3 DEF IInv
<1>3. ASSUME Root \/ VisitGray \/ VisitWhite \/ VisitOther \/ Finish PROVE IInv'
  <2>1. phase = "search" /\ phase' = "search" /\ UNCHANGED reported /\ Unsearched
    BY <1>3 DEF Root, VisitGray, VisitWhite, VisitOther, Finish, CanVisit, SearchDepthFirst
  <2>2. GraphIsSeen /\ Searches /\ reported = {}
    BY <2>1 DEF IInv
  <2>3. GraphIsSeen'
    BY <2>1, <2>2 DEF GraphIsSeen, Unsearched, graph, truth, CallsAsRead
  <2>4. Searches'
    BY <1>3, <2>2, RootSteps, GraySteps, WhiteSteps, OtherSteps, FinishSteps
  <2> QED
    BY <2>1, <2>2, <2>3, <2>4 DEF IInv
<1>4. ASSUME Report PROVE IInv'
  <2>1. /\ phase = "search" /\ phase' = "done" /\ search = << >> /\ White = {}
        /\ reported' = {s \in callSites : s[1] \in inCycle /\ s[2] \in inCycle}
        /\ UNCHANGED <<registered, callees, callSites, calls, unseen, misread, later, color, search, inCycle>>
    BY <1>4 DEF Report, Unsearched, graph, truth
  <2>2. GraphIsSeen /\ Searches
    BY <2>1 DEF IInv
  <2>3. GraphIsSeen'
    BY <2>1, <2>2 DEF GraphIsSeen, CallsAsRead
  <2>4. Searches'
    <3>1. CallsAsRead' = CallsAsRead
      BY <2>1 DEF CallsAsRead
    <3> QED
      BY <2>1, <2>2, <3>1 DEF Searches, PathIsGray, PathIsOfCalls, Follows, VisitedAreSettled,
             Settled, BlackAreDone, Unmarked, Both, MarkedAreRecursive
  <2>5. \A n \in ToSet(registered) : color[n] # "white"
    BY <2>1 DEF White, ToSet
  <2> QED
    BY <2>1, <2>3, <2>4, <2>5 DEF IInv, Both
<1>5. ASSUME UNCHANGED vars PROVE IInv'
  <2>1. UNCHANGED <<path, functionStack, registered, callees, callSites, calls, unseen, misread, later,
                    phase, color, search, inCycle, reported>>
    BY <1>5 DEF vars, file, truth, walked, graph, searching
  <2>2. GraphIsSeen => GraphIsSeen'
    BY <2>1 DEF GraphIsSeen, CallsAsRead
  <2>3. Walks => Walks'
    BY <2>1 DEF Walks
  <2>4. Searches => Searches'
    <3> HAVE Searches
    <3>1. MarkedAreRecursive'
      BY <2>1 DEF Searches, MarkedAreRecursive, CallsAsRead
    <3> QED
      BY <2>1, <3>1 DEF Searches, PathIsGray, PathIsOfCalls, Follows, VisitedAreSettled,
             Settled, BlackAreDone, Unmarked, Both
  <2> QED
    BY <2>1, <2>2, <2>3, <2>4 DEF IInv, Both
<1> QED
  BY <1>1, <1>2, <1>3, <1>4, <1>5 DEF Next, Search

(* At the end all functions are black.                                     *)
LEMMA InvariantSuffices ==
  ASSUME IInv
  PROVE  RecursionIsReported
<1>1. ASSUME phase = "done", NEW n \in Names
      PROVE  n \notin Reached((calls \ unseen) \ reported, n)
  <2>1. Searches /\ GraphIsSeen /\ search = << >> /\ reported = {s \in callSites : Both(s[1], s[2])}
        /\ \A m \in ToSet(registered) : color[m] # "white"
    BY <1>1 DEF IInv
  <2> DEFINE left == (calls \ unseen) \ reported
  <2>2. \A e \in left : e \in Unmarked /\ e[1] \in ToSet(registered)
    BY <2>1 DEF GraphIsSeen, Unmarked
  <2> HIDE DEF left
  <2>3. CASE n \in ToSet(registered)
    <3>1. color[n] # "gray"
      <4>1. \A i \in 1..Len(search) : FALSE
        BY <2>1
      <4> QED
        BY <2>1, <2>3, <4>1 DEF Searches, PathIsGray
    <3>2. color[n] = "black"
      BY <2>1, <2>3, <3>1 DEF Searches, PathIsGray
    <3>3. n \notin Reached(Unmarked, n)
      BY <2>1, <2>3, <3>2 DEF Searches, BlackAreDone
    <3>4. left \subseteq Unmarked
      BY <2>2
    <3>5. n \notin Reached(left, n)
      BY <3>3, <3>4, ReachedShrinks
    <3> QED
      BY <3>5 DEF left
  <2>4. CASE n \notin ToSet(registered)
    <3>1. {} \in SUBSET Names /\ n \notin {} /\ \A e \in left : e[1] = n \/ e[1] \in {} => e[2] \in {}
      BY <2>2, <2>4
    <3>2. n \notin Reached(left, n)
      BY <3>1 DEF Reached
    <3> QED
      BY <3>2 DEF left
  <2> QED
    BY <2>3, <2>4
<1>2. ASSUME NEW s \in reported, NEW n \in {s[1], s[2]} PROVE n \in Names /\ n \in Reached(CallsAsRead, n)
  <2>1. phase = "done"
    BY <1>2 DEF IInv
  <2>2. n \in inCycle /\ MarkedAreRecursive
    BY <2>1 DEF IInv, Both, Searches
  <2> QED
    BY <2>2 DEF MarkedAreRecursive, CallsAsRead
<1> QED
  BY <1>1, <1>2 DEF RecursionIsReported

(* Whoever removes the calls that no-recursive reports is left without     *)
(* recursion among the calls it sees, and the caller and the callee of     *)
(* each are recursive, if the calls it misreads are counted: for every file, in whatever order its functions are *)
(* declared, nested and searched.                                          *)
THEOREM RecursionFound ==
  ASSUME RecursionAssumption
  PROVE  Spec => []RecursionIsReported
<1>1. Init => IInv
  BY Begins
<1>2. IInv /\ [Next]_vars => IInv'
  BY Steps
<1>3. IInv => RecursionIsReported
  BY InvariantSuffices
<1> QED
  BY <1>1, <1>2, <1>3, PTL DEF Spec
=============================================================================
