------------------------- MODULE DirectivesProofs --------------------------
(***************************************************************************)
(* Proofs about Directives.tla, for files of any length with comments at   *)
(* any place, and directives that list any rules, repeated or not.         *)
(*                                                                         *)
(* The properties say what the whole file means; the code reads it comment *)
(* by comment. The link is what the file read so far says of each comment  *)
(* (EndsIn): the next comment adds itself to the ends of what it names     *)
(* and leaves every first end that there was.                              *)
(***************************************************************************)
EXTENDS Directives, FiniteSetTheorems, SequenceTheorems, WellFoundedInduction, TLAPS

(* Lines and columns are counted, a directive lists rules or says          *)
(* nothing of them, and an area without an end has no place for one.       *)
DirectivesAssumption ==
  /\ MaxLine \in Nat /\ MaxColumn \in Nat
  /\ IdLists \subseteq Seq(RuleIds \cup {All})
  /\ Open \notin Int

(* What the comments, the areas and the collections may be.                *)
Rules == RuleIds \cup {All}
Kinds == {"disable", "enable", "disable-line", "disable-next-line"}
Comments == [at : Int, directive : Kinds, ids : Seq(Rules)]
Areas == [comment : Nat, ruleId : Rules, kind : {"block", "line"}, start : Int, end : Int \cup {Open}]

(* The collections have one entry per comment, and the comments stand in   *)
(* the order of the file.                                                  *)
Typed ==
  /\ comments \in Seq(Comments) /\ areas \in Seq(Areas)
  /\ related \in Seq(Nat) /\ Len(related) = Len(comments)
  /\ unused \subseteq (1..Len(comments)) \X Rules
  /\ \A c, d \in 1..Len(comments) : c < d => comments[c].at < comments[d].at

(* What ends the disabling of a rule by comment c, according to the file   *)
(* cs alone: the enables after c, the place of the first, and whether      *)
(* that is e.                                                              *)
EndsIn(cs, c, rule) == {e \in 1..Len(cs) : cs[e].directive = "enable" /\ e > c /\ Concerns(cs[e].ids, rule)}
EndOf(cs, c, rule) == IF EndsIn(cs, c, rule) = {} THEN Open ELSE cs[First(EndsIn(cs, c, rule))].at
EndsHere(cs, c, rule, e) == EndsIn(cs, c, rule) # {} /\ First(EndsIn(cs, c, rule)) = e

(* An area is what its comment says: a line, or the rest of the file up    *)
(* to the first enable after the comment that ends it.                     *)
Areal(cs, area) ==
  /\ area.comment \in 1..Len(cs)
  /\ area.kind = "line" => area.end = area.start + MaxColumn + 1
  /\ area.kind = "block" =>
       /\ cs[area.comment].directive = "disable"
       /\ area.ruleId \in Ids(cs[area.comment].ids)
       /\ area.start = cs[area.comment].at
       /\ area.end = EndOf(cs, area.comment, area.ruleId)

(* The area that a block directive opens for a rule.                       *)
BlockOf(area, c, rule) == area.comment = c /\ area.ruleId = rule /\ area.kind = "block"

(* Every area is what its comment says, and every rule of every block      *)
(* directive has its area.                                                 *)
AreasOfComments ==
  /\ \A a \in 1..Len(areas) : Areal(comments, areas[a])
  /\ \A c \in 1..Len(comments) : \A r \in Ids(comments[c].ids) :
       comments[c].directive = "disable" =>
         \E a \in 1..Len(areas) :
           BlockOf(areas[a], c, r)

(* The file ds is cs and one more comment.                                 *)
Extends(cs, ds, comment) ==
  /\ Len(ds) = Len(cs) + 1 /\ ds[Len(cs) + 1] = comment
  /\ \A c \in 1..Len(cs) : ds[c] = cs[c]

(* The comment a step reads.                                               *)
Written(at, directive, list) == [at |-> at, directive |-> directive, ids |-> list]

(* What reading a comment does, whichever of the four it is: to the        *)
(* file, to the areas, and to what is collected for the reports.           *)
ReadsComment(at, directive, list) ==
  /\ comments' \in Seq(Comments) /\ Extends(comments, comments', Written(at, directive, list))
  /\ \A c \in 1..Len(comments) : comments[c].at < at

ReadsAreas(at, directive, list) ==
  /\ areas' \in Seq(Areas)
  /\ Len(areas') = Len(areas) + (IF directive = "enable" THEN 0 ELSE Len(list))
  /\ \A a \in 1..Len(areas) :
       areas'[a] = IF directive = "enable" /\ OpenMatching(areas[a], list, "block")
                   THEN [areas[a] EXCEPT !.end = at] ELSE areas[a]
  /\ directive = "disable" => \A i \in 1..Len(list) :
       areas'[Len(areas) + i] =
         [comment |-> Len(comments) + 1, ruleId |-> list[i], kind |-> "block", start |-> at, end |-> Open]
  /\ directive \notin {"disable", "enable"} => \E s \in Int : \A i \in 1..Len(list) :
       areas'[Len(areas) + i] =
         [comment |-> Len(comments) + 1, ruleId |-> list[i], kind |-> "line", start |-> s, end |-> s + MaxColumn + 1]

ReadsReports(at, directive, list) ==
  /\ duplicates \subseteq duplicates'
  /\ directive = "disable" => \A r \in Repeated(areas, at, list) : <<Len(comments) + 1, r>> \in duplicates'
  /\ related' \in Seq(Nat) /\ Len(related') = Len(comments) + 1
  /\ \A c \in 1..Len(comments) : related'[c] = related[c]
  /\ directive = "enable" => related'[Len(comments) + 1] = RelatedDirectives(areas, list, "block")
  /\ unused \subseteq unused' /\ unused' \subseteq unused \cup ({Len(comments) + 1} \X Rules)
  /\ directive = "enable" => \A r : <<Len(comments) + 1, r>> \in unused' <=> r \in Idle(areas, list, "block")

(* A step of the reading.                                                  *)
Reads(at, directive, list) ==
  ReadsComment(at, directive, list) /\ ReadsAreas(at, directive, list) /\ ReadsReports(at, directive, list)

-----------------------------------------------------------------------------
(* A set of numbers that is not empty has a first element.                 *)
LEMMA LeastExists ==
  ASSUME NEW T \in SUBSET Nat, T # {}
  PROVE  First(T) \in T /\ \A j \in T : First(T) <= j
<1> DEFINE less == OpToRel(<, Nat)
<1>1. IsWellFoundedOn(less, Nat)
  BY NatLessThanWellFounded
<1>2. \A x, y \in Nat : y < x => <<y, x>> \in less
  BY DEF OpToRel
<1> HIDE DEF less
<1>3. PICK m \in T : \A k \in T : ~ (<<k, m>> \in less)
  BY <1>1, WFMin
<1>4. \A k \in Nat : ~ (k < m) => m <= k
  OBVIOUS
<1>5. \A k \in T : ~ (k < m)
  BY <1>2, <1>3
<1>6. \A k \in T : m <= k
  BY <1>4, <1>5
<1> QED
  BY <1>3, <1>6 DEF First

(* Which of the ends of a disabling a new comment is.                      *)
EndsWith(cs, ds, comment, c, r, n) ==
  /\ \A e \in 1..Len(cs) : EndsHere(ds, c, r, e) <=> c # n /\ EndsHere(cs, c, r, e)
  /\ EndsHere(ds, c, r, n) <=> /\ c # n /\ EndsIn(cs, c, r) = {}
                               /\ comment.directive = "enable" /\ Concerns(comment.ids, r)

(* The enables that end a disabling are comments of the file, and there    *)
(* is a first one if there is any.                                         *)
LEMMA EndsType ==
  ASSUME NEW cs, Len(cs) \in Nat, NEW c, NEW r
  PROVE  /\ EndsIn(cs, c, r) \subseteq 1..Len(cs)
         /\ EndsIn(cs, c, r) # {} =>
              /\ First(EndsIn(cs, c, r)) \in EndsIn(cs, c, r)
              /\ \A j \in EndsIn(cs, c, r) : First(EndsIn(cs, c, r)) <= j
<1>1. EndsIn(cs, c, r) \in SUBSET Nat /\ EndsIn(cs, c, r) \subseteq 1..Len(cs)
  BY DEF EndsIn
<1> QED
  BY <1>1, LeastExists

(* A new comment ends nothing of its own, and is one more end of what it   *)
(* names.                                                                  *)
LEMMA EndsStep ==
  ASSUME NEW cs, NEW ds, NEW comment, Len(cs) \in Nat, Extends(cs, ds, comment), NEW r,
         NEW c \in 1..Len(ds), NEW n, n = Len(cs) + 1
  PROVE  /\ c = n => EndsIn(ds, c, r) = {}
         /\ c # n => EndsIn(ds, c, r) = EndsIn(cs, c, r)
                       \cup {i \in {n} : comment.directive = "enable" /\ Concerns(comment.ids, r)}
<1> DEFINE k == Len(cs)
<1>1. k \in Nat /\ n = k + 1 /\ Len(ds) = n
      /\ ds[n] = comment /\ \A i \in 1..k : ds[i] = cs[i]
  BY DEF Extends
<1>2. \A i \in 1..n : (i \in 1..k \/ i = n) /\ ~ (i > n)
  BY <1>1
<1>3. n \notin 1..k /\ n \in 1..n /\ \A i \in 1..k : i < n /\ i \in 1..n
  BY <1>1
<1>4. c \in 1..n
  BY <1>1
<1>5. \A e : e \in EndsIn(ds, c, r) <=> e \in 1..n /\ ds[e].directive = "enable" /\ e > c /\ Concerns(ds[e].ids, r)
  BY <1>1 DEF EndsIn
<1>6. \A e : e \in EndsIn(cs, c, r) <=> e \in 1..k /\ cs[e].directive = "enable" /\ e > c /\ Concerns(cs[e].ids, r)
  BY DEF EndsIn
<1>7. c # n => n > c
  BY <1>1, <1>4
<1> HIDE DEF k
<1>8. ASSUME c = n
      PROVE  EndsIn(ds, c, r) = {}
  BY <1>2, <1>5, <1>8
<1>9. ASSUME c # n
      PROVE  EndsIn(ds, c, r) = EndsIn(cs, c, r)
               \cup {i \in {n} : comment.directive = "enable" /\ Concerns(comment.ids, r)}
  BY <1>1, <1>2, <1>3, <1>5, <1>6, <1>7, <1>9
<1> QED
  BY <1>8, <1>9

(* A new comment is the first end of what nothing ended yet, and leaves    *)
(* the first ends that there were.                                         *)
LEMMA EndsAtStep ==
  ASSUME NEW cs, NEW ds, NEW comment, Len(cs) \in Nat, Extends(cs, ds, comment), NEW r,
         NEW c \in 1..Len(ds), NEW n, n = Len(cs) + 1
  PROVE  EndsWith(cs, ds, comment, c, r, n)
<1> DEFINE k == Len(cs)
           E == EndsIn(cs, c, r)
           F == EndsIn(ds, c, r)
           Here == comment.directive = "enable" /\ Concerns(comment.ids, r)
<1>1. k \in Nat /\ n = k + 1 /\ Len(ds) = n
  BY DEF Extends
<1>2. (c = n => F = {}) /\ (c # n => F = E \cup {i \in {n} : Here})
  BY EndsStep
<1>3. E \subseteq 1..k /\ (E # {} => First(E) \in E /\ \A j \in E : First(E) <= j)
  BY EndsType
<1>4. Len(ds) \in Nat
  BY <1>1
<1>5. F \subseteq 1..n /\ (F # {} => First(F) \in F /\ \A j \in F : First(F) <= j)
  BY <1>1, <1>4, EndsType
<1>6. \A e : EndsHere(ds, c, r, e) <=> F # {} /\ First(F) = e
  BY DEF EndsHere
<1>7. \A e : EndsHere(cs, c, r, e) <=> E # {} /\ First(E) = e
  BY DEF EndsHere
<1>8. n \notin 1..k /\ (\A i \in 1..k : i < n /\ i \in Nat /\ ~ (n <= i)) /\ n \in Nat
  BY <1>1
<1> HIDE DEF k, E, F, Here
<1>9. \A i, j \in Nat : i <= j /\ j <= i => i = j
  OBVIOUS
<1>10. ASSUME c # n, E # {}
       PROVE  F # {} /\ First(F) = First(E)
  <2>1. First(E) \in F /\ First(E) \in 1..k /\ F # {}
    BY <1>2, <1>3, <1>10
  <2>2. First(F) <= First(E) /\ First(F) \in F
    BY <1>5, <2>1
  <2>3. First(F) # n
    BY <1>8, <2>1, <2>2
  <2>4. First(F) \in E
    BY <1>2, <1>10, <2>2, <2>3
  <2>5. First(E) <= First(F) /\ First(E) \in Nat /\ First(F) \in Nat
    BY <1>3, <1>8, <1>10, <2>1, <2>4
  <2> QED
    BY <1>9, <2>1, <2>2, <2>5
<1>11. ASSUME c # n, E = {}
       PROVE  F = {i \in {n} : Here} /\ (F # {} => First(F) = n)
  <2>1. F = {i \in {n} : Here}
    BY <1>2, <1>11
  <2> QED
    BY <1>5, <2>1
<1>12. E # {} => First(E) \in 1..k
  BY <1>3
<1>13. \A e \in 1..k : EndsHere(ds, c, r, e) <=> c # n /\ EndsHere(cs, c, r, e)
  BY <1>2, <1>6, <1>7, <1>8, <1>10, <1>11
<1>14. EndsHere(ds, c, r, n) <=> c # n /\ E = {} /\ Here
  BY <1>2, <1>6, <1>8, <1>10, <1>11, <1>12
<1> QED
  BY <1>13, <1>14 DEF k, E, Here, EndsWith

(* So it gives a place to the disablings it ends first, and to no          *)
(* others.                                                                 *)
LEMMA EndStep ==
  ASSUME NEW cs, NEW ds, NEW comment, Len(cs) \in Nat, Extends(cs, ds, comment), NEW r,
         NEW c \in 1..Len(ds), NEW n, n = Len(cs) + 1
  PROVE  EndOf(ds, c, r) =
           IF c = n THEN Open
           ELSE IF EndsIn(cs, c, r) = {} /\ comment.directive = "enable" /\ Concerns(comment.ids, r)
                THEN comment.at ELSE EndOf(cs, c, r)
<1>a. EndsWith(cs, ds, comment, c, r, n)
  BY EndsAtStep
<1> DEFINE k == Len(cs)
           E == EndsIn(cs, c, r)
           F == EndsIn(ds, c, r)
           Here == comment.directive = "enable" /\ Concerns(comment.ids, r)
<1>1. k \in Nat /\ n = k + 1 /\ Len(ds) = n /\ ds[n] = comment /\ \A i \in 1..k : ds[i] = cs[i]
  BY DEF Extends
<1>2. (c = n => F = {}) /\ (c # n => F = E \cup {i \in {n} : Here})
  BY EndsStep
<1>3. E \subseteq 1..k /\ (E # {} => First(E) \in E)
  BY EndsType
<1>4. /\ \A e \in 1..k : EndsHere(ds, c, r, e) <=> c # n /\ EndsHere(cs, c, r, e)
      /\ EndsHere(ds, c, r, n) <=> c # n /\ E = {} /\ Here
  BY <1>a DEF EndsWith
<1>5. \A e : EndsHere(ds, c, r, e) <=> F # {} /\ First(F) = e
  BY DEF EndsHere
<1>6. \A e : EndsHere(cs, c, r, e) <=> E # {} /\ First(E) = e
  BY DEF EndsHere
<1>7. EndOf(ds, c, r) = IF F = {} THEN Open ELSE ds[First(F)].at
  BY DEF EndOf
<1>8. EndOf(cs, c, r) = IF E = {} THEN Open ELSE cs[First(E)].at
  BY DEF EndOf
<1> HIDE DEF k, E, F, Here
<1>9. EndOf(ds, c, r) = IF c = n THEN Open ELSE IF E = {} /\ Here THEN comment.at ELSE EndOf(cs, c, r)
  <2>1. CASE c = n
    BY <1>2, <1>7, <2>1
  <2>2. CASE c # n /\ E # {}
    <3>1. First(E) \in 1..k /\ EndsHere(ds, c, r, First(E))
      BY <1>3, <1>4, <1>6, <2>2
    <3> QED
      BY <1>1, <1>5, <1>7, <1>8, <2>2, <3>1
  <2>3. CASE c # n /\ E = {} /\ Here
    <3>1. F # {} /\ First(F) = n
      BY <1>4, <1>5, <2>3
    <3> QED
      BY <1>1, <1>7, <2>3, <3>1
  <2>4. CASE c # n /\ E = {} /\ ~ Here
    <3>1. F = {}
      BY <1>2, <2>4
    <3> QED
      BY <1>7, <1>8, <2>4, <3>1
  <2> QED
    BY <2>1, <2>2, <2>3, <2>4
<1> QED
  BY <1>9 DEF E, Here

-----------------------------------------------------------------------------
(* The comment that is read stands after all others.                       *)
LEMMA CommentRead ==
  ASSUME DirectivesAssumption, Typed, NEW at \in Int, NEW directive \in Kinds, NEW list \in Seq(Rules),
         Read(at, directive, list)
  PROVE  ReadsComment(at, directive, list)
<1> DEFINE k == Len(comments)
           w == Written(at, directive, list)
<1>1. w \in Comments /\ comments \in Seq(Comments) /\ k \in Nat
  BY DEF Typed, Comments, Written
<1>2. comments' = Append(comments, w)
  BY DEF Read, Written
<1>3. comments' \in Seq(Comments) /\ Len(comments') = k + 1 /\ comments'[k + 1] = w
  <2> HIDE DEF w
  <2> QED
    BY <1>1, <1>2
<1>4. \A c \in 1..k : comments'[c] = comments[c]
  <2> HIDE DEF w
  <2> QED
    BY <1>1, <1>2
<1>5. ASSUME NEW c \in 1..k
      PROVE  comments[c].at < at
  <2>1. comments # <<>> /\ k \in 1..k
    BY <1>1
  <2>2. comments[k].at < at
    BY <2>1 DEF Read
  <2>3. comments[c] \in Comments /\ comments[k] \in Comments
    BY <1>1, <2>1
  <2>4. comments[c].at \in Int /\ comments[k].at \in Int
    BY <2>3 DEF Comments
  <2>5. c < k => comments[c].at < comments[k].at
    BY <2>1 DEF Typed
  <2>6. c = k \/ c < k
    BY <1>1
  <2> HIDE DEF k
  <2> QED
    BY <2>2, <2>4, <2>5, <2>6
<1> HIDE DEF w
<1>6. Extends(comments, comments', w)
  BY <1>3, <1>4 DEF Extends
<1> QED
  BY <1>3, <1>5, <1>6 DEF ReadsComment, w

(* The directives that an enable ends can be counted.                      *)
LEMMA RelatedType ==
  ASSUME NEW before, Len(before) \in Nat, NEW list, NEW kind
  PROVE  RelatedDirectives(before, list, kind) \in Nat
<1> DEFINE S == {b \in 1..Len(before) : OpenMatching(before[b], list, kind)}
           T == {before[a].comment : a \in S}
<1>1. IsFiniteSet(1..Len(before))
  BY FS_Interval
<1>2. S \subseteq 1..Len(before)
  OBVIOUS
<1>3. IsFiniteSet(S)
  <2> HIDE DEF S
  <2> QED
    BY <1>1, <1>2, FS_Subset
<1>4. IsFiniteSet(T)
  <2> DEFINE f == [a \in S |-> before[a].comment]
  <2> HIDE DEF S
  <2>1. f \in [S -> T] /\ \A t \in T : \E a \in S : f[a] = t
    OBVIOUS
  <2> HIDE DEF f, T
  <2>2. f \in Surjection(S, T)
    BY <2>1 DEF Surjection
  <2> QED
    BY <1>3, <2>2, FS_Surjection
<1>5. RelatedDirectives(before, list, kind) = Cardinality(T)
  BY DEF RelatedDirectives
<1> HIDE DEF T
<1> QED
  BY <1>4, <1>5, FS_CardinalityType

(* The areas that a directive opens, one per rule of its list.             *)
LEMMA OpenedType ==
  ASSUME DirectivesAssumption, NEW c \in Nat, NEW at \in Int, NEW list \in Seq(Rules), NEW kind \in {"block", "line"}
  PROVE  /\ Opened(c, at, list, kind) \in Seq(Areas)
         /\ Len(Opened(c, at, list, kind)) = Len(list)
         /\ \A i \in 1..Len(list) : Opened(c, at, list, kind)[i] =
              [comment |-> c, ruleId |-> list[i], kind |-> kind, start |-> at, end |-> Open]
<1> DEFINE f == Opened(c, at, list, kind)
           new(i) == [comment |-> c, ruleId |-> list[i], kind |-> kind, start |-> at, end |-> Open]
<1>1. Len(list) \in Nat /\ \A i \in 1..Len(list) : list[i] \in Rules
  OBVIOUS
<1>2. \A i \in 1..Len(list) : new(i) \in Areas
  BY <1>1 DEF Areas
<1>3. f = [i \in 1..Len(list) |-> new(i)]
  BY DEF Opened
<1> HIDE DEF f, new
<1>4. f \in [1..Len(list) -> Areas]
  BY <1>2, <1>3
<1>5. f \in Seq(Areas) /\ Len(f) = Len(list)
  BY <1>1, <1>4
<1>6. \A i \in 1..Len(list) : f[i] = new(i)
  BY <1>3
<1> QED
  BY <1>5, <1>6 DEF f, new

(* Closing sets the end of the areas that match and changes no other.      *)
LEMMA ClosedType ==
  ASSUME DirectivesAssumption, NEW before \in Seq(Areas), NEW at \in Int, NEW list, NEW kind
  PROVE  /\ Closed(before, at, list, kind) \in Seq(Areas)
         /\ Len(Closed(before, at, list, kind)) = Len(before)
         /\ \A a \in 1..Len(before) : Closed(before, at, list, kind)[a] =
              IF OpenMatching(before[a], list, kind) THEN [before[a] EXCEPT !.end = at] ELSE before[a]
<1> DEFINE f == Closed(before, at, list, kind)
           new(a) == IF OpenMatching(before[a], list, kind) THEN [before[a] EXCEPT !.end = at] ELSE before[a]
<1>1. Len(before) \in Nat /\ \A a \in 1..Len(before) : before[a] \in Areas
  OBVIOUS
<1>2. \A a \in 1..Len(before) : new(a) \in Areas
  BY <1>1 DEF Areas
<1>3. f = [a \in 1..Len(before) |-> new(a)]
  BY DEF Closed
<1> HIDE DEF f, new
<1>4. f \in [1..Len(before) -> Areas]
  BY <1>2, <1>3
<1>5. f \in Seq(Areas) /\ Len(f) = Len(before)
  BY <1>1, <1>4
<1>6. \A a \in 1..Len(before) : f[a] = new(a)
  BY <1>3
<1> QED
  BY <1>5, <1>6 DEF f, new

(* Only rules are unused.                                                  *)
LEMMA IdleType ==
  ASSUME NEW before, NEW list \in Seq(Rules), NEW kind
  PROVE  Idle(before, list, kind) \subseteq Rules
<1>1. \A i \in 1..Len(list) : list[i] \in Rules
  OBVIOUS
<1> QED
  BY <1>1 DEF Idle

(* disable opens a block area per rule of its list and closes none.        *)
LEMMA DisableReads ==
  ASSUME DirectivesAssumption, Typed, NEW at \in Int, NEW list \in Seq(Rules), Disable(at, list)
  PROVE  Reads(at, "disable", list)
<1> DEFINE n == Len(comments) + 1
           new == Opened(n, at, list, "block")
<1>1. ReadsComment(at, "disable", list)
  BY CommentRead DEF Disable, Kinds
<1>2. n \in Nat /\ areas \in Seq(Areas) /\ Len(list) \in Nat /\ Len(areas) \in Nat
  BY DEF Typed
<1>3. areas' = areas \o new
  BY DEF Disable, This
<1>4. /\ new \in Seq(Areas) /\ Len(new) = Len(list)
      /\ \A i \in 1..Len(list) : new[i] =
           [comment |-> n, ruleId |-> list[i], kind |-> "block", start |-> at, end |-> Open]
  <2> HIDE DEF n
  <2> QED
    BY <1>2, OpenedType
<1>5. /\ areas' \in Seq(Areas) /\ Len(areas') = Len(areas) + Len(list)
      /\ \A a \in 1..Len(areas) : areas'[a] = areas[a]
      /\ \A i \in 1..Len(list) : areas'[Len(areas) + i] = new[i]
  <2> HIDE DEF new
  <2> QED
    BY <1>2, <1>3, <1>4
<1>6. ReadsAreas(at, "disable", list)
  <2> HIDE DEF new
  <2> QED
    BY <1>4, <1>5 DEF ReadsAreas
<1>7. related' \in Seq(Nat) /\ Len(related') = n /\ \A c \in 1..Len(comments) : related'[c] = related[c]
  <2>1. related' = Append(related, 0) /\ related \in Seq(Nat) /\ Len(related) = Len(comments)
    BY DEF Disable, Typed
  <2> QED
    BY <2>1
<1>8. duplicates' = duplicates \cup {<<n, r>> : r \in Repeated(areas, at, list)} /\ unused' = unused
  BY DEF Disable, This
<1>9. ReadsReports(at, "disable", list)
  BY <1>7, <1>8 DEF ReadsReports
<1> QED
  BY <1>1, <1>6, <1>9 DEF Reads

(* enable closes the open block areas that its list matches.               *)
LEMMA EnableReads ==
  ASSUME DirectivesAssumption, Typed, NEW at \in Int, NEW list \in Seq(Rules), Enable(at, list)
  PROVE  Reads(at, "enable", list)
<1> DEFINE n == Len(comments) + 1
<1>1. ReadsComment(at, "enable", list)
  BY CommentRead DEF Enable, Kinds
<1>2. n \in Nat /\ areas \in Seq(Areas) /\ Len(areas) \in Nat
  BY DEF Typed
<1>3. areas' = Closed(areas, at, list, "block")
  BY DEF Enable
<1>4. /\ areas' \in Seq(Areas) /\ Len(areas') = Len(areas)
      /\ \A a \in 1..Len(areas) : areas'[a] =
           IF OpenMatching(areas[a], list, "block") THEN [areas[a] EXCEPT !.end = at] ELSE areas[a]
  BY <1>2, <1>3, ClosedType
<1>5. ReadsAreas(at, "enable", list)
  BY <1>2, <1>4 DEF ReadsAreas
<1>6. RelatedDirectives(areas, list, "block") \in Nat
  BY <1>2, RelatedType
<1>7. /\ related' \in Seq(Nat) /\ Len(related') = n /\ \A c \in 1..Len(comments) : related'[c] = related[c]
      /\ related'[n] = RelatedDirectives(areas, list, "block")
  <2>1. /\ related' = Append(related, RelatedDirectives(areas, list, "block"))
        /\ related \in Seq(Nat) /\ Len(related) = Len(comments)
    BY DEF Enable, Typed
  <2> QED
    BY <1>6, <2>1
<1>8. /\ duplicates' = duplicates
      /\ unused' = unused \cup {<<n, r>> : r \in Idle(areas, list, "block")}
  BY DEF Enable, This
<1>9. Idle(areas, list, "block") \subseteq Rules
  BY IdleType
<1>10. \A r : <<n, r>> \notin unused
  <2>1. n \notin 1..Len(comments)
    BY <1>2
  <2> QED
    BY <2>1 DEF Typed
<1>11. ReadsReports(at, "enable", list)
  BY <1>7, <1>8, <1>9, <1>10 DEF ReadsReports
<1> QED
  BY <1>1, <1>5, <1>11 DEF Reads

(* A line begins MaxColumn + 1 places before what is just before the       *)
(* next.                                                                   *)
LEMMA LinePlaces ==
  ASSUME DirectivesAssumption, NEW line \in Int
  PROVE  /\ Position(line, 0) \in Int
         /\ Position(line + 1, -1) = Position(line, 0) + MaxColumn + 1
<1>1. MaxColumn \in Nat
  BY DEF DirectivesAssumption
<1>2. \A l, w \in Int : l * w \in Int /\ (l + 1) * w = l * w + w
  OBVIOUS
<1>3. line * (MaxColumn + 2) \in Int /\ (line + 1) * (MaxColumn + 2) = line * (MaxColumn + 2) + (MaxColumn + 2)
  BY <1>1, <1>2
<1> DEFINE p == line * (MaxColumn + 2)
           q == (line + 1) * (MaxColumn + 2)
<1>4. Position(line, 0) = p + 0 + 1 /\ Position(line + 1, -1) = q + (-1) + 1
  BY DEF Position
<1>5. p \in Int /\ q = p + (MaxColumn + 2)
  BY <1>3
<1> HIDE DEF p, q
<1> QED
  BY <1>1, <1>4, <1>5

(* disable-line and disable-next-line add areas that are closed at once;   *)
(* the line areas that there were are closed already.                      *)
LEMMA LineReads ==
  ASSUME DirectivesAssumption, Typed, AreasOfComments, NEW at \in Int, NEW list \in Seq(Rules),
         NEW directive \in {"disable-line", "disable-next-line"}, NEW line \in Int,
         DisableLine(at, directive, list, line)
  PROVE  Reads(at, directive, list)
<1> DEFINE n == Len(comments) + 1
           s == Position(line, 0)
           z == Position(line + 1, -1)
           new == Opened(n, s, list, "line")
           opened == areas \o new
<1>1. ReadsComment(at, directive, list)
  BY CommentRead DEF DisableLine, Kinds
<1>2. n \in Nat /\ areas \in Seq(Areas) /\ Len(list) \in Nat /\ Len(areas) \in Nat
  BY DEF Typed
<1>3. s \in Int /\ z = s + MaxColumn + 1 /\ z \in Int
  <2>1. MaxColumn \in Nat
    BY DEF DirectivesAssumption
  <2>2. s \in Int /\ z = s + MaxColumn + 1
    BY LinePlaces
  <2> HIDE DEF s, z
  <2> QED
    BY <2>1, <2>2
<1>4. areas' = Closed(opened, z, list, "line")
  BY DEF DisableLine, This
<1>5. /\ new \in Seq(Areas) /\ Len(new) = Len(list)
      /\ \A i \in 1..Len(list) : new[i] =
           [comment |-> n, ruleId |-> list[i], kind |-> "line", start |-> s, end |-> Open]
  <2> HIDE DEF n, s
  <2> QED
    BY <1>2, <1>3, OpenedType
<1>6. /\ opened \in Seq(Areas) /\ Len(opened) = Len(areas) + Len(list)
      /\ \A a \in 1..Len(areas) : opened[a] = areas[a]
      /\ \A i \in 1..Len(list) : opened[Len(areas) + i] = new[i]
  <2> HIDE DEF new
  <2> QED
    BY <1>2, <1>5
<1>7. /\ areas' \in Seq(Areas) /\ Len(areas') = Len(opened)
      /\ \A a \in 1..Len(opened) : areas'[a] =
           IF OpenMatching(opened[a], list, "line") THEN [opened[a] EXCEPT !.end = z] ELSE opened[a]
  <2> HIDE DEF opened, z
  <2>1. opened \in Seq(Areas) /\ z \in Int
    BY <1>3, <1>6
  <2>2. /\ Closed(opened, z, list, "line") \in Seq(Areas)
        /\ Len(Closed(opened, z, list, "line")) = Len(opened)
        /\ \A a \in 1..Len(opened) : Closed(opened, z, list, "line")[a] =
             IF OpenMatching(opened[a], list, "line") THEN [opened[a] EXCEPT !.end = z] ELSE opened[a]
    BY <2>1, ClosedType
  <2> QED
    BY <1>4, <2>2
<1> HIDE DEF opened, new, z, s
<1>8. ASSUME NEW a \in 1..Len(areas)
      PROVE  areas'[a] = areas[a]
  <2>1. a \in 1..Len(opened)
    BY <1>2, <1>6
  <2>2. areas[a] \in Areas /\ Areal(comments, areas[a])
    BY <1>2 DEF AreasOfComments
  <2>3. MaxColumn \in Nat /\ Open \notin Int
    BY DEF DirectivesAssumption
  <2>4. areas[a].kind = "line" => areas[a].end # Open
    BY <2>2, <2>3 DEF Areal, Areas
  <2>5. ~ OpenMatching(areas[a], list, "line")
    BY <2>4 DEF OpenMatching
  <2> QED
    BY <1>6, <1>7, <2>1, <2>5
<1>9. ASSUME NEW i \in 1..Len(list)
      PROVE  areas'[Len(areas) + i] =
               [comment |-> n, ruleId |-> list[i], kind |-> "line", start |-> s, end |-> z]
  <2>1. Len(areas) + i \in 1..Len(opened)
    BY <1>2, <1>6
  <2>2. new[i] = [comment |-> n, ruleId |-> list[i], kind |-> "line", start |-> s, end |-> Open]
    BY <1>5
  <2>3. OpenMatching(new[i], list, "line")
    BY <1>2, <2>2 DEF OpenMatching, Concerns, Ids
  <2>4. opened[Len(areas) + i] = new[i]
    BY <1>6
  <2>5. areas'[Len(areas) + i] = [new[i] EXCEPT !.end = z]
    BY <1>7, <2>1, <2>3, <2>4
  <2> QED
    BY <2>2, <2>5
<1>10. ReadsAreas(at, directive, list)
  BY <1>2, <1>3, <1>6, <1>7, <1>8, <1>9 DEF ReadsAreas
<1>11. Len(opened) \in Nat
  BY <1>2, <1>6
<1>12. RelatedDirectives(opened, list, "line") \in Nat
  BY <1>11, RelatedType
<1>13. related' \in Seq(Nat) /\ Len(related') = n /\ \A c \in 1..Len(comments) : related'[c] = related[c]
  <2>1. /\ related' = Append(related, RelatedDirectives(opened, list, "line"))
        /\ related \in Seq(Nat) /\ Len(related) = Len(comments)
    BY DEF DisableLine, Typed, opened, new, s, This
  <2> QED
    BY <1>12, <2>1
<1>14. /\ duplicates \subseteq duplicates'
       /\ unused' = unused \cup {<<n, r>> : r \in Idle(opened, list, "line")}
  BY DEF DisableLine, opened, new, s, This
<1>15. Idle(opened, list, "line") \subseteq Rules
  BY IdleType
<1>16. ReadsReports(at, directive, list)
  BY <1>13, <1>14, <1>15 DEF ReadsReports
<1> QED
  BY <1>1, <1>10, <1>16 DEF Reads

(* Every step reads a comment.                                             *)
LEMMA NextReads ==
  ASSUME DirectivesAssumption, Typed, AreasOfComments, Next
  PROVE  \E at \in Int, directive \in Kinds, list \in Seq(Rules) : Reads(at, directive, list)
<1>1. PICK at \in Places, list \in IdLists :
        \/ Disable(at, list)
        \/ Enable(at, list)
        \/ DisableLine(at, "disable-line", list, LineOf(at))
        \/ DisableLine(at, "disable-next-line", list, LineOf(at) + 1)
  BY DEF Next
<1>2. MaxColumn \in Nat /\ MaxLine \in Nat
  BY DEF DirectivesAssumption
<1>3. at \in Int
  <2>1. \A l, w, c \in Int : l * w + c + 1 \in Int
    OBVIOUS
  <2> QED
    BY <1>2, <2>1 DEF Places, Position
<1>4. LineOf(at) \in Int
  <2>1. \A p \in Int : \A w \in Nat : p \div (w + 2) \in Int
    OBVIOUS
  <2> QED
    BY <1>2, <1>3, <2>1 DEF LineOf
<1>5. list \in Seq(Rules)
  BY DEF DirectivesAssumption, Rules
<1>6. LineOf(at) + 1 \in Int
  BY <1>4
<1>7. Reads(at, "disable", list) \/ Reads(at, "enable", list)
      \/ Reads(at, "disable-line", list) \/ Reads(at, "disable-next-line", list)
  <2>1. CASE Disable(at, list)
    BY <1>3, <1>5, <2>1, DisableReads
  <2>2. CASE Enable(at, list)
    BY <1>3, <1>5, <2>2, EnableReads
  <2>3. CASE DisableLine(at, "disable-line", list, LineOf(at))
    BY <1>3, <1>4, <1>5, <2>3, LineReads
  <2>4. CASE DisableLine(at, "disable-next-line", list, LineOf(at) + 1)
    <3> DEFINE line == LineOf(at) + 1
    <3>1. line \in Int /\ DisableLine(at, "disable-next-line", list, line)
      BY <1>6, <2>4
    <3> HIDE DEF line
    <3> QED
      BY <1>3, <1>5, <3>1, LineReads
  <2> QED
    BY <1>1, <2>1, <2>2, <2>3, <2>4
<1> QED
  BY <1>3, <1>5, <1>7 DEF Kinds

(* A disabling has no place for its end exactly when nothing ends it;      *)
(* otherwise the place is that of an enable.                               *)
LEMMA EndOpen ==
  ASSUME DirectivesAssumption, NEW cs \in Seq(Comments), NEW c, NEW r
  PROVE  /\ EndOf(cs, c, r) = Open <=> EndsIn(cs, c, r) = {}
         /\ EndOf(cs, c, r) # Open => \E e \in EndsIn(cs, c, r) : EndOf(cs, c, r) = cs[e].at
<1> DEFINE E == EndsIn(cs, c, r)
           f == First(E)
<1>1. Len(cs) \in Nat
  OBVIOUS
<1>2. E \subseteq 1..Len(cs) /\ (E # {} => f \in E)
  BY <1>1, EndsType
<1>3. EndOf(cs, c, r) = IF E = {} THEN Open ELSE cs[f].at
  BY DEF EndOf
<1> HIDE DEF f, E
<1>4. E # {} => cs[f].at \in Int
  <2>1. \A i \in 1..Len(cs) : cs[i] \in Comments
    OBVIOUS
  <2>2. \A i \in 1..Len(cs) : cs[i].at \in Int
    BY <2>1 DEF Comments
  <2> QED
    BY <1>2, <2>2
<1>5. Open \notin Int
  BY DEF DirectivesAssumption
<1> QED
  BY <1>2, <1>3, <1>4, <1>5 DEF E

-----------------------------------------------------------------------------
(* Reading a comment keeps the collections in step.                        *)
LEMMA TypedStep ==
  ASSUME DirectivesAssumption, Typed, NEW at \in Int, NEW directive \in Kinds, NEW list \in Seq(Rules),
         Reads(at, directive, list)
  PROVE  Typed'
<1> DEFINE k == Len(comments)
           n == k + 1
           w == Written(at, directive, list)
<1>1. comments' \in Seq(Comments) /\ Len(comments') = n /\ comments'[n] = w
      /\ \A c \in 1..k : comments'[c] = comments[c] /\ comments[c].at < at
  BY DEF Reads, ReadsComment, Extends
<1>2. areas' \in Seq(Areas)
  BY DEF Reads, ReadsAreas
<1>3. related' \in Seq(Nat) /\ Len(related') = n /\ unused' \subseteq unused \cup ({n} \X Rules)
  BY DEF Reads, ReadsReports
<1>4. k \in Nat /\ unused \subseteq (1..k) \X Rules
  BY DEF Typed
<1>5. unused' \subseteq (1..n) \X Rules
  BY <1>3, <1>4
<1>6. w.at = at
  BY DEF Written
<1>7. \A c \in 1..n : c \in 1..k \/ c = n
  BY <1>4
<1>8. \A c, d \in 1..k : c < d => comments[c].at < comments[d].at
  BY DEF Typed
<1>9. \A c, d \in 1..n : c < d => c \in 1..k
  BY <1>4
<1> HIDE DEF k, n, w
<1>10. \A c, d \in 1..n : c < d => comments'[c].at < comments'[d].at
  BY <1>1, <1>6, <1>7, <1>8, <1>9
<1> QED
  BY <1>1, <1>2, <1>3, <1>5, <1>10 DEF Typed

(* An area that was what its comment says is so after the next comment:    *)
(* closed by it if and only if the comment is the first to end it.         *)
LEMMA AreaStep ==
  ASSUME DirectivesAssumption, Typed, NEW at \in Int, NEW directive \in Kinds, NEW list \in Seq(Rules),
         Reads(at, directive, list), NEW area \in Areas, Areal(comments, area)
  PROVE  Areal(comments', IF directive = "enable" /\ OpenMatching(area, list, "block")
                          THEN [area EXCEPT !.end = at] ELSE area)
<1> DEFINE ds == comments'
           k == Len(comments)
           n == k + 1
           w == Written(at, directive, list)
           next == IF directive = "enable" /\ OpenMatching(area, list, "block")
                   THEN [area EXCEPT !.end = at] ELSE area
           c == area.comment
           r == area.ruleId
<1>1. Extends(comments, ds, w) /\ Len(ds) = n /\ k \in Nat /\ \A i \in 1..k : ds[i] = comments[i]
  BY DEF Reads, ReadsComment, Extends, Typed
<1>2. c \in 1..k /\ c \in 1..n /\ c # n
  BY <1>1 DEF Areal
<1>3. next.comment = c /\ next.ruleId = r /\ next.kind = area.kind /\ next.start = area.start
      /\ next.end = IF directive = "enable" /\ OpenMatching(area, list, "block") THEN at ELSE area.end
  BY DEF Areas
<1>4. EndOf(ds, c, r) =
        IF EndsIn(comments, c, r) = {} /\ w.directive = "enable" /\ Concerns(w.ids, r) THEN w.at
        ELSE EndOf(comments, c, r)
  <2> HIDE DEF ds, w, c, r
  <2>1. c \in 1..Len(ds)
    BY <1>1, <1>2
  <2>2. EndOf(ds, c, r) =
          IF c = n THEN Open
          ELSE IF EndsIn(comments, c, r) = {} /\ w.directive = "enable" /\ Concerns(w.ids, r)
          THEN w.at ELSE EndOf(comments, c, r)
    BY <1>1, <2>1, EndStep
  <2> QED
    BY <1>2, <2>2
<1>5. w.at = at /\ w.directive = directive /\ w.ids = list
  BY DEF Written
<1>6. EndOf(comments, c, r) = Open <=> EndsIn(comments, c, r) = {}
  BY EndOpen DEF Typed
<1> HIDE DEF ds, w, next, n, k
<1>7. ASSUME area.kind = "line"
      PROVE  next.end = next.start + MaxColumn + 1
  BY <1>3, <1>7 DEF Areal, OpenMatching
<1>8. ASSUME area.kind = "block"
      PROVE  /\ ds[c].directive = "disable" /\ r \in Ids(ds[c].ids) /\ area.start = ds[c].at
             /\ next.end = EndOf(ds, c, r)
  <2>1. /\ comments[c].directive = "disable" /\ r \in Ids(comments[c].ids) /\ area.start = comments[c].at
        /\ area.end = EndOf(comments, c, r)
    BY <1>8 DEF Areal
  <2>2. ds[c] = comments[c]
    BY <1>1, <1>2
  <2>3. OpenMatching(area, list, "block") <=> EndsIn(comments, c, r) = {} /\ Concerns(list, r)
    BY <1>6, <1>8, <2>1 DEF OpenMatching
  <2> HIDE DEF c, r
  <2> QED
    BY <1>3, <1>4, <1>5, <2>1, <2>2, <2>3
<1> HIDE DEF c, r
<1>9. c \in 1..Len(ds)
  BY <1>1, <1>2
<1>10. Areal(ds, next)
  BY <1>3, <1>7, <1>8, <1>9 DEF Areal
<1> QED
  BY <1>10 DEF ds, next

(* Reading a comment keeps all the areas what their comments say.          *)
LEMMA AreasStep ==
  ASSUME DirectivesAssumption, Typed, AreasOfComments, NEW at \in Int, NEW directive \in Kinds,
         NEW list \in Seq(Rules), Reads(at, directive, list)
  PROVE  AreasOfComments'
<1> DEFINE k == Len(comments)
           n == k + 1
           l == Len(areas)
           m == Len(list)
           w == Written(at, directive, list)
           grown == Len(areas')
<1>1. Extends(comments, comments', w) /\ Len(comments') = n /\ comments'[n] = w
      /\ \A i \in 1..k : comments'[i] = comments[i]
  BY DEF Reads, ReadsComment, Extends
<1>2. k \in Nat /\ l \in Nat /\ m \in Nat
  BY DEF Typed
<1>3. w.at = at /\ w.directive = directive /\ w.ids = list
  BY DEF Written
<1>4. /\ grown = l + (IF directive = "enable" THEN 0 ELSE m)
      /\ \A a \in 1..l : areas'[a] = IF directive = "enable" /\ OpenMatching(areas[a], list, "block")
                                     THEN [areas[a] EXCEPT !.end = at] ELSE areas[a]
      /\ directive = "disable" => \A i \in 1..m : areas'[l + i] =
           [comment |-> n, ruleId |-> list[i], kind |-> "block", start |-> at, end |-> Open]
      /\ directive \notin {"disable", "enable"} => \E s \in Int : \A i \in 1..m : areas'[l + i] =
           [comment |-> n, ruleId |-> list[i], kind |-> "line", start |-> s, end |-> s + MaxColumn + 1]
  BY DEF Reads, ReadsAreas
<1>5. \A a \in 1..l : areas[a] \in Areas /\ Areal(comments, areas[a])
  BY DEF Typed, AreasOfComments
<1>6. ASSUME NEW a \in 1..l
      PROVE  Areal(comments', areas'[a])
  <2>1. areas[a] \in Areas /\ Areal(comments, areas[a])
    BY <1>5
  <2>2. Areal(comments', IF directive = "enable" /\ OpenMatching(areas[a], list, "block")
                         THEN [areas[a] EXCEPT !.end = at] ELSE areas[a])
    BY <2>1, AreaStep
  <2> QED
    BY <1>4, <2>2
<1>7. ASSUME NEW a \in 1..grown, a \notin 1..l
      PROVE  directive # "enable" /\ \E i \in 1..m : a = l + i
  <2> HIDE DEF l, m, grown
  <2>1. \A x, y, z \in Nat : \A b \in 1..z : b \notin 1..x /\ z = x + y => b - x \in 1..y /\ b = x + (b - x)
    OBVIOUS
  <2>2. directive # "enable" /\ grown = l + m /\ grown \in Nat
    BY <1>2, <1>4, <1>7
  <2> QED
    BY <1>2, <1>7, <2>1, <2>2
<1> HIDE DEF grown
<1>8. n \in 1..n
  BY <1>2
<1>9. ASSUME NEW i \in 1..m, directive # "enable"
      PROVE  Areal(comments', areas'[l + i])
  <2>1. CASE directive = "disable"
    <3> DEFINE area == [comment |-> n, ruleId |-> list[i], kind |-> "block", start |-> at, end |-> Open]
    <3>1. areas'[l + i] = area
      BY <1>4, <2>1
    <3>2. list[i] \in Ids(list)
      BY DEF Ids
    <3>3. n \in 1..Len(comments') /\ n = Len(comments) + 1 /\ Len(comments) \in Nat
      BY <1>1, <1>2, <1>8
    <3> HIDE DEF n, w, k
    <3>4. EndOf(comments', n, list[i]) = Open
      BY <1>1, <3>3, EndStep
    <3>5. area.comment = n /\ area.ruleId = list[i] /\ area.kind = "block" /\ area.start = at /\ area.end = Open
      OBVIOUS
    <3> HIDE DEF area
    <3>6. Areal(comments', area)
      BY <1>1, <1>3, <2>1, <3>2, <3>3, <3>4, <3>5 DEF Areal
    <3> QED
      BY <3>1, <3>6
  <2>2. CASE directive # "disable"
    <3>1. PICK s \in Int : \A j \in 1..m : areas'[l + j] =
           [comment |-> n, ruleId |-> list[j], kind |-> "line", start |-> s, end |-> s + MaxColumn + 1]
      BY <1>4, <1>9, <2>2
    <3>2. areas'[l + i] =
           [comment |-> n, ruleId |-> list[i], kind |-> "line", start |-> s, end |-> s + MaxColumn + 1]
      BY <3>1
    <3>3. n \in 1..Len(comments')
      BY <1>1, <1>8
    <3> HIDE DEF n, k
    <3> QED
      BY <3>2, <3>3 DEF Areal
  <2> QED
    BY <2>1, <2>2
<1>10. \A a \in 1..Len(areas') : Areal(comments', areas'[a])
  <2> HIDE DEF l, m
  <2>1. ASSUME NEW a \in 1..grown
        PROVE  Areal(comments', areas'[a])
    <3>1. CASE a \in 1..l
      BY <1>6, <3>1
    <3>2. CASE a \notin 1..l
      BY <1>7, <1>9, <3>2
    <3> QED
      BY <3>1, <3>2
  <2> QED
    BY <2>1 DEF grown
<1>11. \A a \in 1..l : a \in 1..Len(areas')
  BY <1>2, <1>4 DEF grown
<1>12. ASSUME NEW c \in 1..n, NEW r \in Ids(comments'[c].ids), comments'[c].directive = "disable"
       PROVE  \E a \in 1..Len(areas') :
                BlockOf(areas'[a], c, r)
  <2>1. CASE c \in 1..k
    <3>1. comments'[c] = comments[c]
      BY <1>1, <2>1
    <3>2. PICK a \in 1..l : BlockOf(areas[a], c, r)
      <4>1. comments[c].directive = "disable" /\ r \in Ids(comments[c].ids)
        BY <1>12, <3>1
      <4>2. \A d \in 1..k : \A q \in Ids(comments[d].ids) :
              comments[d].directive = "disable" =>
                \E a \in 1..l :
                  BlockOf(areas[a], d, q)
        BY DEF AreasOfComments
      <4> HIDE DEF k, l, m, n, w
      <4>3. \A q \in Ids(comments[c].ids) : \E a \in 1..l :
              BlockOf(areas[a], c, q)
        BY <2>1, <4>1, <4>2
      <4> QED
        BY <4>1, <4>3
    <3>3. BlockOf(areas'[a], c, r)
      BY <1>4, <1>5, <3>2 DEF Areas, BlockOf
    <3> QED
      BY <1>11, <3>3
  <2>2. CASE c \notin 1..k
    <3>1. c = n
      BY <1>2, <2>2
    <3>2. directive = "disable" /\ comments'[c].ids = list
      BY <1>1, <1>3, <1>12, <3>1
    <3>3. PICK i \in 1..m : list[i] = r
      BY <3>2 DEF Ids
    <3>4. areas'[l + i] = [comment |-> n, ruleId |-> list[i], kind |-> "block", start |-> at, end |-> Open]
      BY <1>4, <3>2
    <3>5. l + i \in 1..Len(areas')
      BY <1>2, <1>4, <3>2 DEF grown
    <3> HIDE DEF n, l, m
    <3>6. BlockOf(areas'[l + i], c, r)
      BY <3>1, <3>3, <3>4 DEF BlockOf
    <3> QED
      BY <3>5, <3>6
  <2> QED
    BY <2>1, <2>2
<1>13. \A c \in 1..Len(comments') : \A r \in Ids(comments'[c].ids) :
         comments'[c].directive = "disable" =>
           \E a \in 1..Len(areas') :
             BlockOf(areas'[a], c, r)
  <2> HIDE DEF n
  <2> QED
    BY <1>1, <1>12
<1> QED
  BY <1>10, <1>13 DEF AreasOfComments

-----------------------------------------------------------------------------
(* A block area lies behind the comment that is read, and it is open       *)
(* exactly if nothing ends it so far.                                      *)
LEMMA AreaEnds ==
  ASSUME DirectivesAssumption, Typed, AreasOfComments, NEW at \in Int,
         \A c \in 1..Len(comments) : comments[c].at < at,
         NEW a \in 1..Len(areas), areas[a].kind = "block"
  PROVE  /\ areas[a].comment \in 1..Len(comments)
         /\ areas[a].start \in Int /\ areas[a].start < at
         /\ areas[a].end # Open => areas[a].end \in Int /\ areas[a].end < at
         /\ areas[a].end = Open <=> EndsIn(comments, areas[a].comment, areas[a].ruleId) = {}
<1> DEFINE area == areas[a]
           E == EndsIn(comments, area.comment, area.ruleId)
<1>1. area \in Areas /\ Areal(comments, area)
  BY DEF Typed, AreasOfComments
<1>2. Len(comments) \in Nat /\ comments \in Seq(Comments)
  BY DEF Typed
<1>3. area.comment \in 1..Len(comments) /\ area.start = comments[area.comment].at
      /\ area.end = EndOf(comments, area.comment, area.ruleId)
  BY <1>1 DEF Areal
<1>4. E \subseteq 1..Len(comments)
  BY <1>2, EndsType
<1>5. area.end = Open <=> E = {}
  BY <1>2, <1>3, EndOpen
<1>6. area.end # Open => \E e \in E : area.end = comments[e].at
  BY <1>2, <1>3, EndOpen
<1>7. area.start \in Int /\ area.end \in Int \cup {Open}
  BY <1>1 DEF Areas
<1> HIDE DEF area, E
<1>8. area.start < at
  BY <1>3
<1>9. area.end # Open => area.end \in Int /\ area.end < at
  BY <1>4, <1>6, <1>7
<1> QED
  BY <1>3, <1>5, <1>7, <1>8, <1>9 DEF area, E

(* A list that ends a directive for all rules ends one for any rule.       *)
LEMMA NamesAll ==
  ASSUME NEW list, NEW rule, Concerns(list, All)
  PROVE  Concerns(list, rule)
BY DEF Concerns

(* Two areas that were there before the comment: if the older one          *)
(* reaches the newer, it does so before the comment is read as well, and   *)
(* an enable that closes the older one closes the newer one, if nothing    *)
(* has.                                                                    *)
LEMMA OldDuplicates ==
  ASSUME DirectivesAssumption, Typed, AreasOfComments, BlockDuplicatesRedundant, NEW at \in Int,
         NEW directive \in Kinds, NEW list \in Seq(Rules), Reads(at, directive, list),
         NEW a \in 1..Len(areas), NEW b \in 1..Len(areas), a < b,
         areas'[a].kind = "block", areas'[b].kind = "block", areas'[a].ruleId \in {All, areas'[b].ruleId},
         areas'[a].end = Open \/ areas'[a].end > areas'[b].start
  PROVE  <<areas'[b].comment, areas'[b].ruleId>> \in duplicates' /\ Within(areas'[b], areas'[a])
<1> DEFINE o == areas[a]
           i == areas[b]
           p == areas'[a]
           j == areas'[b]
           Shut(area) == directive = "enable" /\ OpenMatching(area, list, "block")
<1>1. o \in Areas /\ i \in Areas
  BY DEF Typed
<1>2. p = (IF Shut(o) THEN [o EXCEPT !.end = at] ELSE o) /\ j = (IF Shut(i) THEN [i EXCEPT !.end = at] ELSE i)
  BY DEF Reads, ReadsAreas
<1>3. /\ p.comment = o.comment /\ p.ruleId = o.ruleId /\ p.kind = o.kind /\ p.start = o.start
      /\ p.end = IF Shut(o) THEN at ELSE o.end
  <2> HIDE DEF o, p, Shut
  <2> QED
    BY <1>1, <1>2 DEF Areas
<1>4. /\ j.comment = i.comment /\ j.ruleId = i.ruleId /\ j.kind = i.kind /\ j.start = i.start
      /\ j.end = IF Shut(i) THEN at ELSE i.end
  <2> HIDE DEF i, j, Shut
  <2> QED
    BY <1>1, <1>2 DEF Areas
<1>5. p.kind = "block" /\ j.kind = "block" /\ p.ruleId \in {All, j.ruleId} /\ (p.end = Open \/ p.end > j.start)
  OBVIOUS
<1>6. o.kind = "block" /\ i.kind = "block"
  BY <1>3, <1>4, <1>5
<1>7. \A c \in 1..Len(comments) : comments[c].at < at
  BY DEF Reads, ReadsComment
<1>8. i.start \in Int /\ (i.end # Open => i.end \in Int /\ i.end < at)
  <2>1. areas[b].kind = "block"
    BY <1>6
  <2> QED
    BY <1>7, <2>1, AreaEnds
<1>9. Shut(o) => o.end = Open
  BY DEF OpenMatching
<1>10. o.ruleId \in {All, i.ruleId} /\ (o.end = Open \/ o.end > i.start)
  <2> HIDE DEF o, i, p, j, Shut
  <2> QED
    BY <1>3, <1>4, <1>5, <1>9
<1>11. <<i.comment, i.ruleId>> \in duplicates /\ Within(i, o)
  BY <1>6, <1>10 DEF BlockDuplicatesRedundant
<1>12. duplicates \subseteq duplicates'
  BY DEF Reads, ReadsReports
<1>13. Shut(o) /\ i.end = Open => Shut(i)
  <2>1. ASSUME Shut(o), i.end = Open
        PROVE  Shut(i)
    <3>1. Concerns(list, o.ruleId) /\ directive = "enable"
      BY <2>1 DEF OpenMatching
    <3>2. Concerns(list, i.ruleId)
      BY <1>10, <3>1, NamesAll
    <3> QED
      BY <1>6, <2>1, <3>1, <3>2 DEF OpenMatching
  <2> QED
    BY <2>1
<1>14. Shut(i) => i.end = Open
  BY DEF OpenMatching
<1>15. at # Open
  BY DEF DirectivesAssumption
<1> HIDE DEF o, i, p, j, Shut
<1>16. o.start <= i.start /\ (o.end = Open \/ (i.end # Open /\ i.end <= o.end))
  BY <1>11 DEF Within
<1>17. p.end = Open \/ (j.end # Open /\ j.end <= p.end)
  <2>1. CASE Shut(o)
    <3>1. p.end = at
      BY <1>3, <2>1
    <3>2. CASE Shut(i)
      BY <1>4, <1>15, <3>1, <3>2
    <3>3. CASE ~ Shut(i)
      <4>1. j.end = i.end /\ i.end # Open
        BY <1>4, <1>13, <2>1, <3>3
      <4>2. i.end <= at
        BY <1>8, <4>1
      <4> QED
        BY <3>1, <4>1, <4>2
    <3> QED
      BY <3>2, <3>3
  <2>2. CASE ~ Shut(o)
    <3>1. p.end = o.end
      BY <1>3, <2>2
    <3>2. CASE o.end # Open
      BY <1>4, <1>14, <1>16, <3>1, <3>2
    <3> QED
      BY <3>1, <3>2
  <2> QED
    BY <2>1, <2>2
<1>18. Within(j, p)
  BY <1>3, <1>4, <1>10, <1>16, <1>17 DEF Within
<1> QED
  BY <1>4, <1>11, <1>12, <1>18 DEF p, j

(* A new block area, and one that was there before it, or that the same    *)
(* directive opened before it: the comparison that reports it sees that    *)
(* one, since whatever has an end ends before here.                        *)
LEMMA NewDuplicates ==
  ASSUME DirectivesAssumption, Typed, AreasOfComments, NEW at \in Int, NEW list \in Seq(Rules),
         Reads(at, "disable", list), NEW i \in 1..Len(list), NEW a \in 1..(Len(areas) + i - 1),
         areas'[a].kind = "block", areas'[a].ruleId \in {All, areas'[Len(areas) + i].ruleId},
         areas'[a].end = Open \/ areas'[a].end > areas'[Len(areas) + i].start
  PROVE  /\ <<areas'[Len(areas) + i].comment, areas'[Len(areas) + i].ruleId>> \in duplicates'
         /\ Within(areas'[Len(areas) + i], areas'[a])
<1> DEFINE l == Len(areas)
           k == Len(comments)
           p == areas'[a]
           j == areas'[l + i]
<1>1. l \in Nat /\ Len(list) \in Nat /\ areas \in Seq(Areas)
  BY DEF Typed
<1>2. /\ \A b \in 1..l : areas'[b] = areas[b]
      /\ \A m \in 1..Len(list) : areas'[l + m] =
           [comment |-> k + 1, ruleId |-> list[m], kind |-> "block", start |-> at, end |-> Open]
      /\ \A c \in 1..k : comments[c].at < at
      /\ \A r \in Repeated(areas, at, list) : <<k + 1, r>> \in duplicates'
  BY DEF Reads, ReadsAreas, ReadsReports, ReadsComment
<1>3. j.comment = k + 1 /\ j.ruleId = list[i] /\ j.kind = "block" /\ j.start = at /\ j.end = Open
  <2>1. j = [comment |-> k + 1, ruleId |-> list[i], kind |-> "block", start |-> at, end |-> Open]
    BY <1>2
  <2> HIDE DEF j, k
  <2> QED
    BY <2>1
<1>4. p.kind = "block" /\ p.ruleId \in {All, list[i]} /\ (p.end = Open \/ p.end > at)
  <2>1. p.kind = "block" /\ p.ruleId \in {All, j.ruleId} /\ (p.end = Open \/ p.end > j.start)
    OBVIOUS
  <2> HIDE DEF j, p
  <2> QED
    BY <1>3, <2>1
<1>5. \A x \in Nat : \A y \in Nat : \A z \in 1..y : \A b \in 1..(x + z - 1) :
        b \in 1..x \/ (b - x \in 1..(z - 1) /\ b - x \in 1..y /\ b = x + (b - x))
  OBVIOUS
<1>6. a \in 1..l \/ \E m \in 1..(i - 1) : m \in 1..Len(list) /\ a = l + m
  <2>1. \A b \in 1..(l + i - 1) : b \in 1..l \/ (b - l \in 1..(i - 1) /\ b - l \in 1..Len(list) /\ b = l + (b - l))
    BY <1>1, <1>5
  <2> QED
    BY <2>1
<1>7. list[i] \in Repeated(areas, at, list) /\ p.start <= at /\ p.end = Open
  <2>1. CASE a \in 1..l
    <3>1. p = areas[a]
      BY <1>2, <2>1
    <3>2. areas[a].kind = "block"
      BY <1>4, <3>1
    <3>3. areas[a].start \in Int /\ areas[a].start < at /\ (areas[a].end # Open => areas[a].end \in Int /\ areas[a].end < at)
      BY <1>2, <2>1, <3>2, AreaEnds
    <3> HIDE DEF p, l, j
    <3>4. p.end = Open /\ p.start <= at
      BY <1>4, <3>1, <3>3
    <3>5. Covers(areas[a], list[i], at)
      BY <1>4, <3>1, <3>4 DEF Covers
    <3>6. list[i] \in Repeated(areas, at, list)
      BY <2>1, <3>5 DEF Repeated, l
    <3> QED
      BY <3>4, <3>6
  <2>2. CASE a \notin 1..l
    <3>1. PICK m \in 1..(i - 1) : m \in 1..Len(list) /\ a = l + m
      BY <1>6, <2>2
    <3>2. p = [comment |-> k + 1, ruleId |-> list[m], kind |-> "block", start |-> at, end |-> Open]
      BY <1>2, <3>1
    <3> HIDE DEF p, k
    <3>3. p.ruleId = list[m] /\ p.start = at /\ p.end = Open
      BY <3>2
    <3>4. list[m] \in {All, list[i]}
      BY <1>4, <3>3
    <3>5. list[i] \in Repeated(areas, at, list)
      BY <3>4 DEF Repeated
    <3> QED
      BY <3>3, <3>5
  <2> QED
    BY <2>1, <2>2
<1> HIDE DEF j, p, k, l
<1>8. Within(j, p)
  BY <1>3, <1>4, <1>7 DEF Within
<1>9. <<j.comment, j.ruleId>> \in duplicates'
  BY <1>2, <1>3, <1>7
<1> QED
  BY <1>8, <1>9 DEF j, p, l

(* Reading a comment keeps every covered block directive reported and      *)
(* redundant.                                                              *)
LEMMA DuplicatesStep ==
  ASSUME DirectivesAssumption, Typed, AreasOfComments, BlockDuplicatesRedundant, NEW at \in Int,
         NEW directive \in Kinds, NEW list \in Seq(Rules), Reads(at, directive, list)
  PROVE  BlockDuplicatesRedundant'
<1> DEFINE l == Len(areas)
           m == Len(list)
           grown == Len(areas')
<1>1. l \in Nat /\ m \in Nat
  BY DEF Typed
<1>2. grown = l + (IF directive = "enable" THEN 0 ELSE m)
  BY DEF Reads, ReadsAreas
<1> DEFINE Right(a, b) ==
             /\ <<areas'[b].comment, areas'[b].ruleId>> \in duplicates'
             /\ Within(areas'[b], areas'[a])
<1>3. ASSUME NEW a \in 1..grown, NEW b \in 1..grown, a < b, areas'[a].kind = "block", areas'[b].kind = "block",
             areas'[a].ruleId \in {All, areas'[b].ruleId},
             areas'[a].end = Open \/ areas'[a].end > areas'[b].start
      PROVE  Right(a, b)
  <2>1. CASE b \in 1..l
    <3>1. a \in 1..l
      BY <1>1, <1>3, <2>1
    <3> QED
      BY <1>3, <2>1, <3>1, OldDuplicates
  <2>2. CASE b \notin 1..l
    <3>1. directive # "enable" /\ grown = l + m
      BY <1>1, <1>2, <2>2
    <3>2. \A x, y, z \in Nat : \A d \in 1..z : d \notin 1..x /\ z = x + y => d - x \in 1..y /\ d = x + (d - x)
      OBVIOUS
    <3>3. PICK i \in 1..m : b = l + i
      <4>1. grown \in Nat
        BY <1>1, <3>1
      <4> HIDE DEF l, m, grown
      <4>2. b - l \in 1..m /\ b = l + (b - l)
        BY <1>1, <2>2, <3>1, <3>2, <4>1
      <4> QED
        BY <4>2
    <3>4. directive = "disable"
      <4>1. SUFFICES ASSUME directive # "disable"
                     PROVE  FALSE
        OBVIOUS
      <4>2. PICK s \in Int : \A d \in 1..m : areas'[l + d] =
              [comment |-> Len(comments) + 1, ruleId |-> list[d], kind |-> "line", start |-> s, end |-> s + MaxColumn + 1]
        BY <3>1, <4>1 DEF Reads, ReadsAreas
      <4>3. areas'[l + i] =
              [comment |-> Len(comments) + 1, ruleId |-> list[i], kind |-> "line", start |-> s, end |-> s + MaxColumn + 1]
        BY <4>2
      <4>4. areas'[l + i].kind = "line"
        BY <4>3
      <4> QED
        BY <1>3, <3>3, <4>4
    <3>5. a \in 1..(l + i - 1)
      BY <1>1, <1>3, <3>3
    <3>6. Reads(at, "disable", list)
      BY <3>4
    <3>7. /\ areas'[a].ruleId \in {All, areas'[Len(areas) + i].ruleId}
          /\ areas'[a].end = Open \/ areas'[a].end > areas'[Len(areas) + i].start
      BY <1>3, <3>3
    <3>8. /\ <<areas'[Len(areas) + i].comment, areas'[Len(areas) + i].ruleId>> \in duplicates'
          /\ Within(areas'[Len(areas) + i], areas'[a])
      BY <1>3, <3>5, <3>6, <3>7, NewDuplicates
    <3> QED
      BY <3>3, <3>8
  <2> QED
    BY <2>1, <2>2
<1> HIDE DEF l, m
<1> QED
  BY <1>3 DEF BlockDuplicatesRedundant, Within

-----------------------------------------------------------------------------
(* What the file cs says of the comment e, an enable: which block          *)
(* directives it ends, which of its rules end one that no earlier rule     *)
(* of the list does, and what is to be reported of it.                     *)
Disables(cs, c, rule) == cs[c].directive = "disable" /\ rule \in Ids(cs[c].ids)
EndedIn(cs, e) == {c \in 1..Len(cs) : \E r : Disables(cs, c, r) /\ EndsHere(cs, c, r, e)}
NeededIn(cs, e, i) ==
  \E c \in 1..Len(cs) : \E r :
    /\ Disables(cs, c, r) /\ EndsHere(cs, c, r, e)
    /\ cs[e].ids[i] \in {All, r} /\ \A m \in 1..(i - 1) : cs[e].ids[m] \notin {All, r}
ReportsOf(cs, rel, idle, e) ==
  /\ rel[e] = Cardinality(EndedIn(cs, e))
  /\ \A r : <<e, r>> \in idle <=>
        \E i \in 1..Len(cs[e].ids) : cs[e].ids[i] = r /\ ~ NeededIn(cs, e, i)
(* What is collected of an enable when it is read is what the file says,   *)
(* then and later.                                                         *)
ReportsFollow == \A e \in 1..Len(comments) : comments[e].directive = "enable" => ReportsOf(comments, related, unused, e)

(* A new comment changes nothing that an earlier enable ends.              *)
LEMMA OldReports ==
  ASSUME DirectivesAssumption, Typed, NEW at \in Int, NEW directive \in Kinds, NEW list \in Seq(Rules),
         Reads(at, directive, list), NEW e \in 1..Len(comments), ReportsOf(comments, related, unused, e)
  PROVE  ReportsOf(comments', related', unused', e)
<1> DEFINE cs == comments
           ds == comments'
           k == Len(comments)
           n == k + 1
           w == Written(at, directive, list)
<1>1. Extends(cs, ds, w) /\ Len(ds) = n /\ k \in Nat /\ \A i \in 1..k : ds[i] = cs[i]
  BY DEF Reads, ReadsComment, Extends, Typed
<1>2. ASSUME NEW c \in 1..n, NEW r
      PROVE  EndsHere(ds, c, r, e) <=> c # n /\ EndsHere(cs, c, r, e)
  <2> HIDE DEF ds, w
  <2>1. EndsWith(cs, ds, w, c, r, n)
    BY <1>1, EndsAtStep
  <2> QED
    BY <2>1 DEF EndsWith
<1>3. ds[e] = cs[e] /\ e # n
  BY <1>1
<1>4. /\ related'[e] = related[e]
      /\ unused \subseteq unused' /\ unused' \subseteq unused \cup ({n} \X Rules)
  BY DEF Reads, ReadsReports
<1>5. \A r : <<e, r>> \in unused' <=> <<e, r>> \in unused
  BY <1>3, <1>4
<1>6. \A c \in 1..n : c # n <=> c \in 1..k
  BY <1>1
<1>7. \A c \in 1..k : c \in 1..n
  BY <1>1
<1> HIDE DEF ds, k, n, w
<1>8. \A c : \A r : c \in 1..n /\ Disables(ds, c, r) /\ EndsHere(ds, c, r, e)
                 <=> c \in 1..k /\ Disables(cs, c, r) /\ EndsHere(cs, c, r, e)
  BY <1>1, <1>2, <1>6, <1>7 DEF Disables
<1>9. EndedIn(ds, e) = EndedIn(cs, e)
  BY <1>1, <1>8 DEF EndedIn, k
<1>10. \A i : NeededIn(ds, e, i) <=> NeededIn(cs, e, i)
  BY <1>1, <1>3, <1>8 DEF NeededIn, k
<1>11. related[e] = Cardinality(EndedIn(cs, e))
  BY DEF ReportsOf
<1>12. \A r : <<e, r>> \in unused <=> \E i \in 1..Len(cs[e].ids) : cs[e].ids[i] = r /\ ~ NeededIn(cs, e, i)
  BY DEF ReportsOf
<1>13. \A r : <<e, r>> \in unused' <=> \E i \in 1..Len(ds[e].ids) : ds[e].ids[i] = r /\ ~ NeededIn(ds, e, i)
  BY <1>3, <1>5, <1>10, <1>12
<1>14. related'[e] = Cardinality(EndedIn(ds, e))
  BY <1>4, <1>9, <1>11
<1> QED
  BY <1>13, <1>14 DEF ReportsOf, ds

(* What an enable ends is what is open when it is read and what its list   *)
(* names.                                                                  *)
LEMMA EndedAreas ==
  ASSUME DirectivesAssumption, Typed, AreasOfComments, NEW at \in Int, NEW list \in Seq(Rules),
         Reads(at, "enable", list), NEW c, NEW r
  PROVE  /\ c \in 1..Len(comments') /\ Disables(comments', c, r)
         /\ EndsHere(comments', c, r, Len(comments) + 1)
         <=> /\ Concerns(list, r)
             /\ \E a \in 1..Len(areas) : BlockOf(areas[a], c, r) /\ areas[a].end = Open
<1> DEFINE cs == comments
           ds == comments'
           k == Len(comments)
           n == k + 1
           w == Written(at, "enable", list)
           Shut(a) == BlockOf(areas[a], c, r) /\ areas[a].end = Open
<1>1. Extends(cs, ds, w) /\ Len(ds) = n /\ k \in Nat /\ ds[n] = w
      /\ (\A i \in 1..k : ds[i] = cs[i]) /\ \A i \in 1..k : cs[i].at < at
  BY DEF Reads, ReadsComment, Extends, Typed
<1>2. w.directive = "enable" /\ w.ids = list
  BY DEF Written
<1>3. \A i \in 1..n : i # n <=> i \in 1..k
  BY <1>1
<1>4. c \in 1..n => (EndsHere(ds, c, r, n) <=> c # n /\ EndsIn(cs, c, r) = {} /\ Concerns(list, r))
  <2>1. SUFFICES ASSUME c \in 1..n
                 PROVE  EndsHere(ds, c, r, n) <=> c # n /\ EndsIn(cs, c, r) = {} /\ Concerns(list, r)
    OBVIOUS
  <2> HIDE DEF ds, w
  <2>2. EndsWith(cs, ds, w, c, r, n)
    BY <1>1, <2>1, EndsAtStep
  <2>3. EndsHere(ds, c, r, n) <=> /\ c # n /\ EndsIn(cs, c, r) = {}
                                 /\ w.directive = "enable" /\ Concerns(w.ids, r)
    BY <2>2 DEF EndsWith
  <2> QED
    BY <1>2, <2>3
<1>5. ASSUME NEW a \in 1..Len(areas), Shut(a)
      PROVE  c \in 1..k /\ Disables(cs, c, r) /\ EndsIn(cs, c, r) = {}
  <2>1. areas[a].kind = "block" /\ areas[a].comment = c /\ areas[a].ruleId = r /\ areas[a].end = Open
    BY <1>5 DEF BlockOf
  <2>2. Areal(cs, areas[a])
    BY DEF AreasOfComments
  <2>3. c \in 1..k /\ Disables(cs, c, r)
    BY <2>1, <2>2 DEF Areal, Disables
  <2>4. \A i \in 1..Len(comments) : comments[i].at < at
    BY <1>1
  <2>5. areas[a].end = Open <=> EndsIn(comments, areas[a].comment, areas[a].ruleId) = {}
    BY <2>1, <2>4, AreaEnds
  <2> QED
    BY <2>1, <2>3, <2>5
<1>6. ASSUME c \in 1..k, Disables(cs, c, r), EndsIn(cs, c, r) = {}
      PROVE  \E a \in 1..Len(areas) : Shut(a)
  <2>1. r \in Ids(comments[c].ids) /\ comments[c].directive = "disable"
    BY <1>6 DEF Disables
  <2>2. PICK a \in 1..Len(areas) : BlockOf(areas[a], c, r)
    BY <1>6, <2>1 DEF AreasOfComments
  <2>3. areas[a].kind = "block" /\ areas[a].comment = c /\ areas[a].ruleId = r
    BY <2>2 DEF BlockOf
  <2>4. \A i \in 1..Len(comments) : comments[i].at < at
    BY <1>1
  <2>5. areas[a].end = Open <=> EndsIn(comments, areas[a].comment, areas[a].ruleId) = {}
    BY <2>3, <2>4, AreaEnds
  <2> QED
    BY <1>6, <2>2, <2>3, <2>5
<1>7. c \in 1..k => c \in 1..n /\ (Disables(ds, c, r) <=> Disables(cs, c, r))
  BY <1>1 DEF Disables
<1> HIDE DEF Shut, k, n, w, ds
<1>8. /\ c \in 1..n /\ Disables(ds, c, r) /\ EndsHere(ds, c, r, n)
      <=> Concerns(list, r) /\ \E a \in 1..Len(areas) : Shut(a)
  BY <1>3, <1>4, <1>5, <1>6, <1>7
<1> QED
  BY <1>1, <1>8 DEF Shut, k, n, ds

(* A list of one rule matches the areas of that rule, or all.              *)
LEMMA NamesOne ==
  ASSUME NEW area, NEW x
  PROVE  OpenMatching(area, <<x>>, "block") <=>
           area.end = Open /\ area.kind = "block" /\ x \in {All, area.ruleId}
<1>1. Ids(<<x>>) = {x}
  <2>1. 1..Len(<<x>>) = {1}
    BY SMT
  <2> QED
    BY <2>1 DEF Ids
<1> QED
  BY <1>1 DEF OpenMatching, Concerns

(* So the number of directives collected when it is read, and the rules    *)
(* found to be idle, are what the file says.                               *)
LEMMA NewReports ==
  ASSUME DirectivesAssumption, Typed, AreasOfComments, NEW at \in Int, NEW list \in Seq(Rules),
         Reads(at, "enable", list), NEW n, n = Len(comments) + 1
  PROVE  ReportsOf(comments', related', unused', n)
<1> DEFINE ds == comments'
           k == Len(comments)
           w == Written(at, "enable", list)
           Shut(a, c, r) == BlockOf(areas[a], c, r) /\ areas[a].end = Open
           Ended(c, r) == c \in 1..n /\ Disables(ds, c, r) /\ EndsHere(ds, c, r, n)
<1>1. Len(ds) = n /\ ds[n] = w
  BY DEF Reads, ReadsComment, Extends
<1>2. w.ids = list
  BY DEF Written
<1>3. ds[n].ids = list
  BY <1>1, <1>2
<1>4. \A c, r : Ended(c, r) <=> Concerns(list, r) /\ \E a \in 1..Len(areas) : Shut(a, c, r)
  <2>1. ASSUME NEW c, NEW r
        PROVE  Ended(c, r) <=> Concerns(list, r) /\ \E a \in 1..Len(areas) : Shut(a, c, r)
    BY <1>1, EndedAreas
  <2> QED
    BY <2>1
<1>5. \A a, c, r : Shut(a, c, r) <=> /\ areas[a].kind = "block" /\ areas[a].end = Open
                                    /\ c = areas[a].comment /\ r = areas[a].ruleId
  BY DEF BlockOf
<1>6. related'[n] = RelatedDirectives(areas, list, "block")
      /\ \A r : <<n, r>> \in unused' <=> r \in Idle(areas, list, "block")
  BY DEF Reads, ReadsReports
<1> DEFINE Matching == {b \in 1..Len(areas) : OpenMatching(areas[b], list, "block")}
<1>7. \A a : a \in Matching <=> a \in 1..Len(areas) /\ Shut(a, areas[a].comment, areas[a].ruleId) /\ Concerns(list, areas[a].ruleId)
  BY <1>5 DEF OpenMatching
<1>8. EndedIn(ds, n) = {c \in 1..n : \E r : Ended(c, r)}
  BY <1>1 DEF EndedIn
<1>9. RelatedDirectives(areas, list, "block") = Cardinality({areas[a].comment : a \in Matching})
  BY DEF RelatedDirectives
<1> DEFINE Before(a, i) == \A m \in 1..(i - 1) : ~ OpenMatching(areas[a], <<list[m]>>, "block")
           Fits(x, r) == x \in {All, r}
           First1(i, r) == \A m \in 1..(i - 1) : ~ Fits(list[m], r)
<1>10. \A i : NeededIn(ds, n, i) <=> \E c, r : Ended(c, r) /\ Fits(list[i], r) /\ First1(i, r)
  <2>1. ASSUME NEW i
        PROVE  NeededIn(ds, n, i) <=> \E c, r : Ended(c, r) /\ Fits(list[i], r) /\ First1(i, r)
    <3>1. NeededIn(ds, n, i) <=>
            \E c \in 1..n : \E r :
              /\ Disables(ds, c, r) /\ EndsHere(ds, c, r, n)
              /\ Fits(list[i], r) /\ First1(i, r)
      BY <1>1, <1>3 DEF NeededIn
    <3> HIDE DEF Fits, First1
    <3> QED
      BY <3>1
  <2> QED
    BY <2>1
<1>11. \A r : r \in Idle(areas, list, "block") <=>
         \E i \in 1..Len(list) : list[i] = r /\
           ~ \E a \in 1..Len(areas) : OpenMatching(areas[a], <<list[i]>>, "block") /\ Before(a, i)
  BY DEF Idle
<1>12. \A a, x : OpenMatching(areas[a], <<x>>, "block") <=>
         areas[a].end = Open /\ areas[a].kind = "block" /\ Fits(x, areas[a].ruleId)
  BY NamesOne
<1>13. ASSUME NEW a, areas[a].end = Open, areas[a].kind = "block", NEW i
       PROVE  Before(a, i) <=> First1(i, areas[a].ruleId)
  <2> HIDE DEF Fits
  <2> QED
    BY <1>12, <1>13
<1>14. \A i \in 1..Len(list) : \A r : Fits(list[i], r) => Concerns(list, r)
  BY DEF Concerns, Ids
<1> HIDE DEF Shut, Ended, Fits, First1, Before, Matching
<1>15. EndedIn(ds, n) = {areas[a].comment : a \in Matching}
  <2>1. ASSUME NEW c \in EndedIn(ds, n)
        PROVE  c \in {areas[a].comment : a \in Matching}
    <3>1. PICK r : Ended(c, r)
      BY <1>8, <2>1
    <3>2. PICK a \in 1..Len(areas) : Concerns(list, r) /\ Shut(a, c, r)
      BY <1>4, <3>1
    <3>3. c = areas[a].comment /\ r = areas[a].ruleId
      BY <1>5, <3>2
    <3>4. a \in Matching
      BY <1>7, <3>2, <3>3
    <3> QED
      BY <3>3, <3>4
  <2>2. ASSUME NEW a \in Matching
        PROVE  areas[a].comment \in EndedIn(ds, n)
    <3>1. Ended(areas[a].comment, areas[a].ruleId)
      BY <1>4, <1>7, <2>2
    <3> QED
      BY <1>8, <3>1 DEF Ended
  <2> QED
    BY <2>1, <2>2
<1>16. ASSUME NEW i \in 1..Len(list)
       PROVE  NeededIn(ds, n, i) <=>
                \E a \in 1..Len(areas) : OpenMatching(areas[a], <<list[i]>>, "block") /\ Before(a, i)
  <2>1. ASSUME NEW c, NEW r, Ended(c, r), Fits(list[i], r), First1(i, r)
        PROVE  \E a \in 1..Len(areas) : OpenMatching(areas[a], <<list[i]>>, "block") /\ Before(a, i)
    <3>1. PICK a \in 1..Len(areas) : Shut(a, c, r)
      BY <1>4, <2>1
    <3>2. areas[a].kind = "block" /\ areas[a].end = Open /\ r = areas[a].ruleId
      BY <1>5, <3>1
    <3>3. Before(a, i)
      BY <1>13, <2>1, <3>2
    <3>4. OpenMatching(areas[a], <<list[i]>>, "block")
      BY <1>12, <2>1, <3>2
    <3> QED
      BY <3>3, <3>4
  <2>2. ASSUME NEW a \in 1..Len(areas), OpenMatching(areas[a], <<list[i]>>, "block"), Before(a, i)
        PROVE  \E c, r : Ended(c, r) /\ Fits(list[i], r) /\ First1(i, r)
    <3>1. areas[a].end = Open /\ areas[a].kind = "block" /\ Fits(list[i], areas[a].ruleId)
      BY <1>12, <2>2
    <3>2. First1(i, areas[a].ruleId)
      BY <1>13, <2>2, <3>1
    <3>3. Concerns(list, areas[a].ruleId) /\ Shut(a, areas[a].comment, areas[a].ruleId)
      BY <1>5, <1>14, <3>1
    <3>4. Ended(areas[a].comment, areas[a].ruleId)
      BY <1>4, <3>3
    <3> QED
      BY <3>1, <3>2, <3>4
  <2> QED
    BY <1>10, <2>1, <2>2
<1>17. \A r : <<n, r>> \in unused' <=> \E i \in 1..Len(ds[n].ids) : ds[n].ids[i] = r /\ ~ NeededIn(ds, n, i)
  BY <1>3, <1>6, <1>11, <1>16
<1>18. related'[n] = Cardinality(EndedIn(ds, n))
  BY <1>6, <1>9, <1>15
<1> QED
  BY <1>17, <1>18 DEF ReportsOf, ds

(* Reading a comment keeps what is collected of the enables.               *)
LEMMA ReportsStep ==
  ASSUME DirectivesAssumption, Typed, AreasOfComments, ReportsFollow, NEW at \in Int,
         NEW directive \in Kinds, NEW list \in Seq(Rules), Reads(at, directive, list)
  PROVE  ReportsFollow'
<1> DEFINE k == Len(comments)
           n == k + 1
           w == Written(at, directive, list)
<1>1. Len(comments') = n /\ k \in Nat /\ comments'[n] = w /\ \A i \in 1..k : comments'[i] = comments[i]
  BY DEF Reads, ReadsComment, Extends, Typed
<1>2. w.directive = directive
  BY DEF Written
<1> HIDE DEF w
<1>3. ASSUME NEW e \in 1..Len(comments'), comments'[e].directive = "enable"
      PROVE  ReportsOf(comments', related', unused', e)
  <2>1. CASE e \in 1..k
    <3>1. comments[e].directive = "enable"
      BY <1>1, <1>3, <2>1
    <3>2. ReportsOf(comments, related, unused, e)
      BY <2>1, <3>1 DEF ReportsFollow
    <3> QED
      BY <2>1, <3>2, OldReports
  <2>2. CASE e \notin 1..k
    <3>1. e = n
      BY <1>1, <1>3, <2>2
    <3>2. Reads(at, "enable", list)
      BY <1>1, <1>2, <1>3, <3>1
    <3> QED
      BY <3>1, <3>2, NewReports
  <2> QED
    BY <2>1, <2>2
<1> QED
  BY <1>3 DEF ReportsFollow

-----------------------------------------------------------------------------
(* The ends that the properties name are those of the comments read.       *)
LEMMA WholeFile ==
  /\ \A c, r : Ends(c, r) = EndsIn(comments, c, r)
  /\ \A c, r, e : EndsAt(c, r, e) <=> EndsHere(comments, c, r, e)
<1>1. ASSUME NEW c, NEW r
      PROVE  Ends(c, r) = EndsIn(comments, c, r)
  BY DEF Ends, Enables, Is, EndsIn
<1>2. ASSUME NEW c, NEW r, NEW e
      PROVE  EndsAt(c, r, e) <=> EndsHere(comments, c, r, e)
  BY <1>1 DEF EndsAt, EndsHere
<1> QED
  BY <1>1, <1>2

(* The areas are exact if they are what their comments say.                *)
LEMMA AreasAreExactFollows ==
  ASSUME DirectivesAssumption, Typed, AreasOfComments
  PROVE  AreasAreExact
<1>1. SUFFICES ASSUME NEW a \in 1..Len(areas)
               PROVE  IF areas[a].kind = "line"
                      THEN areas[a].end = areas[a].start + MaxColumn + 1 /\ a \notin MissingPairs
                      ELSE IF Ends(areas[a].comment, areas[a].ruleId) = {} THEN a \in MissingPairs
                      ELSE /\ areas[a].end = comments[First(Ends(areas[a].comment, areas[a].ruleId))].at
                           /\ a \notin MissingPairs
  BY DEF AreasAreExact
<1> DEFINE area == areas[a]
           E == EndsIn(comments, area.comment, area.ruleId)
<1>2. area \in Areas /\ Areal(comments, area)
  BY DEF Typed, AreasOfComments
<1>3. Ends(area.comment, area.ruleId) = E
  BY WholeFile
<1>4. a \in MissingPairs <=> area.end = Open
  BY DEF MissingPairs
<1>5. Open \notin Int /\ MaxColumn \in Nat
  BY DEF DirectivesAssumption
<1>6. CASE area.kind = "line"
  <2>1. area.end = area.start + MaxColumn + 1 /\ area.start \in Int
    BY <1>2, <1>6 DEF Areal, Areas
  <2> HIDE DEF area
  <2>2. area.end # Open
    BY <1>5, <2>1
  <2> QED
    BY <1>4, <1>6, <2>1, <2>2 DEF area
<1>7. CASE area.kind # "line"
  <2>1. area.kind = "block"
    BY <1>2, <1>7 DEF Areas
  <2>2. area.end = EndOf(comments, area.comment, area.ruleId)
    BY <1>2, <2>1 DEF Areal
  <2>3. area.end = IF E = {} THEN Open ELSE comments[First(E)].at
    BY <2>2 DEF EndOf
  <2>4. area.end = Open <=> E = {}
    BY <2>2, EndOpen DEF Typed
  <2> HIDE DEF area, E
  <2>5. IF area.kind = "line"
        THEN area.end = area.start + MaxColumn + 1 /\ a \notin MissingPairs
        ELSE IF E = {} THEN a \in MissingPairs
        ELSE area.end = comments[First(E)].at /\ a \notin MissingPairs
    BY <1>4, <1>7, <2>3, <2>4
  <2> QED
    BY <1>3, <2>5 DEF area
<1> QED
  BY <1>6, <1>7

(* The reports of the enables are exact if the collections follow.         *)
LEMMA ReportsAreExactFollows ==
  ASSUME Typed, ReportsFollow
  PROVE  EnableReportsAreExact
<1> DEFINE Needed(e, n) ==
             \E c \in EndedBy(e) : \E r \in Ids(comments[c].ids) :
               /\ EndsAt(c, r, e)
               /\ comments[e].ids[n] \in {All, r}
               /\ \A m \in 1..(n - 1) : comments[e].ids[m] \notin {All, r}
<1>1. SUFFICES ASSUME NEW e \in Enables
               PROVE  /\ e \in Aggregating <=> Cardinality(EndedBy(e)) > 1
                      /\ \A r \in Ids(comments[e].ids) : <<e, r>> \in unused <=>
                           \E n \in 1..Len(comments[e].ids) : comments[e].ids[n] = r /\ ~ Needed(e, n)
  BY DEF EnableReportsAreExact
<1>2. e \in 1..Len(comments) /\ comments[e].directive = "enable"
  BY DEF Enables, Is
<1>3. ReportsOf(comments, related, unused, e)
  BY <1>2 DEF ReportsFollow
<1>4. \A c, r : EndsAt(c, r, e) <=> EndsHere(comments, c, r, e)
  BY WholeFile
<1>5. \A c : c \in EndedBy(e) <=>
        c \in 1..Len(comments) /\ \E r : Disables(comments, c, r) /\ EndsHere(comments, c, r, e)
  BY <1>4 DEF EndedBy, Blocks, Is, Disables
<1>6. EndedBy(e) = EndedIn(comments, e)
  BY <1>5 DEF EndedIn
<1>7. e \in Aggregating <=> related[e] > 1
  BY <1>2 DEF Aggregating
<1>8. ASSUME NEW n
      PROVE  Needed(e, n) <=> NeededIn(comments, e, n)
  <2> DEFINE Fits(r) == /\ comments[e].ids[n] \in {All, r}
                        /\ \A m \in 1..(n - 1) : comments[e].ids[m] \notin {All, r}
  <2>1. NeededIn(comments, e, n) <=>
          \E c \in 1..Len(comments) : \E r : Disables(comments, c, r) /\ EndsHere(comments, c, r, e) /\ Fits(r)
    BY DEF NeededIn
  <2>2. Needed(e, n) <=>
          \E c \in EndedBy(e) : \E r \in Ids(comments[c].ids) : EndsHere(comments, c, r, e) /\ Fits(r)
    BY <1>4
  <2>3. \A c \in EndedBy(e) : \A r : r \in Ids(comments[c].ids) <=> Disables(comments, c, r)
    BY DEF EndedBy, Blocks, Is, Disables
  <2> HIDE DEF Needed, Fits
  <2> QED
    BY <1>5, <2>1, <2>2, <2>3
<1> HIDE DEF Needed
<1>9. related[e] = Cardinality(EndedIn(comments, e))
  BY <1>3 DEF ReportsOf
<1>10. \A r : <<e, r>> \in unused <=>
         \E n \in 1..Len(comments[e].ids) : comments[e].ids[n] = r /\ ~ Needed(e, n)
  BY <1>3, <1>8 DEF ReportsOf
<1> QED
  BY <1>6, <1>7, <1>9, <1>10

(* The inductive invariant.                                                *)
ReadingInv == Typed /\ AreasOfComments /\ BlockDuplicatesRedundant /\ ReportsFollow

(* Nothing is read at first.                                               *)
LEMMA InitInv ==
  ASSUME DirectivesAssumption, Init
  PROVE  ReadingInv
<1>1. comments = <<>> /\ areas = <<>> /\ related = <<>> /\ unused = {}
  BY DEF Init
<1>2. Len(comments) = 0 /\ Len(areas) = 0
  BY <1>1
<1>3. \A i : i \notin 1..Len(comments) /\ i \notin 1..Len(areas)
  BY <1>2
<1>4. Typed
  BY <1>1, <1>3 DEF Typed
<1>5. AreasOfComments
  BY <1>3 DEF AreasOfComments
<1>6. BlockDuplicatesRedundant
  BY <1>3 DEF BlockDuplicatesRedundant
<1>7. ReportsFollow
  BY <1>3 DEF ReportsFollow
<1> QED
  BY <1>4, <1>5, <1>6, <1>7 DEF ReadingInv

(* A step that reads nothing changes nothing.                              *)
LEMMA StutterInv ==
  ASSUME ReadingInv, UNCHANGED vars
  PROVE  ReadingInv'
<1>1. comments' = comments /\ areas' = areas /\ duplicates' = duplicates /\ unused' = unused /\ related' = related
  BY DEF vars
<1> QED
  BY <1>1 DEF ReadingInv, Typed, AreasOfComments, BlockDuplicatesRedundant, Within, ReportsFollow

(* The invariant holds, whatever is read.                                  *)
LEMMA ReadingInvHolds ==
  ASSUME DirectivesAssumption
  PROVE  Spec => []ReadingInv
<1>1. Init => ReadingInv
  BY InitInv
<1>2. ReadingInv /\ [Next]_vars => ReadingInv'
  <2>1. ASSUME ReadingInv, Next
        PROVE  ReadingInv'
    <3>1. PICK at \in Int, directive \in Kinds, list \in Seq(Rules) : Reads(at, directive, list)
      BY <2>1, NextReads DEF ReadingInv
    <3>2. Typed'
      BY <2>1, <3>1, TypedStep DEF ReadingInv
    <3>3. AreasOfComments'
      BY <2>1, <3>1, AreasStep DEF ReadingInv
    <3>4. BlockDuplicatesRedundant'
      BY <2>1, <3>1, DuplicatesStep DEF ReadingInv
    <3>5. ReportsFollow'
      BY <2>1, <3>1, ReportsStep DEF ReadingInv
    <3> QED
      BY <3>2, <3>3, <3>4, <3>5 DEF ReadingInv
  <2> QED
    BY <2>1, StutterInv
<1> QED
  BY <1>1, <1>2, PTL DEF Spec

-----------------------------------------------------------------------------
(* However many comments a file has, wherever they stand and whatever      *)
(* rules they name: closing areas one comment at a time gives the areas    *)
(* that the whole file describes, and reports as missing a pair exactly    *)
(* the block areas that nothing ends (computeDisabledArea and directive-   *)
(* disable-enable-pair).                                                   *)
THEOREM ClosingIsExact ==
  ASSUME DirectivesAssumption
  PROVE  Spec => []AreasAreExact
<1>1. ReadingInv => AreasAreExact
  BY AreasAreExactFollows DEF ReadingInv
<1> QED
  BY <1>1, ReadingInvHolds, PTL

(* However the directives of a file repeat each other: a block directive   *)
(* whose rule is covered where it stands is reported (directive-no-        *)
(* duplicate-disable) and reaches no further than the area that covers     *)
(* it. Comparing a new area with the ones before it is enough, although    *)
(* later comments move the ends of both.                                   *)
THEOREM DuplicateBlocksAreRedundant ==
  ASSUME DirectivesAssumption
  PROVE  Spec => []BlockDuplicatesRedundant
<1>1. ReadingInv => BlockDuplicatesRedundant
  BY DEF ReadingInv
<1> QED
  BY <1>1, ReadingInvHolds, PTL

(* Whatever an enable lists: it is reported as aggregating exactly if it   *)
(* ends more than one disable directive, and a rule of its list as         *)
(* unused exactly if it ends nothing that an earlier rule of the list      *)
(* does not (directive-no-aggregating-enable and directive-no-unused-      *)
(* enable), and nothing read later makes a difference.                     *)
THEOREM EnablesAreJudged ==
  ASSUME DirectivesAssumption
  PROVE  Spec => []EnableReportsAreExact
<1>1. ReadingInv => EnableReportsAreExact
  BY ReportsAreExactFollows DEF ReadingInv
<1> QED
  BY <1>1, ReadingInvHolds, PTL
=============================================================================
