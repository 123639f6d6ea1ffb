----------------------------- MODULE Directives -----------------------------
(***************************************************************************)
(* computeDisabledArea (src/utilities/directive-comments.ts) and the four   *)
(* lint rules that read its result: directive-disable-enable-pair,          *)
(* directive-no-duplicate-disable, directive-no-unused-enable and           *)
(* directive-no-aggregating-enable.                                         *)
(*                                                                         *)
(* The comments of a file are read in source order; each opens or closes   *)
(* areas in which rules are disabled. "comments" is the file read so far:  *)
(* the code keeps only what it collects from it, and the properties compare *)
(* that collection with what the whole file says.                           *)
(***************************************************************************)
EXTENDS DisabledAreas

CONSTANTS
  RuleIds,     \* rules a directive may name
  IdLists,     \* the lists of rules a directive may give; <<All>> for none
  MaxLine, MaxComments   \* bounds: where comments stand, and how many

vars == <<comments, areas, duplicates, unused, related>>

-----------------------------------------------------------------------------
(* lte orders by line and then by column; columns start at -1. *)
Position(line, column) == line * (MaxColumn + 2) + column + 1
LineOf(position) == position \div (MaxColumn + 2)

(* isOpenMatchingArea for some rule of the list: undefined matches any *)
OpenMatching(area, list, kind) == area.end = Open /\ area.kind = kind /\ Concerns(list, area.ruleId)

(* getArea. A mistake: only an area of the same rule is looked for. *)
CoversSameRule(area, rule, location) ==
  /\ area.ruleId = rule
  /\ area.start <= location
  /\ area.end = Open \/ location <= area.end
Covers(area, rule, location) ==
  /\ area.ruleId \in {All, rule}
  /\ area.start <= location
  /\ area.end = Open \/ location <= area.end

(* disable: one area per rule of the list, each compared with the areas    *)
(* opened before it, those of its own directive included                   *)
Opened(comment, location, list, kind) ==
  [i \in 1..Len(list) |->
     [comment |-> comment, ruleId |-> list[i], kind |-> kind, start |-> location, end |-> Open]]
Repeated(before, location, list) ==
  {list[i] : i \in {n \in 1..Len(list) :
     \/ \E a \in 1..Len(before) : Covers(before[a], list[n], location)
     \/ \E m \in 1..(n - 1) : list[m] \in {All, list[n]} }}

(* enable: closes every open area of its kind that a rule of the list      *)
(* matches; a rule that finds none, or none that an earlier rule of the    *)
(* list left, is unused. A mistake: only the newest match is closed.       *)
ClosedNewest(before, location, list, kind) ==
  [a \in 1..Len(before) |->
     IF OpenMatching(before[a], list, kind)
          /\ \A b \in (a + 1)..Len(before) : ~OpenMatching(before[b], list, kind)
     THEN [before[a] EXCEPT !.end = location] ELSE before[a]]
Closed(before, location, list, kind) ==
  [a \in 1..Len(before) |->
     IF OpenMatching(before[a], list, kind) THEN [before[a] EXCEPT !.end = location] ELSE before[a]]
(* A mistake: the rules of a list are looked up independently. *)
IdleAlone(before, list, kind) ==
  {r \in Ids(list) : ~ \E a \in 1..Len(before) : OpenMatching(before[a], <<r>>, kind)}
Idle(before, list, kind) ==
  {list[i] : i \in {n \in 1..Len(list) :
     ~ \E a \in 1..Len(before) :
         /\ OpenMatching(before[a], <<list[n]>>, kind)
         /\ \A m \in 1..(n - 1) : ~OpenMatching(before[a], <<list[m]>>, kind) }}
RelatedDirectives(before, list, kind) ==
  Cardinality({before[a].comment : a \in {b \in 1..Len(before) : OpenMatching(before[b], list, kind)}})

-----------------------------------------------------------------------------
Init ==
  /\ comments = <<>>
  /\ areas = <<>>
  /\ duplicates = {} /\ unused = {}
  /\ related = <<>>

(* the index of the comment being read; a mistake: of the one after it *)
ThisOffByOne == Len(comments) + 2
This == Len(comments) + 1

(* getDirectiveComments yields the comments in source order. *)
Read(at, directive, list) ==
  /\ Len(comments) < MaxComments
  /\ comments # <<>> => comments[Len(comments)].at < at
  /\ comments' = Append(comments, [at |-> at, directive |-> directive, ids |-> list])

Disable(at, list) ==
  /\ Read(at, "disable", list)
  /\ duplicates' = duplicates \cup {<<This, r>> : r \in Repeated(areas, at, list)}
  /\ areas' = areas \o Opened(This, at, list, "block")
  /\ related' = Append(related, 0)
  /\ UNCHANGED unused

Enable(at, list) ==
  /\ Read(at, "enable", list)
  /\ areas' = Closed(areas, at, list, "block")
  /\ unused' = unused \cup {<<This, r>> : r \in Idle(areas, list, "block")}
  /\ related' = Append(related, RelatedDirectives(areas, list, "block"))
  /\ UNCHANGED duplicates

(* disable-line and disable-next-line: an area that begins with the line   *)
(* and is closed at once, just before the next                             *)
DisableLine(at, directive, list, line) ==
  LET start == Position(line, 0)
      opened == areas \o Opened(This, start, list, "line")
  IN  /\ Read(at, directive, list)
      /\ duplicates' = duplicates \cup {<<This, r>> : r \in Repeated(areas, start, list)}
      /\ areas' = Closed(opened, Position(line + 1, -1), list, "line")
      /\ unused' = unused \cup {<<This, r>> : r \in Idle(opened, list, "line")}
      /\ related' = Append(related, RelatedDirectives(opened, list, "line"))

Places == {Position(line, column) : line \in 1..MaxLine, column \in 0..MaxColumn}

Next ==
  \E at \in Places, list \in IdLists :
    \/ Disable(at, list)
    \/ Enable(at, list)
    \/ DisableLine(at, "disable-line", list, LineOf(at))
    \/ DisableLine(at, "disable-next-line", list, LineOf(at) + 1)

Spec == Init /\ [][Next]_vars

-----------------------------------------------------------------------------
(* The properties are in DisabledAreas.tla. *)
TypeOK ==
  /\ \A c \in 1..Len(comments) : comments[c].at \in Places /\ comments[c].ids \in IdLists
  /\ \A a \in 1..Len(areas) :
       /\ areas[a].comment \in 1..Len(comments)
       /\ areas[a].ruleId \in RuleIds \cup {All} /\ areas[a].kind \in {"block", "line"}
       /\ areas[a].start \in Nat /\ areas[a].end \in Nat \cup {Open}
  /\ duplicates \cup unused \subseteq (1..Len(comments)) \X (RuleIds \cup {All})
  /\ related \in [1..Len(comments) -> Nat]
=============================================================================
