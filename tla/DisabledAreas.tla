--------------------------- MODULE DisabledAreas ----------------------------
(***************************************************************************)
(* What directive comments mean, and what is reported of them: the state    *)
(* that Directives.tla computes, and its comparison with the file read as  *)
(* a whole.                                                                *)
(***************************************************************************)
EXTENDS Integers, Sequences, FiniteSets

CONSTANTS
  All,         \* a directive that names no rules: undefined in the code
  Open,        \* an area without an end
  MaxColumn    \* bound: the columns of a line

VARIABLES
  comments,    \* the directive comments read so far: [at, directive, ids]
  areas,       \* areas, in the order they were opened
  duplicates,  \* duplicateDisableDirectives: <<comment, rule>>
  unused,      \* unusedEnableDirectives: <<comment, rule>>
  related      \* numberOfRelatedDisableDirectives, by comment

Ids(list) == {list[i] : i \in 1..Len(list)}
(* undefined matches any rule *)
Concerns(list, rule) == All \in Ids(list) \/ rule \in Ids(list)

-----------------------------------------------------------------------------
(* What the rules report. *)
MissingPairs == {a \in 1..Len(areas) : areas[a].end = Open}
Aggregating == {c \in 1..Len(comments) : related[c] > 1}

(* What the file says, read as a whole. *)
Is(c, directive) == comments[c].directive = directive
Blocks == {c \in 1..Len(comments) : Is(c, "disable")}
Enables == {c \in 1..Len(comments) : Is(c, "enable")}

(* the enable comments after c that end its disabling of the rule *)
Ends(c, rule) == {e \in Enables : e > c /\ Concerns(comments[e].ids, rule)}
First(s) == CHOOSE e \in s : \A d \in s : e <= d
EndsAt(c, rule, e) == Ends(c, rule) # {} /\ First(Ends(c, rule)) = e
(* the block directives whose area of some rule ends at e *)
EndedBy(e) == {c \in Blocks : \E r \in Ids(comments[c].ids) : EndsAt(c, r, e)}

(* Closing areas one comment at a time gives the areas the whole file      *)
(* describes: a block area ends at the first later enable that names its   *)
(* rule or none, whatever was opened, closed or repeated in between, and a *)
(* line area is exactly its line. Block areas that nothing ends, and no    *)
(* others, are reported by directive-disable-enable-pair.                  *)
AreasAreExact ==
  \A a \in 1..Len(areas) :
    LET area == areas[a]
    IN  IF area.kind = "line"
        THEN area.end = area.start + MaxColumn + 1 /\ a \notin MissingPairs
        ELSE IF Ends(area.comment, area.ruleId) = {} THEN a \in MissingPairs
        ELSE /\ area.end = comments[First(Ends(area.comment, area.ruleId))].at
             /\ a \notin MissingPairs

(* A rule of an enable is reported as unused if and only if no area ends   *)
(* there on its account: one may be left out of the list without a change. *)
(* And the enable is reported as aggregating if and only if it ends more   *)
(* than one disable directive, however many rules those name.              *)
EnableReportsAreExact ==
  \A e \in Enables :
    LET list == comments[e].ids
        (* some area ends here because of the n-th rule, the first to match it *)
        Needed(n) == \E c \in EndedBy(e) : \E r \in Ids(comments[c].ids) :
                       /\ EndsAt(c, r, e)
                       /\ list[n] \in {All, r}
                       /\ \A m \in 1..(n - 1) : list[m] \notin {All, r}
    IN  /\ e \in Aggregating <=> Cardinality(EndedBy(e)) > 1
        /\ \A r \in Ids(list) :
             <<e, r>> \in unused <=> \E n \in 1..Len(list) : list[n] = r /\ ~Needed(n)

(* A block directive that the block directives before it already cover is  *)
(* reported, and it can be removed: wherever its area reaches, an area     *)
(* that was there before it disables the same rule.                        *)
Within(inner, outer) ==
  /\ outer.ruleId \in {All, inner.ruleId}
  /\ outer.start <= inner.start
  /\ outer.end = Open \/ (inner.end # Open /\ inner.end <= outer.end)
BlockDuplicatesRedundant ==
  \A a, b \in 1..Len(areas) :
    (/\ a < b /\ areas[a].kind = "block" /\ areas[b].kind = "block"
     /\ areas[a].ruleId \in {All, areas[b].ruleId}
     /\ areas[a].end = Open \/ areas[a].end > areas[b].start)
    => <<areas[b].comment, areas[b].ruleId>> \in duplicates /\ Within(areas[b], areas[a])

(* "Disallow duplicate ... comments", "rule has been disabled already": a  *)
(* block directive reported as a duplicate disables nothing that is not    *)
(* disabled without it.                                                    *)
DuplicatesRedundant ==
  \A b \in 1..Len(areas) :
    areas[b].kind = "block" /\ <<areas[b].comment, areas[b].ruleId>> \in duplicates
      => \E a \in 1..(b - 1) : Within(areas[b], areas[a])
=============================================================================
