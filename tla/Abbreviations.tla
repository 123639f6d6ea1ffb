---------------------------- MODULE Abbreviations ----------------------------
(***************************************************************************)
(* The rule prevent-abbreviations on the variables of a file, and its      *)
(* fixes: lint, apply the fixes that do not overlap, lint again. A file is *)
(* the sequence of its declarations and uses in the order of the text,     *)
(* each in a scope; a declaration may stand after its uses.                *)
(***************************************************************************)
EXTENDS Naturals, Sequences, SequencesExt, FiniteSets, FiniteSetsExt

CONSTANTS
  Words,           \* the names a file is written with
  NameReplacements, \* per word, the words to use instead, sorted
  Kinds,           \* the kinds of declarations that occur
  MaxItems, MaxScopes, MaxPasses   \* bounds

VARIABLES
  items, upper, place,      \* the file; the scope around each scope; where the text goes on
  phase, checked, generated, fixes, passes,   \* the rule and the linter
  bound, crossed            \* what the uses named at first; see Crossing

file == <<items, upper, place>>
linting == <<phase, checked, generated, fixes, passes>>
vars == <<file, linting, bound, crossed>>

(* A name is a word and the number of underscores the rule has added. A    *)
(* class declares its name twice: around it, and in a scope of its own.    *)
Name(word) == <<word, 0>>
Item(kind, name, scope, inner) == [kind |-> kind, name |-> name, scope |-> scope, inner |-> inner]
Uses == {i \in DOMAIN items : items[i].kind = "use"}
Scopes == DOMAIN upper

Init ==
  /\ items = <<>> /\ upper = <<0>> /\ place = 1
  /\ phase = "text" /\ checked = 0 /\ generated = <<>> /\ fixes = {} /\ passes = 0
  /\ bound = <<>> /\ crossed = {}

-----------------------------------------------------------------------------
(* Variables are pairs of a scope and a declaration. *)
Nobody == <<0, 0>>
Declares(s, i) == items[i].kind # "use" /\ s \in {items[i].scope, items[i].inner}
GetVariableByName(scope, name) ==
  LET here(s) == {i \in DOMAIN items : Declares(s, i) /\ items[i].name = name}
      up[s \in Scopes \cup {0}] ==
        IF s = 0 THEN Nobody ELSE IF here(s) # {} THEN <<s, Min(here(s))>> ELSE up[upper[s]]
  IN  up[scope]
Variable(use) == GetVariableByName(items[use].scope, items[use].name)
References(v) == {u \in Uses : Variable(u) = v}

-----------------------------------------------------------------------------
(* The text. *)
Write(item) == items' = Append(items, item)
Writing == phase = "text" /\ Len(items) < MaxItems /\ UNCHANGED <<linting, bound, crossed>>
Fresh(word) == \A i \in DOMAIN items : Declares(place, i) => items[i].name # Name(word)
Declare ==
  /\ Writing /\ UNCHANGED <<upper, place>>
  /\ \E word \in Words, kind \in Kinds \ {"class"} :
       /\ Fresh(word) /\ (kind = "export" => place = 1)
       /\ Write(Item(kind, Name(word), place, 0))
Use ==
  /\ Writing /\ UNCHANGED <<upper, place>>
  /\ \E word \in Words : Write(Item("use", Name(word), place, 0))
Opens == Len(upper) < MaxScopes /\ upper' = Append(upper, place) /\ place' = Len(upper) + 1
OpenFunction == Writing /\ Opens /\ UNCHANGED items
OpenClass ==
  /\ Writing /\ Opens /\ "class" \in Kinds
  /\ \E word \in Words : Fresh(word) /\ Write(Item("class", Name(word), place, Len(upper) + 1))
Close ==
  /\ phase = "text" /\ place # 1 /\ place' = upper[place]
  /\ UNCHANGED <<items, upper, linting, bound, crossed>>

-----------------------------------------------------------------------------
(* Program:exit. The scopes are visited outer ones first, and of a class   *)
(* only the variable inside it.                                            *)
CheckScope ==
  LET variables(s) ==
        SetToSortSeq({i \in DOMAIN items : Declares(s, i) /\ items[i].inner \in {0, s}}, <)
  IN  FlattenSeq([s \in Scopes |-> [k \in DOMAIN variables(s) |-> <<s, variables(s)[k]>>]])

BeginLint ==
  /\ phase = "text" /\ place = 1 /\ passes < MaxPasses
  /\ phase' = "check" /\ checked' = 0 /\ fixes' = {} /\ passes' = passes + 1
  /\ generated' = [s \in Scopes |-> {}]
  /\ bound' = IF passes = 0 THEN [u \in Uses |-> Variable(u)] ELSE bound
  /\ UNCHANGED <<file, crossed>>

(* A name is available where no scope that the variable is used or         *)
(* declared in sees a variable of that name, and no fix has given it out   *)
(* for one of them.                                                        *)
IsSafeName(name, scopes) == \A s \in scopes : GetVariableByName(s, name) = Nobody
IsSafeGeneratedName(name, scopes) == \A s \in scopes : name \notin generated[s]
(* A mistake: the scopes of the uses are not looked at. *)
IsSafeWhereDeclared(name, scopes) ==
  GetVariableByName(Min(scopes), name) = Nobody /\ IsSafeGeneratedName(name, scopes)
IsAvailable(name, scopes) == IsSafeName(name, scopes) /\ IsSafeGeneratedName(name, scopes)
GetAvailableVariableName(word, scopes) ==
  <<word, Min({n \in 0 .. Len(items) : IsAvailable(<<word, n>>, scopes)})>>

GetNameReplacements(name) == IF name \in {Name(w) : w \in Words} THEN NameReplacements[name[1]] ELSE <<>>
IsDiscouragedReplacementName(word) == word \in Words /\ NameReplacements[word] # <<>>
Dropped(word, scopes) ==
  GetAvailableVariableName(word, scopes) # Name(word) /\ IsDiscouragedReplacementName(word)
ShouldFix(v) == items[v[2]].kind # "export"

CheckVariable ==
  LET v == CheckScope[checked + 1]
      samples == GetNameReplacements(items[v[2]].name)
      scopes == {v[1]} \cup {items[u].scope : u \in References(v)}
      kept == SelectSeq(samples, LAMBDA word : ~ Dropped(word, scopes))
      name == GetAvailableVariableName(kept[1], scopes)
  IN  /\ phase = "check" /\ checked < Len(CheckScope) /\ checked' = checked + 1
      /\ IF Len(kept) = 1 /\ ShouldFix(v)
         THEN /\ fixes' = fixes \cup {[variable |-> v, name |-> name, at |-> {v[2]} \cup References(v)]}
              /\ generated' = [s \in Scopes |-> generated[s] \cup IF s \in scopes THEN {name} ELSE {}]
         ELSE UNCHANGED <<fixes, generated>>
      /\ UNCHANGED <<file, phase, passes, bound, crossed>>

(* The linter applies the fixes from the start of the file and leaves out  *)
(* those that overlap an earlier one.                                      *)
Applied ==
  LET sorted == SetToSortSeq(fixes, LAMBDA f, g : Min(f.at) < Min(g.at))
      choose(chosen, f) ==
        IF \A g \in chosen : Max(g.at) < Min(f.at) THEN chosen \cup {f} ELSE chosen
  IN  FoldLeft(choose, {}, sorted)

(* Two fixes of one pass give the same name to a variable and to one of a  *)
(* scope inside. The names given out are known only for the scopes in      *)
(* which a variable occurs, not for those in between.                      *)
Within(s, t) ==
  LET up[x \in Scopes \cup {0}] == x # 0 /\ (x = t \/ up[upper[x]]) IN up[s]
Crossing ==
  {f.variable[2] : f \in {f \in Applied : \E g \in Applied :
     f.name = g.name /\ f # g /\ Within(g.variable[1], f.variable[1])}}

ApplyFixes ==
  LET new(i) == {f \in Applied : i \in f.at}
  IN  /\ phase = "check" /\ checked = Len(CheckScope)
      /\ items' = [i \in DOMAIN items |->
           IF new(i) = {} THEN items[i] ELSE [items[i] EXCEPT !.name = (CHOOSE f \in new(i) : TRUE).name]]
      /\ crossed' = crossed \cup Crossing
      /\ phase' = (IF fixes = {} THEN "settled" ELSE "fixed")
      /\ checked' = 0 /\ fixes' = {} /\ generated' = <<>>
      /\ UNCHANGED <<upper, place, passes, bound>>
LintAgain ==
  /\ phase = "fixed" /\ passes < MaxPasses
  /\ phase' = "check" /\ passes' = passes + 1 /\ generated' = [s \in Scopes |-> {}]
  /\ UNCHANGED <<file, checked, fixes, bound, crossed>>

Next ==
  \/ Declare \/ Use \/ OpenFunction \/ OpenClass \/ Close
  \/ BeginLint \/ CheckVariable \/ ApplyFixes \/ LintAgain
Spec == Init /\ [][Next]_vars

-----------------------------------------------------------------------------
(* Values have their types. *)
TypeOK ==
  /\ place \in Scopes /\ \A s \in Scopes : upper[s] < s
  /\ \A i \in DOMAIN items : items[i].scope \in Scopes
  /\ passes <= MaxPasses /\ checked <= 2 * Len(items)
  /\ crossed \subseteq DOMAIN items

(* After any number of fixes every use still names what it named before,   *)
(* and no scope declares a name twice.                                     *)
Classes == {i \in DOMAIN items : items[i].kind = "class"}
RenamesKeepBindings ==
  phase \in {"fixed", "settled"} =>
    /\ \A u \in Uses :
         bound[u] # Nobody /\ bound[u][2] \notin Classes \cup crossed => Variable(u) = bound[u]
    /\ \A i, j \in DOMAIN items \ (Uses \cup Classes) :
         i # j => items[i].name # items[j].name \/ items[i].scope # items[j].scope

(* "the rule can rename it for you everywhere it's used".                  *)
RenamedEverywhere ==
  phase \in {"fixed", "settled"} =>
    \A u \in Uses : bound[u] # Nobody => items[u].name = items[bound[u][2]].name
=============================================================================
