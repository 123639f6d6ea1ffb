----------------------- MODULE ExhaustiveDependencies -----------------------
(***************************************************************************)
(* Rule use-exhaustive-dependencies on one hook call, and its fixes: lint, *)
(* apply one of the fixes (all replace the same array), lint again. The    *)
(* closure is the sequence of its uses of variables; a use or a dependency *)
(* is a variable with a path of properties. The array is a set: the order  *)
(* and the repetition of dependencies are left out.                        *)
(***************************************************************************)
EXTENDS Naturals, Sequences, SequencesExt, FiniteSets, FiniteSetsExt

CONSTANTS
  Variables,
  KindsOf,        \* what the variables may be: functions to the kinds below
  Uses,           \* [root, path, called, forced, typed]
  MaxUses,        \* bound: uses in the closure
  Entries,        \* dependencies: [expression, roots, path]
  MaxEntries,     \* bound: dependencies in the array as written
  Options,        \* [array, unnecessary, stable, expressions]
  MaxPasses       \* bound: passes of the linter

VARIABLES kind, closure, resolved, options, dependencies, written, passes, reports, settled

vars == <<kind, closure, resolved, options, dependencies, written, passes, reports, settled>>
hook == <<kind, closure, resolved, options, written>>

(* Kinds: "plain", "stable" and "unstable" are declared in the component,  *)
(* "self" by the statement of the hook call, "module" and "closure" are    *)
(* declared elsewhere. An array is missing, or is no array literal.        *)
Kinds == {"plain", "stable", "unstable", "self", "module", "closure"}
Absent == {[expression |-> FALSE, roots |-> {}, path |-> <<"absent">>]}
Opaque == {[expression |-> FALSE, roots |-> {}, path |-> <<"opaque">>]}

Init ==
  /\ kind \in KindsOf
  /\ closure \in BoundedSeq(Uses, MaxUses)
  /\ resolved \in BOOLEAN
  /\ options \in Options
  /\ dependencies \in {Absent, Opaque} \cup UNION {kSubset(n, Entries) : n \in 0 .. MaxEntries}
  /\ written = dependencies
  /\ passes = 0 /\ reports = {} /\ settled = FALSE

-----------------------------------------------------------------------------
(* Captures. The first use of a name stands for all of them; a method call *)
(* counts as a use of the object. Only an arrow function and a name that   *)
(* leads to a function are resolved; a function expression is not.         *)
UsedPath(use) == IF use.called /\ use.path # <<>> THEN Front(use.path) ELSE use.path
Capturable(use) == ~ use.typed /\ kind[use.root] \in {"plain", "stable", "unstable"}
Captures ==
  {[root |-> closure[i].root, path |-> UsedPath(closure[i]), forced |-> closure[i].forced] :
     i \in {k \in DOMAIN closure :
              /\ Capturable(closure[k])
              /\ \A j \in 1 .. k - 1 : Capturable(closure[j]) => closure[j].root # closure[k].root}}
Stable(c) == kind[c.root] = "stable" /\ ~ c.forced
Required == {c \in Captures : ~ Stable(c)}
Entry(c) == [expression |-> FALSE, roots |-> {c.root}, path |-> c.path]

(* A dependency that is a chain of properties has a root. A mistake: as    *)
(* deep as the capture is deeper than it.                                  *)
SameRoot(d, c) == ~ d.expression /\ d.roots = {c.root}
Depth(x) == Len(x.path)
AtLeastAsDeep(d, c) == Depth(d) >= Depth(c)
Deeper(d, c) == Depth(d) > Depth(c)

(* A chain that is too deep counts as an expression over its root. A       *)
(* mistake: a chain covers any capture it is not deeper than.              *)
CoversByDepth(d, c) ==
  \/ ~ d.expression /\ Depth(d) <= Depth(c)
  \/ options.expressions /\ c.root \in d.roots /\ (d.expression \/ Depth(d) > Depth(c))
Covers(d, c) ==
  \/ SameRoot(d, c) /\ Depth(d) <= Depth(c)
  \/ options.expressions /\ c.root \in d.roots /\ (d.expression \/ Depth(d) > Depth(c))
Missing == {c \in Required : \A d \in dependencies : ~ Covers(d, c)}

Unnecessary(d) ==
  LET matching == {c \in Captures : SameRoot(d, c)}
  IN  \/ matching = {} /\ options.unnecessary
      \/ \E c \in matching : options.stable /\ Stable(c)
      \/ \E c \in matching : options.unnecessary /\ Deeper(d, c)
UnstableDependency(d) ==
  \E c \in Required : SameRoot(d, c) /\ Depth(c) = 0 /\ Depth(d) = 0 /\ kind[c.root] = "unstable"

-----------------------------------------------------------------------------
(* A report, and the array its fix leaves; some have no fix.               *)
Report(message, about, fix) == [message |-> message, about |-> about, fix |-> fix]
Removals == {Report("unnecessaryDependency", {d}, dependencies \ {d}) : d \in {x \in dependencies : Unnecessary(x)}}
Additions ==
  IF Missing = {} THEN {}
  ELSE LET added == {Entry(c) : c \in Missing}
       IN  {Report("missingDependencies", added, dependencies \cup added)}
Unstables == {Report("unstableDependency", {d}, dependencies) : d \in {x \in dependencies : UnstableDependency(x)}}
NewArray ==
  IF Required = {} THEN {}
  ELSE LET added == {Entry(c) : c \in Required} IN {Report("missingDependenciesArray", added, added)}

Found ==
  IF ~ resolved \/ dependencies = Opaque THEN {}
  ELSE IF dependencies = Absent THEN IF options.array THEN NewArray ELSE {}
  ELSE Removals \cup Additions \cup Unstables

Lint ==
  /\ ~ settled /\ reports = {} /\ passes < MaxPasses
  /\ passes' = passes + 1
  /\ reports' = Found
  /\ settled' = \A r \in Found : r.fix = dependencies
  /\ UNCHANGED <<hook, dependencies>>

Fix ==
  /\ ~ settled
  /\ \E r \in reports : r.fix # dependencies /\ dependencies' = r.fix
  /\ reports' = {}
  /\ UNCHANGED <<hook, passes, settled>>

Next == Lint \/ Fix

Spec == Init /\ [][Next]_vars

-----------------------------------------------------------------------------
TypeOK ==
  /\ kind \in [Variables -> Kinds]
  /\ passes \in 0 .. MaxPasses
  /\ \A r \in reports : r.message = "unstableDependency" <=> r.fix = dependencies

(* Fixing comes to an end: a few passes settle every array, whichever of   *)
(* the fixes each pass applies. No fix undoes what another did.            *)
FixesSettle == passes = MaxPasses => settled

(* An array that is settled names every variable the closure depends on    *)
(* and, unless the options let them stand, nothing else.                   *)
Needed(use) == ~ use.typed /\ kind[use.root] \in {"plain", "unstable"}
SettledNamesAll ==
  settled /\ resolved /\ dependencies \notin {Absent, Opaque} =>
    /\ \A i \in DOMAIN closure : Needed(closure[i]) =>
         \E d \in dependencies : closure[i].root \in d.roots
    /\ options.unnecessary =>
         \A d \in dependencies : \E i \in DOMAIN closure :
           d.roots = {closure[i].root} /\ ~ closure[i].typed /\ kind[closure[i].root] \in {"plain", "stable", "unstable"}

(* No report asks for a complete array to be made incomplete: what can be  *)
(* removed from a list in which every use is tracked leaves all tracked.   *)
Tracks(d, use) == ~ d.expression /\ d.roots = {use.root} /\ IsPrefix(d.path, UsedPath(use))
Complete(array) ==
  \A i \in DOMAIN closure : Needed(closure[i]) => \E d \in array : Tracks(d, closure[i])
CompleteStaysComplete ==
  \A r \in reports : Complete(dependencies) => Complete(r.fix)
=============================================================================
