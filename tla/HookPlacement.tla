--------------------------- MODULE HookPlacement ----------------------------
(***************************************************************************)
(* Where a hook call stands, and what use-hook-at-top-level should say of  *)
(* it, read off the path of open syntax nodes: the part of the state of    *)
(* HookTopLevel.tla that is not the rule's own.                            *)
(***************************************************************************)
EXTENDS Naturals, Sequences, FiniteSets

CONSTANTS
  NoName,
  OnlyHooks, IgnoreHooks,  \* options onlyHooks and ignoreHooks; {} when not given
  ImportSources            \* option importSources: a function from some sources to BOOLEAN

VARIABLES
  path,                \* the open nodes, outermost first
  regular,             \* for the properties only: since the walk was last outside every
                       \* function, no function was opened below a nested one, and no
                       \* construct in one of its own kind of the same function
  importSourceMap,     \* importSourceMap: set of pairs <<hook, source>>
  call,                \* the hook call just visited, or NoCall
  report               \* the message reported for it, or "none"

NoCall == [hook |-> NoName, object |-> NoName]

-----------------------------------------------------------------------------
FunctionsIn(p) == {i \in 1..Len(p) : p[i].kind = "function"}
(* the innermost open function, 0 when there is none *)
Innermost(p) == IF FunctionsIn(p) = {} THEN 0 ELSE CHOOSE i \in FunctionsIn(p) : \A j \in FunctionsIn(p) : j <= i
Own(p) == {i \in 1..Len(p) : i > Innermost(p)}
InFinally(p) == \E i \in Own(p) : p[i].kind = "try" /\ p[i].part = "finally"
InTest(p) == \E i \in Own(p) : p[i].kind = "conditional" /\ p[i].part = "test"

Hookish(i) == path[i].kind = "function" /\ path[i].shape.hookish
(* the node visited is in the body of a component or hook that is not nested *)
AtHome == Innermost(path) # 0 /\ Hookish(Innermost(path))
            /\ \A i \in FunctionsIn(path) : Hookish(i) => i = Innermost(path)
NestedInHook == \E i \in FunctionsIn(path) : Hookish(i) /\ ~AtHome

(* shouldIgnoreHook and getMemberHookSourceDecision; c.object is NoName    *)
(* for a plain call                                                        *)
ShouldIgnore(c) ==
  LET sources == IF c.object # NoName THEN {c.object}
                 ELSE {i[2] : i \in {j \in importSourceMap : j[1] = c.hook}}
  IN  IF OnlyHooks # {} THEN c.hook \notin OnlyHooks
      ELSE \/ c.hook \in IgnoreHooks
           \/ \E s \in sources \cap DOMAIN ImportSources : ~ImportSources[s]

(* What the rule is for, read off the path.                                *)
Branched == \E i \in Own(path) : path[i].kind = "conditional" /\ path[i].part = "branch"
Looped == \E i \in Own(path) : path[i].kind = "loop"
Tried == \E i \in Own(path) : path[i].kind = "try" /\ path[i].part = "block"
Returned == Innermost(path) # 0 /\ path[Innermost(path)].returned

(* the name of the innermost function that has one                         *)
DeclaredName ==
  LET named == {i \in FunctionsIn(path) : path[i].shape.name # NoName}
  IN  IF named = {} THEN NoName
      ELSE path[CHOOSE i \in named : \A j \in named : j <= i].shape.name

Recursive == call.object = NoName /\ call.hook = DeclaredName
Misplaced == NestedInHook \/ (AtHome /\ (Branched \/ Looped \/ Tried \/ Returned \/ Recursive))

Visited == call # NoCall
Checked == Visited /\ ~ShouldIgnore(call)

(* Whatever the nesting, a reported hook call is misplaced, unless it     *)
(* stands in a test: there the rule takes for conditional what decides     *)
(* the condition.                                                          *)
EveryReportJustified == report # "none" => Misplaced \/ InTest(path)

(* As long as a component or hook keeps to the nesting the rule can        *)
(* follow, every misplaced hook call in it that the options do not exclude *)
(* is reported, whatever the components before it looked like.             *)
EveryMisplacedReported ==
  regular /\ Checked /\ Misplaced /\ ~InFinally(path) => report # "none"

(* "... only called at the top level of components or custom hooks, never  *)
(* conditionally": outside finally blocks, a checked hook in a branch is   *)
(* reported.                                                               *)
ConditionalReported == Checked /\ AtHome /\ Branched /\ ~InFinally(path) => report # "none"
=============================================================================
