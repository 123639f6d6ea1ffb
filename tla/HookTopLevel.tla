---------------------------- MODULE HookTopLevel ----------------------------
(***************************************************************************)
(* The lint rule use-hook-at-top-level (src/rules/react) as Oxlint drives  *)
(* it: a visitor whose enter and exit handlers run in the order of a       *)
(* depth-first walk of the syntax tree.                                    *)
(*                                                                         *)
(* The walk is external: "path" is the chain of open syntax nodes that     *)
(* matter, and every step opens, advances or closes one of them, or visits *)
(* a call, a return or an import. The rule does not see the path; it keeps *)
(* a stack of contexts of its own and answers each hook call from its top. *)
(* What the answer should be is read off the path.                         *)
(***************************************************************************)
EXTENDS HookPlacement

CONSTANTS
  Functions,       \* shapes of functions: [name |-> declared name or NoName, hookish |-> BOOLEAN]
  Hooks,           \* names that calls may use, all matching HOOK_NAME_PATTERN
  Imports,         \* what the file may import: pairs <<hook, source>>
  Namespaces,      \* objects of member calls, as in Namespace.useState()
  MaxDepth,        \* bound: open nodes
  MaxFunctions,    \* bound: open functions
  MaxSameKind      \* bound: open conditionals, loops or try statements per function

VARIABLES
  contextStack,        \* contextStack
  functionNameStack,   \* functionNameStack
  currentFunctionName  \* currentFunctionName

ruleVars == <<contextStack, functionNameStack, currentFunctionName>>
vars == <<path, regular, contextStack, functionNameStack, currentFunctionName, importSourceMap, call, report>>

-----------------------------------------------------------------------------
(* The walk. A conditional is open at its "test" (the test of an if or a   *)
(* ternary, the discriminant of a switch, the left operand of a logical    *)
(* expression) and then at a "branch"; a try statement at its "block"      *)
(* (catch clause included) and then at "finally".                          *)
Kinds == {"conditional", "loop", "try"}
Top(s) == s[Len(s)]
Pop(s) == SubSeq(s, 1, Len(s) - 1)

Frame(kind, part) == [kind |-> kind, part |-> part, shape |-> NoName, returned |-> FALSE]
FunctionFrame(shape) == [kind |-> "function", part |-> "body", shape |-> shape, returned |-> FALSE]

Opens == Len(path) < MaxDepth

-----------------------------------------------------------------------------
(* The rule. *)
CleanContext ==
  [afterEarlyReturn |-> FALSE, inConditional |-> FALSE, inLoop |-> FALSE,
   inNestedFunction |-> FALSE, inTryBlock |-> FALSE, isComponentOrHook |-> FALSE]

(* mergeIntoStackTop: without a context there is nothing to update *)
UpdateContext(field, value) ==
  contextStack' = IF contextStack = <<>> THEN contextStack
                  ELSE [contextStack EXCEPT ![Len(contextStack)] = [@ EXCEPT ![field] = value]]

(* A mistake: a hook or component is recognised before nesting is. *)
HandleFunctionEnterHookFirst(shape) ==
  /\ functionNameStack' = Append(functionNameStack, currentFunctionName)
  /\ currentFunctionName' = IF shape.name # NoName THEN shape.name ELSE currentFunctionName
  /\ contextStack' =
       IF shape.hookish
       THEN Append(contextStack, [CleanContext EXCEPT !.isComponentOrHook = TRUE])
       ELSE IF contextStack # <<>> /\ Top(contextStack).isComponentOrHook
       THEN Append(contextStack, [CleanContext EXCEPT !.inNestedFunction = TRUE])
       ELSE contextStack

HandleFunctionEnter(shape) ==
  /\ functionNameStack' = Append(functionNameStack, currentFunctionName)
  /\ currentFunctionName' = IF shape.name # NoName THEN shape.name ELSE currentFunctionName
  /\ contextStack' =
       IF contextStack # <<>> /\ Top(contextStack).isComponentOrHook
       THEN Append(contextStack, [CleanContext EXCEPT !.inNestedFunction = TRUE])
       ELSE IF shape.hookish
       THEN Append(contextStack, [CleanContext EXCEPT !.isComponentOrHook = TRUE])
       ELSE contextStack

(* A mistake: the outer name is restored but stays on its stack. *)
HandleFunctionExitPeeksName ==
  /\ contextStack' = IF contextStack = <<>> THEN contextStack ELSE Pop(contextStack)
  /\ currentFunctionName' = Top(functionNameStack)
  /\ UNCHANGED functionNameStack

HandleFunctionExit ==
  /\ contextStack' = IF contextStack = <<>> THEN contextStack ELSE Pop(contextStack)
  /\ currentFunctionName' = Top(functionNameStack)
  /\ functionNameStack' = Pop(functionNameStack)

FieldOf == [k \in Kinds |-> CASE k = "conditional" -> "inConditional"
                              [] k = "loop" -> "inLoop"
                              [] k = "try" -> "inTryBlock"]

(* isInFinallyBlock: of the nodes around the call only the nearest function *)
(* or try statement is looked at                                           *)
IsInFinallyBlock ==
  LET stops == {i \in 1..Len(path) : path[i].kind \in {"function", "try"}}
  IN  \E i \in stops : (\A j \in stops : j <= i) /\ path[i].part = "finally"

(* reportHookViolation *)
MessageFor(c, context) ==
  CASE c.object = NoName /\ c.hook = currentFunctionName -> "recursiveHookCall"
    [] OTHER -> IF context.inNestedFunction THEN "nestedFunction"
                ELSE IF context.inConditional THEN "conditionalHook"
                ELSE IF context.inLoop THEN "loopHook"
                ELSE IF context.inTryBlock THEN "tryBlockHook"
                ELSE IF context.afterEarlyReturn THEN "afterEarlyReturn"
                ELSE "none"

HandleCall(c) ==
  report' = IF ShouldIgnore(c) \/ contextStack = <<>> \/ IsInFinallyBlock THEN "none"
            ELSE MessageFor(c, Top(contextStack))

-----------------------------------------------------------------------------
Init ==
  /\ path = <<>> /\ regular = TRUE
  /\ contextStack = <<>> /\ functionNameStack = <<>>
  /\ currentFunctionName = NoName
  /\ importSourceMap = {}
  /\ call = NoCall /\ report = "none"

Quiet == call' = NoCall /\ report' = "none"

(* An import declaration stands outside every function, before or after    *)
(* the functions that use it.                                              *)
ImportDeclaration(i) ==
  /\ path = <<>>
  /\ i \notin importSourceMap
  /\ importSourceMap' = IF DOMAIN ImportSources = {} THEN importSourceMap ELSE importSourceMap \cup {i}
  /\ Quiet
  /\ UNCHANGED <<path, regular, ruleVars>>

EnterFunction(shape) ==
  /\ Opens
  /\ Cardinality(FunctionsIn(path)) < MaxFunctions
  /\ path' = Append(path, FunctionFrame(shape))
  /\ regular' = (regular /\ ~NestedInHook)
  /\ HandleFunctionEnter(shape)
  /\ Quiet
  /\ UNCHANGED importSourceMap

ExitFunction ==
  /\ path # <<>> /\ Top(path).kind = "function"
  /\ path' = Pop(path)
  /\ regular' = (regular \/ Len(path) = 1)
  /\ HandleFunctionExit
  /\ Quiet
  /\ UNCHANGED importSourceMap

Enter(kind) ==
  /\ Opens
  /\ Cardinality({i \in Own(path) : path[i].kind = kind}) < MaxSameKind
  /\ path' = Append(path, Frame(kind, CASE kind = "conditional" -> "test"
                                        [] kind = "loop" -> "body"
                                        [] kind = "try" -> "block"))
  /\ regular' = (regular /\ \A i \in Own(path) : path[i].kind # kind)
  /\ UpdateContext(FieldOf[kind], TRUE)
  /\ Quiet
  /\ UNCHANGED <<functionNameStack, currentFunctionName, importSourceMap>>

(* A mistake: the flag is not cleared. *)
ExitKeepsFlag(kind) ==
  /\ path # <<>> /\ Top(path).kind = kind
  /\ Top(path).part # "test"
  /\ path' = Pop(path)
  /\ regular' = (regular \/ Len(path) = 1)
  /\ Quiet
  /\ UNCHANGED <<ruleVars, importSourceMap>>

Exit(kind) ==
  /\ path # <<>> /\ Top(path).kind = kind
  /\ Top(path).part # "test"
  /\ path' = Pop(path)
  /\ regular' = (regular \/ Len(path) = 1)
  /\ UpdateContext(FieldOf[kind], FALSE)
  /\ Quiet
  /\ UNCHANGED <<functionNameStack, currentFunctionName, importSourceMap>>

(* From the test to a branch, from the block to the finally block: no      *)
(* handler of the rule runs.                                               *)
Advance ==
  /\ path # <<>> /\ Top(path).part \in {"test", "block"}
  /\ path' = [path EXCEPT ![Len(path)].part = IF @ = "test" THEN "branch" ELSE "finally"]
  /\ Quiet
  /\ UNCHANGED <<regular, ruleVars, importSourceMap>>

(* ReturnStatement:exit, after the returned expression was walked *)
Return ==
  /\ Innermost(path) # 0
  /\ ~InTest(path)
  /\ path' = [path EXCEPT ![Innermost(path)].returned = TRUE]
  /\ UpdateContext("afterEarlyReturn", TRUE)
  /\ Quiet
  /\ UNCHANGED <<regular, functionNameStack, currentFunctionName, importSourceMap>>

CallExpression(c) ==
  /\ call' = c
  /\ HandleCall(c)
  /\ UNCHANGED <<path, regular, ruleVars, importSourceMap>>

Calls == [hook : Hooks, object : Namespaces \cup {NoName}]

Next ==
  \/ \E i \in Imports : ImportDeclaration(i)
  \/ \E shape \in Functions : EnterFunction(shape)
  \/ ExitFunction
  \/ \E kind \in Kinds : Enter(kind)
  \/ \E kind \in Kinds : Exit(kind)
  \/ Advance \/ Return
  \/ \E c \in Calls : CallExpression(c)

Spec == Init /\ [][Next]_vars

-----------------------------------------------------------------------------
(* The properties are in HookPlacement.tla. *)
TypeOK ==
  /\ Len(path) <= MaxDepth /\ regular \in BOOLEAN
  /\ \A i \in 1..Len(contextStack) : DOMAIN contextStack[i] = DOMAIN CleanContext
  /\ Len(functionNameStack) = Cardinality(FunctionsIn(path))
  /\ call \in Calls \cup {NoCall}
  /\ report \in {"none", "recursiveHookCall", "nestedFunction", "conditionalHook", "loopHook",
                 "tryBlockHook", "afterEarlyReturn"}
=============================================================================
