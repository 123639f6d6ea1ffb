---------------------------- MODULE PairedCalls ----------------------------
(***************************************************************************)
(* The rule require-paired-calls: calls such as debug.profilebegin must be *)
(* closed on every execution path. The rule walks a function once and      *)
(* keeps one stack of open calls, which it copies and merges at branches.  *)
(*                                                                         *)
(* Beside the rule's own variables the module keeps the executions of the  *)
(* program that is being walked: live is the set of calls that may be open *)
(* where the walk is, one element per execution. Loops run at most once.   *)
(* Calls stand in statements, not in the heads of control flow.            *)
(*                                                                         *)
(* A call has an index of its own, and the code only ever appends to a     *)
(* stack and filters one, so that a stack is in the order of the indices:  *)
(* it is the set of its calls here.                                        *)
(***************************************************************************)
EXTENDS Naturals, Sequences, SequencesExt

CONSTANTS
  Openers,     \* names of opening calls
  Closers,     \* names of closing calls
  ClosersOf,   \* the valid closers of an opener: main ones and alternatives
  Roblox,      \* openers whose pair has platform "roblox"
  AllowConditionalClosers,
  MaxNodes, MaxCases, MaxOpeners   \* bounds on the file

ASSUME PairedCallsAssumption ==
  /\ MaxNodes \in Nat /\ MaxCases \in Nat /\ MaxOpeners \in Nat
  /\ ClosersOf \in [Openers -> SUBSET Closers] /\ AllowConditionalClosers \in BOOLEAN

VARIABLES
  openerStack, loopStack, functionStacks, contextStack,   \* the rule's state
  stackIndexCounter, stackSnapshots, branchStacks,
  yieldingAutoClosed, yieldingReportedFirst,
  path,      \* the syntax nodes that are open, outermost first
  nodes,     \* the number of nodes entered so far
  live,      \* the executions that reach this place
  account,   \* per open function, the marks it has so far
  verdict    \* the marks of the function that was just left

flags == <<yieldingAutoClosed, yieldingReportedFirst>>
maps == <<stackSnapshots, branchStacks>>
stacks == <<openerStack, loopStack, functionStacks, contextStack>>
vars == <<stacks, stackIndexCounter, maps, flags, path, nodes, live, account, verdict>>

Top == path[Len(path)]
TopBecomes(node) == path' = [path EXCEPT ![Len(path)] = node]

-----------------------------------------------------------------------------
(* The program. An execution has a set of open calls and a destination:    *)
(* Here, the node after which it goes on, or Throw. A jump takes it to the *)
(* innermost node that stops it: its destination, a catch clause, a finally *)
(* block on the way, or the end of the function.                           *)
Here == 0
Throw == MaxNodes + 1
Towards(to) == {[x EXCEPT !.to = to] : x \in live}

If(condition, mark) == IF condition THEN {mark} ELSE {}
Catches(f, x) == f.kind = "try" /\ f.part = "block" /\ f.catch /\ x.to = Throw
Stops(f, x) ==
  \/ f.id = x.to \/ f.kind = "function" \/ Catches(f, x)
  \/ f.kind = "try" /\ f.part \in {"block", "catch"} /\ f.finally
Reaches(p, x, i) == Stops(p[i], x) /\ \A j \in i + 1..Len(p) : ~Stops(p[j], x)
Arriving(p, xs, i) == {x \in xs : Reaches(p, x, i)}
Caught(p, xs, i) == {x \in Arriving(p, xs, i) : Catches(p[i], x)}
Going(p, xs, i) == {x \in Arriving(p, xs, i) : p[i].kind # "function" /\ ~Catches(p[i], x)}
Deliver(p, xs) ==
  [i \in DOMAIN p |->
     [p[i] EXCEPT
        !.thrown = @ \cup {[x EXCEPT !.to = Here] : x \in Caught(p, xs, i)},
        !.out = @ \cup {[x EXCEPT !.to = IF @ = p[i].id THEN Here ELSE @] : x \in Going(p, xs, i)},
        !.leaks = @ \/ (p[i].kind = "function" /\ \E x \in Arriving(p, xs, i) : x.open # {})]]

(* A node remembers the executions and the stack before it, and the number *)
(* of functions around it. The stack is remembered for the properties.     *)
Node(kind, part) ==
  [id |-> nodes + 1, kind |-> kind, part |-> part,
   depth |-> IF kind = "function" THEN Len(account) + 1 ELSE Len(account),
   saved |-> live, stack |-> openerStack, out |-> {}, thrown |-> {}, leaks |-> FALSE,
   catch |-> FALSE, finally |-> FALSE, default |-> FALSE, cases |-> 0]
Within == {i \in DOMAIN path : path[i].depth = Len(account)}
InFinalizer == \E i \in Within : path[i].part = "finally"
(* A place for statements: in a function, in a switch only in a case, and  *)
(* never after a jump.                                                     *)
InCode == path # <<>> /\ Top.part # "between" /\ live # {}
CanEnter == InCode /\ nodes < MaxNodes

(* The marks of a function. The rule has "warned" of a call left open, or  *)
(* has reported that the function "yielded" and takes the open calls for   *)
(* closed: that report is no warning of a call left open. An execution is  *)
(* "wrong": it closes what is not open, or yields; or it has "leaked": it  *)
(* leaves with an open call.                                               *)
(*                                                                         *)
(* "irregular" is where the rule loses track of open calls: a case or a    *)
(* part of a try statement ends with a call open that it opened; a loop    *)
(* closes what was opened before it, or yields with it open; a yield drops *)
(* the calls of other pairs than the one it is reported for; a finally     *)
(* block returns or throws; a break leaves a case from inside another      *)
(* statement.                                                              *)
(* "beyond" is where it is stricter than the executions: early exits, loop *)
(* control, cases that fall through, an if that opens in both branches or  *)
(* replaces an open call, branches that close different calls, a try       *)
(* statement with a finally block that closes in its other parts.          *)
Marks == {"warned", "yielded", "wrong", "leaked", "irregular", "beyond"}
Mark(marks) ==
  /\ account' = [account EXCEPT ![Len(account)] = @ \cup marks]
  /\ verdict' = {}
Unmarked == UNCHANGED account /\ verdict' = {}

-----------------------------------------------------------------------------
(* The rule's helpers. A context keeps inFinally, the only one of its      *)
(* flags that is read.                                                     *)
NewIn(stack, original) == ~(stack \subseteq original)

Without(map, id) == [n \in DOMAIN map \ {id} |-> map[n]]
With(map, id, value) == [n \in DOMAIN map \cup {id} |-> IF n = id THEN value ELSE map[n]]
Branches(id) == IF id \in DOMAIN branchStacks THEN branchStacks[id] ELSE <<>>
Recorded(id) == Append(Branches(id), openerStack)

PushContext(inFinally) ==
  Append(contextStack, [inFinally |-> inFinally \/ (contextStack # <<>> /\ Last(contextStack).inFinally)])
PopContext == Front(contextStack)

(* reportPartiallyClosedOpeners and retainOpenersInAllBranches.            *)
Partial(original, branches) ==
  /\ ~AllowConditionalClosers
  /\ \E c \in original : \E a, b \in DOMAIN branches : c \in branches[a] \ branches[b]
Exchanged(original, branches) ==
  \E a, b \in DOMAIN branches : \E c, d \in original :
    c \in branches[a] \ branches[b] /\ d \in branches[b] \ branches[a]
Common(original, branches) ==
  {c \in original : \A b \in DOMAIN branches : c \in branches[b]}

(* settleBranches: the maps forget the node. *)
Settle(id) ==
  /\ stackSnapshots' = Without(stackSnapshots, id)
  /\ branchStacks' = Without(branchStacks, id)
(* recordBranchAndRestore *)
RecordAndRestore(id) ==
  /\ branchStacks' = With(branchStacks, id, Recorded(id))
  /\ openerStack' = stackSnapshots[id]

Init ==
  /\ openerStack = {} /\ loopStack = <<>> /\ functionStacks = <<>> /\ contextStack = <<>>
  /\ stackIndexCounter = 0
  /\ stackSnapshots = <<>> /\ branchStacks = <<>>
  /\ yieldingAutoClosed = FALSE /\ yieldingReportedFirst = FALSE
  /\ path = <<>> /\ nodes = 0 /\ live = {} /\ account = <<>> /\ verdict = {}

-----------------------------------------------------------------------------
(* A mistake: the outer function's stack is read but not removed. *)
ExitFunctionPeeks ==
  /\ path # <<>> /\ Top.kind = "function"
  /\ verdict' = Last(account) \cup If(openerStack # {}, "warned")
                  \cup If(Top.leaks \/ \E x \in live : x.open # {}, "leaked")
  /\ account' = Front(account)
  /\ live' = Top.saved
  /\ path' = Front(path)
  /\ openerStack' = Last(functionStacks)
  /\ contextStack' = PopContext
  /\ UNCHANGED <<functionStacks, loopStack, stackIndexCounter, maps, flags, nodes>>

(* onFunctionEnter, onFunctionExit *)
EnterFunction ==
  /\ nodes < MaxNodes
  /\ path = <<>> \/ InCode
  /\ path' = Append(path, Node("function", "body"))
  /\ nodes' = nodes + 1
  /\ live' = {[open |-> {}, to |-> Here]}
  /\ account' = Append(account, {}) /\ verdict' = {}
  /\ functionStacks' = Append(functionStacks, openerStack)
  /\ openerStack' = {}
  /\ yieldingAutoClosed' = FALSE /\ yieldingReportedFirst' = FALSE
  /\ contextStack' = Append(contextStack, [inFinally |-> FALSE])
  /\ UNCHANGED <<loopStack, stackIndexCounter, maps>>

ExitFunction ==
  /\ path # <<>> /\ Top.kind = "function"
  /\ verdict' = Last(account) \cup If(openerStack # {}, "warned")
                  \cup If(Top.leaks \/ \E x \in live : x.open # {}, "leaked")
  /\ account' = Front(account)
  /\ live' = Top.saved
  /\ path' = Front(path)
  /\ openerStack' = Last(functionStacks)
  /\ functionStacks' = Front(functionStacks)
  /\ contextStack' = PopContext
  /\ UNCHANGED <<loopStack, stackIndexCounter, maps, flags, nodes>>

(* onIfStatementEnter *)
EnterIf ==
  /\ CanEnter
  /\ path' = Append(path, Node("if", "then"))
  /\ nodes' = nodes + 1
  /\ contextStack' = PushContext(FALSE)
  /\ stackSnapshots' = With(stackSnapshots, nodes + 1, openerStack)
  /\ Unmarked
  /\ UNCHANGED <<openerStack, loopStack, functionStacks, stackIndexCounter, branchStacks, flags, live>>

(* onIfConsequentExit, before an alternate *)
Else ==
  /\ path # <<>> /\ Top.kind = "if" /\ Top.part = "then"
  /\ TopBecomes([Top EXCEPT !.part = "else", !.out = @ \cup live])
  /\ live' = Top.saved
  /\ RecordAndRestore(Top.id)
  /\ Unmarked
  /\ UNCHANGED <<loopStack, functionStacks, contextStack, stackIndexCounter, stackSnapshots, flags, nodes>>

(* mergeIfBranches. A mistake: without an else the stack is not restored. *)
MergeIfUnrestored(original, branches) ==
  IF Len(branches) = 1 THEN branches[1] ELSE Common(original, branches)
MergeIf(original, branches) ==
  IF Len(branches) = 1 THEN original ELSE Common(original, branches)

(* onIfStatementExit, and before it the exit of the last branch. *)
ExitIf ==
  /\ path # <<>> /\ Top.kind = "if"
  /\ LET original == stackSnapshots[Top.id]
         branches == Recorded(Top.id)
         single == Top.part = "then"
         new == \E b \in DOMAIN branches : NewIn(branches[b], original)
     IN  /\ openerStack' = MergeIf(original, branches)
         /\ live' = Top.out \cup live \cup (IF single THEN Top.saved ELSE {})
         /\ Mark(If(new \/ (~single /\ Partial(original, branches)), "warned")
                   \cup If(\/ new /\ (single => NewIn(original, openerStack))
                           \/ Exchanged(original, branches), "beyond"))
  /\ Settle(Top.id)
  /\ path' = Front(path)
  /\ contextStack' = PopContext
  /\ UNCHANGED <<loopStack, functionStacks, stackIndexCounter, flags, nodes>>

-----------------------------------------------------------------------------
(* onLoopEnter, onLoopExit *)
EnterLoop ==
  /\ CanEnter
  /\ path' = Append(path, Node("loop", "body"))
  /\ nodes' = nodes + 1
  /\ loopStack' = Append(loopStack, nodes + 1)
  /\ contextStack' = PushContext(FALSE)
  /\ Unmarked
  /\ UNCHANGED <<openerStack, functionStacks, stackIndexCounter, maps, flags, live>>

ExitLoop ==
  /\ path # <<>> /\ Top.kind = "loop"
  /\ live' = Top.saved \cup Top.out \cup live
  /\ path' = Front(path)
  /\ loopStack' = Front(loopStack)
  /\ contextStack' = PopContext
  /\ Unmarked
  /\ UNCHANGED <<openerStack, functionStacks, stackIndexCounter, maps, flags, nodes>>

(* onSwitchStatementEnter; the cases; onSwitchCaseExit *)
EnterSwitch ==
  /\ CanEnter
  /\ path' = Append(path, Node("switch", "between"))
  /\ nodes' = nodes + 1
  /\ contextStack' = PushContext(FALSE)
  /\ stackSnapshots' = With(stackSnapshots, nodes + 1, openerStack)
  /\ live' = {}
  /\ Unmarked
  /\ UNCHANGED <<openerStack, loopStack, functionStacks, stackIndexCounter, branchStacks, flags>>

BeginCase(default) ==
  /\ path # <<>> /\ Top.part = "between" /\ Top.cases < MaxCases
  /\ default => ~Top.default
  /\ TopBecomes([Top EXCEPT !.part = "case", !.cases = @ + 1, !.default = @ \/ default])
  /\ live' = Top.saved \cup live
  /\ Mark(If(live # {}, "beyond"))
  /\ UNCHANGED <<stacks, stackIndexCounter, maps, flags, nodes>>

EndCase ==
  /\ path # <<>> /\ Top.part = "case"
  /\ TopBecomes([Top EXCEPT !.part = "between"])
  /\ RecordAndRestore(Top.id)
  /\ Mark(If(NewIn(openerStack, stackSnapshots[Top.id]), "irregular"))
  /\ UNCHANGED <<loopStack, functionStacks, contextStack, stackIndexCounter, stackSnapshots, flags, nodes, live>>

(* mergeSwitchBranches *)
ExitSwitch ==
  /\ path # <<>> /\ Top.part = "between"
  /\ LET original == stackSnapshots[Top.id]
         branches == Branches(Top.id)
     IN  IF branches = <<>> THEN Unmarked /\ UNCHANGED openerStack
         ELSE IF Top.default /\ Len(branches) = Top.cases
         THEN /\ openerStack' = Common(original, branches)
              /\ Mark(If(Partial(original, branches), "warned")
                        \cup If(Exchanged(original, branches), "beyond"))
         ELSE /\ openerStack' = original
              /\ Unmarked
  /\ Settle(Top.id)
  /\ live' = Top.out \cup live \cup (IF Top.default THEN {} ELSE Top.saved)
  /\ path' = Front(path)
  /\ contextStack' = PopContext
  /\ UNCHANGED <<loopStack, functionStacks, stackIndexCounter, flags, nodes>>

-----------------------------------------------------------------------------
(* onTryStatementEnter and onTryBlockEnter. Where there is a catch clause, *)
(* the block may throw before it has opened or closed anything. Finally    *)
(* blocks hold no try statement of their own.                              *)
EnterTry(catch, finally) ==
  /\ CanEnter /\ ~InFinalizer
  /\ catch \/ finally
  /\ path' = Deliver(Append(path, [Node("try", "block") EXCEPT !.catch = catch, !.finally = finally]),
                     IF catch THEN Towards(Throw) ELSE {})
  /\ nodes' = nodes + 1
  /\ contextStack' = PushContext(FALSE)
  /\ stackSnapshots' = With(stackSnapshots, nodes + 1, openerStack)
  /\ Unmarked
  /\ UNCHANGED <<openerStack, loopStack, functionStacks, stackIndexCounter, branchStacks, flags, live>>

(* onTryBlockExit or onCatchClauseExit, and the enter handler of the part  *)
(* that follows                                                            *)
NextPart ==
  /\ path # <<>> /\ Top.kind = "try"
  /\ Top.part = "block" \/ (Top.part = "catch" /\ Top.finally)
  /\ LET part == IF Top.part = "block" /\ Top.catch THEN "catch" ELSE "finally"
         original == stackSnapshots[Top.id]
         branches == Recorded(Top.id)
     IN  /\ TopBecomes([Top EXCEPT !.part = part, !.out = @ \cup live])
         /\ live' = IF part = "catch" THEN Top.thrown ELSE Top.out \cup live
         /\ contextStack' = [contextStack EXCEPT ![Len(contextStack)].inFinally = part = "finally"]
         /\ Mark(If(NewIn(openerStack, original), "irregular")
                   \cup If(/\ part = "finally"
                           /\ \E b \in DOMAIN branches : NewIn(original, branches[b]), "beyond"))
  /\ RecordAndRestore(Top.id)
  /\ UNCHANGED <<loopStack, functionStacks, stackIndexCounter, stackSnapshots, flags, nodes>>

(* onCatchClauseExit and onTryStatementExit without a finally block *)
ExitCatch ==
  /\ path # <<>> /\ Top.part = "catch" /\ ~Top.finally
  /\ LET original == stackSnapshots[Top.id]
         branches == Recorded(Top.id)
     IN  /\ openerStack' = Common(original, branches)
         /\ Mark(If(Partial(original, branches), "warned")
                   \cup If(NewIn(openerStack, original), "irregular")
                   \cup If(Exchanged(original, branches), "beyond"))
  /\ Settle(Top.id)
  /\ live' = Top.out \cup live
  /\ path' = Front(path)
  /\ contextStack' = PopContext
  /\ UNCHANGED <<loopStack, functionStacks, stackIndexCounter, flags, nodes>>

(* The finally block pops its context; onTryStatementExit forgets the      *)
(* branches. Executions that were leaving go on leaving.                   *)
ExitFinally ==
  /\ path # <<>> /\ Top.part = "finally"
  /\ Settle(Top.id)
  /\ live' = {x \in live : x.to = Here}
  /\ path' = Deliver(Front(path), {x \in live : x.to # Here})
  /\ contextStack' = PopContext
  /\ Mark(If(NewIn(openerStack, stackSnapshots[Top.id]), "irregular"))
  /\ UNCHANGED <<openerStack, loopStack, functionStacks, stackIndexCounter, flags, nodes>>

-----------------------------------------------------------------------------
(* onEarlyExit: a return goes to the end of the function *)
EarlyExit(to) ==
  /\ InCode
  /\ path' = Deliver(path, Towards(to)) /\ live' = {}
  /\ IF openerStack = {} THEN Mark({"beyond"})
     ELSE Mark({"beyond", IF Last(contextStack).inFinally THEN "irregular" ELSE "warned"})
  /\ UNCHANGED <<stacks, stackIndexCounter, maps, flags, nodes>>
Return == EarlyExit(path[CHOOSE i \in Within : path[i].kind = "function"].id)
ThrowStatement == EarlyExit(Throw)

(* onBreakContinue: to a loop around, labelled or the innermost. Inside a  *)
(* finally block only jumps out of it are in the model.                    *)
BreakContinue(i) ==
  /\ InCode /\ i \in Within
  /\ path[i].kind = "loop"
  /\ \A j \in Within : path[j].part = "finally" => i < j
  /\ path' = Deliver(path, Towards(path[i].id)) /\ live' = {}
  /\ Mark({"beyond"} \cup If(\E c \in openerStack : path[i].id \in c.loops, "warned"))
  /\ UNCHANGED <<stacks, stackIndexCounter, maps, flags, nodes>>

(* onBreakContinue in a switch: the rule does nothing *)
BreakSwitch(i) ==
  /\ InCode /\ i \in Within
  /\ path[i].kind = "switch"
  /\ \A j \in Within : /\ (j > i => path[j].kind \notin {"loop", "switch"})
                        /\ (path[j].part = "finally" => i < j)
  /\ path' = Deliver(path, Towards(path[i].id)) /\ live' = {}
  /\ Mark(IF i = Len(path) THEN {} ELSE {"irregular", "beyond"})
  /\ UNCHANGED <<stacks, stackIndexCounter, maps, flags, nodes>>

-----------------------------------------------------------------------------
(* handleOpener *)
Call(opener) == [index |-> stackIndexCounter, opener |-> opener, loops |-> ToSet(loopStack)]
Open(opener) ==
  /\ InCode /\ stackIndexCounter < MaxOpeners
  /\ openerStack' = openerStack \cup {Call(opener)}
  /\ stackIndexCounter' = stackIndexCounter + 1
  /\ live' = {[x EXCEPT !.open = @ \cup {Call(opener)}] : x \in live}
  /\ Unmarked
  /\ UNCHANGED <<loopStack, functionStacks, contextStack, maps, flags, path, nodes>>

(* handleCloser: findLastIndex and splice, or reportUnmatchedCloser. A     *)
(* mistake: the first entry that matches is taken.                         *)
Matching(calls, closer) == {c \in calls : closer \in ClosersOf[c.opener]}
ClosedOldest(stack, closer) ==
  stack \ {c \in Matching(stack, closer) : \A d \in Matching(stack, closer) : c.index <= d.index}
Latest(calls) == CHOOSE c \in calls : \A d \in calls : d.index <= c.index
Closed(stack, closer) ==
  LET matching == Matching(stack, closer)
  IN  IF matching = {} THEN stack ELSE stack \ {Latest(matching)}
Ends(x, closer) ==
  {c \in Matching(x.open, closer) : \A d \in Matching(x.open, closer) : d.index <= c.index}
Outside(c) == loopStack # <<>> /\ Last(loopStack) \notin c.loops

Close(closer) ==
  /\ InCode
  /\ LET matching == Matching(openerStack, closer)
     IN  /\ openerStack' = Closed(openerStack, closer)
         /\ yieldingReportedFirst' = (yieldingReportedFirst \/ (matching = {} /\ yieldingAutoClosed))
         /\ Mark(If(\E x \in live : Ends(x, closer) = {}, "wrong")
                   \cup If(matching # {} /\ Outside(Latest(matching)), "irregular"))
  /\ live' = {[x EXCEPT !.open = @ \ Ends(x, closer)] : x \in live}
  /\ UNCHANGED <<loopStack, functionStacks, contextStack, stackIndexCounter, maps,
                 yieldingAutoClosed, path, nodes>>

(* A call that yields. The platform closes its own calls; the rule reports *)
(* one entry and drops every entry, those of other pairs without a word.   *)
Dropped == \E c, d \in openerStack : c.opener # d.opener \/ Outside(c)
Yield ==
  /\ InCode
  /\ \E c \in openerStack : c.opener \in Roblox
  /\ openerStack' = {}
  /\ yieldingAutoClosed' = TRUE
  /\ live' = {[x EXCEPT !.open = {c \in @ : c.opener \notin Roblox}] : x \in live}
  /\ Mark({"yielded", "wrong"} \cup If(Dropped, "irregular"))
  /\ UNCHANGED <<loopStack, functionStacks, contextStack, stackIndexCounter, maps,
                 yieldingReportedFirst, path, nodes>>

Next ==
  \/ EnterFunction \/ ExitFunction
  \/ EnterIf \/ Else \/ ExitIf
  \/ EnterLoop \/ ExitLoop
  \/ EnterSwitch \/ (\E default \in BOOLEAN : BeginCase(default)) \/ EndCase \/ ExitSwitch
  \/ (\E catch, finally \in BOOLEAN : EnterTry(catch, finally))
  \/ NextPart \/ ExitCatch \/ ExitFinally
  \/ Return \/ ThrowStatement
  \/ (\E i \in DOMAIN path : BreakContinue(i) \/ BreakSwitch(i))
  \/ (\E opener \in Openers : Open(opener)) \/ (\E closer \in Closers : Close(closer))
  \/ Yield

Spec == Init /\ [][Next]_vars

-----------------------------------------------------------------------------
Calls == [index : 0..MaxOpeners - 1, opener : Openers, loops : SUBSET (1..MaxNodes)]
Ids(kinds) == {path[i].id : i \in {j \in DOMAIN path : path[j].kind \in kinds}}

(* The rule's bookkeeping follows the walk: one context per open node, the *)
(* flag that return and throw read says whether this is a finally block,   *)
(* the loops are the open ones, and the two maps remember no closed node.  *)
FollowsWalk ==
  /\ Len(contextStack) = Len(path)
  /\ path # <<>> => Last(contextStack).inFinally = InFinalizer
  /\ ToSet(loopStack) = Ids({"loop"})
  /\ DOMAIN stackSnapshots = Ids({"if", "switch", "try"})
  /\ DOMAIN branchStacks \subseteq DOMAIN stackSnapshots

TypeOK ==
  /\ FollowsWalk
  /\ openerStack \subseteq Calls
  /\ loopStack \in Seq(1..MaxNodes)
  /\ functionStacks \in Seq(SUBSET Calls)
  /\ contextStack \in Seq([inFinally : BOOLEAN])
  /\ stackIndexCounter \in 0..MaxOpeners /\ nodes \in 0..MaxNodes
  /\ stackSnapshots \in [DOMAIN stackSnapshots -> SUBSET Calls]
  /\ branchStacks \in [DOMAIN branchStacks -> Seq(SUBSET Calls)]
  /\ yieldingAutoClosed \in BOOLEAN /\ yieldingReportedFirst \in BOOLEAN
  /\ live \subseteq [open : SUBSET Calls, to : 0..Throw]
  /\ Len(account) = Len(functionStacks) /\ verdict \subseteq Marks

(* If some execution leaves the function with a call still open, the rule  *)
(* warns of a call left open in that function.                             *)
EveryLeakReported ==
  "leaked" \in verdict /\ "irregular" \notin verdict /\ ~AllowConditionalClosers => "warned" \in verdict

(* A function without early exits is warned of only if some execution      *)
(* leaves with an open call, closes what is not open, or yields.           *)
EveryWarningJustified ==
  "warned" \in verdict /\ verdict \cap {"irregular", "beyond"} = {} =>
    "leaked" \in verdict \/ "wrong" \in verdict

(* Callbacks have separate scopes: an unmatched closer is excused, as the  *)
(* closer of a call that a yield has closed, only in a function that has   *)
(* itself yielded.                                                         *)
ScopesAreSeparate ==
  path # <<>> /\ yieldingAutoClosed /\ ~yieldingReportedFirst => "yielded" \in Last(account)
=============================================================================
