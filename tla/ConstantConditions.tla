------------------------- MODULE ConstantConditions -------------------------
(***************************************************************************)
(* The rule no-constant-condition-with-break on one test: of an if or a    *)
(* conditional expression, or of a loop, whose body it then searches for a *)
(* way out. Expressions are built bottom up; each carries what the rule    *)
(* computes of it and what it means. The body is walked in the order of    *)
(* the text, beside its executions. Where they need not evaluate a         *)
(* condition both outcomes happen; any statement may throw.                *)
(***************************************************************************)
EXTENDS ConstantTests, SequencesExt, FiniteSets

CONSTANTS MaxOperands, MaxOperators, MaxStatements, MaxJumps    \* bounds

VARIABLES
  operators,                   \* how many operators the expressions have
  entered, jumps, reach,       \* the executions of the body
  exit                         \* the rule: hasLoopExit of what was walked

building == <<operands, operators>>
body == <<blocks, entered, jumps, reach, exit, left, overridden>>
vars == <<building, conditionVerdict, body>>

-----------------------------------------------------------------------------
BooleanOf(v) == IF v = Unknown THEN Unknown ELSE Truth(Truthy(v))

(* An expression: the rule's getConstantValue, getConstantBoolean and      *)
(* hasConfiguredLoopExit of it, and its value for each value of x. Its     *)
(* value is misread where && and || take a truthy operand for a falsy one; *)
(* unsound: its boolean rests on such a value, or on null standing for     *)
(* itself before ??.                                                       *)
Expression(value, boolean, means, exits, misread, unsound) ==
  [value |-> value, boolean |-> boolean, means |-> means, exits |-> exits,
   misread |-> misread, unsound |-> unsound]
Operand(value, means, exits) ==
  Expression(value, BooleanOf(value), means, exits, FALSE, FALSE)
Same(v) == [x \in Environments |-> v]
Variable(exits) == Operand(Unknown, [x \in Environments |-> x], exits)
Literals ==
  {Undefined, Null, Truth(FALSE), Truth(TRUE), Value("number", 0), Value("number", 1), Value("text", 0)}

GetConstantValue ==
  { Operand(v, Same(v), FALSE) : v \in Literals }
  \cup { Operand(Object, Same(Object), FALSE),        \* array, object
         Operand(Truth(TRUE), Same(Object), FALSE),   \* function, class
         Variable(FALSE), Variable(TRUE) }            \* x, and a configured call

(* Unary operators. The arithmetic ones are known for numbers only. *)
Computed(operator, v) ==
  CASE operator = "typeof" -> Value("text", 1)
    [] operator = "void" -> Undefined
    [] operator = "!" -> Truth(~ Truthy(v))
    [] operator = "-" -> Value("number", 0 - v.n)
    [] operator = "~" -> Value("number", 0 - v.n - 1)
IsAbout(operator, e) == operator \in {"-", "~"} => e.value.type = "number" /\ ~ e.misread
GetUnaryConstantValue(operator, e) ==
  LET asked == operator \notin {"typeof", "void"}
      known == e.value # Unknown \/ ~ asked
      value == IF known THEN Computed(operator, e.value) ELSE Unknown
  IN  Expression(value, BooleanOf(value), [x \in Environments |-> Computed(operator, e.means[x])],
                 e.exits, asked /\ e.misread, asked /\ e.misread)

Takes(operator, v) ==     \* the left operand decides
  CASE operator = "&&" -> ~ Truthy(v) [] operator = "||" -> Truthy(v)
    [] operator = "??" -> v \notin {Undefined, Null}
GetLogicalConstantValue(operator, l, r) ==
  IF \/ l.value = Unknown
     \/ (operator = "&&" /\ l.value # Truth(TRUE))
     \/ (operator = "||" /\ l.value = Truth(TRUE))
     \/ (operator = "??" /\ l.value # Undefined)
  THEN l.value ELSE r.value
GetLogicalConstantBoolean(operator, l, r) ==
  IF l.boolean = Unknown \/ (operator = "??" /\ l.value = Unknown) THEN Unknown
  ELSE IF \/ (operator = "&&" /\ ~ Truthy(l.boolean))
          \/ (operator = "||" /\ Truthy(l.boolean)) THEN l.boolean
  ELSE IF operator = "??" /\ l.value # Undefined THEN BooleanOf(l.value)
  ELSE r.boolean
Logical(operator, l, r) ==
  Expression(GetLogicalConstantValue(operator, l, r), GetLogicalConstantBoolean(operator, l, r),
             [x \in Environments |-> IF Takes(operator, l.means[x]) THEN l.means[x] ELSE r.means[x]],
             l.exits \/ r.exits,
             \/ l.misread \/ r.misread
             \/ (operator # "??" /\ Truthy(l.value) /\ l.value # Truth(TRUE))
             \/ (operator = "??" /\ l.value = Null),
             \/ l.unsound \/ r.unsound
             \/ (operator = "??" /\ (l.misread \/ l.value = Null)))

GetConditionalConstantBoolean(t, c, a) ==
  IF t.boolean # Unknown THEN (IF Truthy(t.boolean) THEN c.boolean ELSE a.boolean)
  ELSE IF c.boolean = a.boolean THEN c.boolean ELSE Unknown
Conditional(t, c, a) ==
  Expression(Unknown, GetConditionalConstantBoolean(t, c, a),
             [x \in Environments |-> IF Truthy(t.means[x]) THEN c.means[x] ELSE a.means[x]],
             t.exits \/ c.exits \/ a.exits, FALSE, t.unsound \/ c.unsound \/ a.unsound)

-----------------------------------------------------------------------------
Building == conditionVerdict = "none" /\ blocks = <<>>
Begin ==
  /\ Building /\ Len(operands) < MaxOperands
  /\ \E e \in GetConstantValue : operands' = Append(operands, e)
  /\ UNCHANGED <<operators, conditionVerdict, body>>

(* Replace the last n operands by one. *)
Build(n, result) ==
  /\ Building /\ operators < MaxOperators /\ n <= Len(operands)
  /\ operands' = Append(SubSeq(operands, 1, Len(operands) - n), result)
  /\ operators' = operators + 1 /\ UNCHANGED <<conditionVerdict, body>>
FromLast(k) == operands[Len(operands) - k]
Unary ==
  \E operator \in {"typeof", "void", "!", "-", "~"} :
    /\ operands # <<>> /\ IsAbout(operator, FromLast(0))
    /\ Build(1, GetUnaryConstantValue(operator, FromLast(0)))
Binary == \E operator \in {"&&", "||", "??"} : Build(2, Logical(operator, FromLast(1), FromLast(0)))
Sequence == Build(2, [FromLast(0) EXCEPT !.exits = @ \/ FromLast(1).exits])
Choice == Build(3, Conditional(FromLast(2), FromLast(1), FromLast(0)))

Test == operands[1]
Tested == Building /\ Len(operands) = 1 /\ UNCHANGED building
Settle(reported) == conditionVerdict' = IF reported THEN "reported" ELSE "silent"
ReportConstantCondition ==
  Tested /\ Settle(Test.boolean # Unknown) /\ UNCHANGED body

-----------------------------------------------------------------------------
(* The body of a loop. reach holds where the executions at this place are  *)
(* bound: Here, or elsewhere once a finally block is done. Statement 1 is  *)
(* the loop; 0 is a labelled statement around it.                          *)
Block(kind, part, labelled) ==
  [id |-> entered + 1, kind |-> kind, part |-> part, labelled |-> labelled, at |-> entered + jumps,
   saved |-> reach, out |-> {}, catch |-> FALSE, finally |-> FALSE]
Top == blocks[Len(blocks)]
Outer == Front(blocks)
WithTop(top) == [blocks EXCEPT ![Len(blocks)] = top]

Init ==
  /\ operands = <<>> /\ operators = 0 /\ conditionVerdict = "none"
  /\ blocks = <<>> /\ entered = 0 /\ jumps = 0 /\ reach = {Here}
  /\ exit = FALSE /\ left = {} /\ overridden = FALSE

(* shouldReportLoop looks at the body only where the test is true and      *)
(* calls no configured exit. What it was is of no consequence any more.    *)
ReportLoop ==
  /\ Tested /\ \/ ~ Truthy(Test.boolean) \/ Test.exits
  /\ Settle(Test.boolean # Unknown /\ ~ Truthy(Test.boolean)) /\ UNCHANGED body
EnterLoop(labelled) ==
  /\ Building /\ Len(operands) = 1 /\ Truthy(Test.boolean) /\ ~ Test.exits
  /\ blocks' = <<Block("loop", "body", labelled)>> /\ entered' = 1
  /\ operands' = <<>> /\ operators' = 0
  /\ UNCHANGED <<conditionVerdict, jumps, reach, exit, left, overridden>>

(* Statements that nothing reaches are left out: the rule counts a break   *)
(* in them as a way out.                                                   *)
InCode == conditionVerdict = "none" /\ blocks # <<>> /\ reach # {}
Finalizing(f) == f.kind = "try" /\ f.part \in {"block", "catch"} /\ f.finally
Catching(f, to) == f.kind = "try" /\ f.part = "block" /\ f.catch /\ to = Throw
Targets(f, to) == to \in {Break(f.id), Continue(f.id)}
(* Who of the open statements p stops a jump; 0: nobody. *)
Stopper(p, to) ==
  LET stops == {i \in DOMAIN p : Finalizing(p[i]) \/ Catching(p[i], to) \/ Targets(p[i], to)}
  IN  IF stops = {} THEN 0 ELSE CHOOSE i \in stops : \A j \in stops : j <= i
Delivered(p, tos) ==
  [i \in DOMAIN p |->
    [p[i] EXCEPT !.out = @ \cup
      { IF to = Break(p[i].id) THEN Here ELSE to :
          to \in {t \in tos : Stopper(p, t) = i /\ ~ Catching(p[i], t)
                              /\ (Finalizing(p[i]) \/ t # Continue(p[i].id))} }]]
(* A break reaches the loop, or a jump nobody. *)
Leaving(p, tos) == {to \in tos \ {Throw} : Stopper(p, to) = 0 \/ (to = Break(1) /\ Stopper(p, to) = 1)}

Enter(block) ==
  /\ InCode /\ entered <= MaxStatements
  /\ blocks' = Append(blocks, block) /\ entered' = entered + 1
  /\ UNCHANGED <<building, conditionVerdict, jumps, reach, exit, left, overridden>>
Leaves(kind) ==
  /\ conditionVerdict = "none" /\ Len(blocks) > 1
  /\ Top.kind = kind /\ entered + jumps > Top.at + 1
Inside == UNCHANGED <<building, conditionVerdict, entered, jumps, exit, left, overridden>>

If == Enter(Block("if", "then", FALSE))
Else ==
  /\ Leaves("if") /\ Top.part = "then"
  /\ blocks' = WithTop([Top EXCEPT !.part = "else", !.out = reach])
  /\ reach' = Top.saved /\ Inside
EndIf ==
  /\ Leaves("if") /\ blocks' = Outer
  /\ reach' = Top.out \cup reach \cup (IF Top.part = "then" THEN Top.saved ELSE {}) /\ Inside
InnerLoop == \E labelled \in BOOLEAN : Enter(Block("loop", "body", labelled))
EndInnerLoop ==
  /\ Leaves("loop") /\ blocks' = Outer /\ reach' = Top.saved \cup Top.out \cup reach /\ Inside
Labelled == Enter(Block("block", "body", TRUE))
EndLabelled == Leaves("block") /\ blocks' = Outer /\ reach' = Top.out \cup reach /\ Inside
Switch == Enter(Block("switch", "body", FALSE))
EndSwitch ==
  /\ Leaves("switch") /\ blocks' = Outer /\ reach' = Top.saved \cup Top.out \cup reach /\ Inside
(* What a finally block is entered with includes an exception. There is no *)
(* try statement in a finally block.                                       *)
Try(catch, finally) ==
  /\ (catch \/ finally) /\ \A k \in DOMAIN blocks : blocks[k].part # "finally"
  /\ Enter([Block("try", "block", FALSE) EXCEPT !.catch = catch, !.finally = finally, !.out = {Throw}])
Catch ==
  /\ Leaves("try") /\ Top.part = "block" /\ Top.catch
  /\ blocks' = WithTop([Top EXCEPT !.part = "catch", !.out = @ \cup reach])
  /\ reach' = Top.saved /\ Inside
Finally ==
  /\ Leaves("try") /\ Top.finally /\ Top.part = (IF Top.catch THEN "catch" ELSE "block")
  /\ blocks' = WithTop([Top EXCEPT !.part = "finally", !.out = {}])
  /\ reach' = Top.out \cup reach /\ Inside
EndTry ==
  LET out == IF Top.finally THEN reach ELSE (Top.out \cup reach) \ {Throw}
      bound == out \ {Here}
  IN  /\ Leaves("try") /\ Top.part = (IF Top.finally THEN "finally" ELSE "catch")
      /\ blocks' = Delivered(Outer, bound) /\ left' = left \cup Leaving(Outer, bound)
      /\ reach' = out \cap {Here}
      /\ UNCHANGED <<building, conditionVerdict, entered, jumps, exit, overridden>>

(* A mistake: a break out of a switch is taken for one out of the loop.    *)
BreaksAnyLoop(labelled, i) ==
  IF labelled THEN i = 1 ELSE \A j \in DOMAIN blocks : j > 1 => blocks[j].kind # "loop"

(* breaksTargetLoop. A label belongs to the loop itself or to another      *)
(* statement.                                                              *)
BreaksTargetLoop(labelled, i) ==
  IF labelled THEN i = 1 ELSE \A j \in DOMAIN blocks : j > 1 => blocks[j].kind \notin {"loop", "switch"}

(* A jump; in a finally block only one that leaves it. *)
Jump(to, i, exits) ==
  /\ InCode /\ jumps < MaxJumps /\ jumps' = jumps + 1
  /\ \A k \in DOMAIN blocks : blocks[k].part = "finally" => i < k
  /\ exit' = (exit \/ exits)
  /\ blocks' = Delivered(blocks, {to}) /\ left' = left \cup Leaving(blocks, {to})
  /\ overridden' = (overridden \/ reach \cap {Here, Throw} # reach)
  /\ reach' = {}
  /\ UNCHANGED <<building, conditionVerdict, entered>>
Unlabelled(i, kinds) ==
  blocks[i].kind \in kinds /\ \A j \in i + 1 .. Len(blocks) : blocks[j].kind \notin kinds
BreakStatement ==
  \/ \E i \in DOMAIN blocks :
       \/ Unlabelled(i, {"loop", "switch"}) /\ Jump(Break(blocks[i].id), i, BreaksTargetLoop(FALSE, i))
       \/ blocks[i].labelled /\ Jump(Break(blocks[i].id), i, BreaksTargetLoop(TRUE, i))
  \/ Jump(Break(0), 0, BreaksTargetLoop(TRUE, 0))
ContinueStatement ==
  \E i \in DOMAIN blocks :
    /\ blocks[i].kind = "loop" /\ (blocks[i].labelled \/ Unlabelled(i, {"loop"}))
    /\ Jump(Continue(blocks[i].id), i, FALSE)
ReturnStatement == Jump(Return, 0, TRUE)
ThrowStatement == Jump(Throw, 0, FALSE)
(* A call that the options say leaves the loop. *)
ExitCall ==
  /\ InCode /\ jumps < MaxJumps /\ jumps' = jumps + 1
  /\ exit' = TRUE /\ left' = left \cup {Call}
  /\ UNCHANGED <<building, conditionVerdict, blocks, entered, reach, overridden>>

EndLoop ==
  /\ conditionVerdict = "none" /\ Len(blocks) = 1 /\ Settle(~ exit) /\ UNCHANGED <<building, body>>

Judge == Begin \/ Unary \/ Binary \/ Sequence \/ Choice \/ ReportConstantCondition \/ ReportLoop
Walk ==
  \/ \E labelled \in BOOLEAN : EnterLoop(labelled)
  \/ If \/ Else \/ EndIf \/ InnerLoop \/ EndInnerLoop \/ Labelled \/ EndLabelled \/ Switch \/ EndSwitch
  \/ (\E catch, finally \in BOOLEAN : Try(catch, finally)) \/ Catch \/ Finally \/ EndTry
  \/ BreakStatement \/ ContinueStatement \/ ReturnStatement \/ ThrowStatement \/ ExitCall \/ EndLoop
Next == Judge \/ Walk
Spec == Init /\ [][Next]_vars

-----------------------------------------------------------------------------
(* Values have their types; nothing is known of a loop before it begins.   *)
TypeOK ==
  /\ conditionVerdict \in {"none", "silent", "reported"}
  /\ Len(operands) <= MaxOperands /\ operators <= MaxOperators
  /\ entered <= MaxStatements + 1 /\ jumps <= MaxJumps
  /\ blocks = <<>> => reach = {Here} /\ ~ exit /\ left = {}

=============================================================================
