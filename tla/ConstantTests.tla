--------------------------- MODULE ConstantTests ---------------------------
(***************************************************************************)
(* Expressions under test and the open statements of a loop's body, and    *)
(* what no-constant-condition-with-break should say of them;               *)
(* ConstantConditions.tla builds the expressions and walks the body.       *)
(***************************************************************************)
EXTENDS Integers, Sequences

VARIABLES
  operands,                    \* the expressions built so far
  conditionVerdict,            \* "none", "silent" or "reported"
  blocks,                      \* the statements that are open
  left, overridden             \* jumps that left the loop; a finally block stopped one

(* Values, as far as the operators tell them apart; n is 0 where the value *)
(* is falsy. Unknown: not constant.                                        *)
Value(type, n) == [type |-> type, n |-> n]
Unknown == Value("unknown", 0)
Undefined == Value("undefined", 0)
Null == Value("null", 0)
Object == Value("object", 1)
Truth(b) == Value("boolean", IF b THEN 1 ELSE 0)
Truthy(v) == v.n # 0

(* x may be any of these. *)
Environments == {Undefined, Null, Truth(FALSE), Truth(TRUE)}

(* Where executions are bound. *)
Here == <<"here", 0>>
Throw == <<"throw", 0>>
Return == <<"return", 0>>
Call == <<"call", 0>>
Break(id) == <<"break", id>>
Continue(id) == <<"continue", id>>

-----------------------------------------------------------------------------
(* A test that the rule calls constant has the same truth value whatever   *)
(* the variables hold, unless a negation or ?? asks for a value that       *)
(* getLogicalConstantValue misreads.                                       *)
ConstantsAreConstant ==
  blocks = <<>> =>
    \A i \in DOMAIN operands :
      operands[i].boolean # Unknown /\ ~ operands[i].unsound =>
        \A x \in Environments : Truthy(operands[i].means[x]) = Truthy(operands[i].boolean)

(* A loop without end is reported exactly if no execution leaves it by its *)
(* own break, a return or a configured call. Jumps to statements around it *)
(* do not count for the rule, and a finally block may stop a jump.         *)
Exits == {Break(1), Return, Call}
EndlessLoopsReported ==
  conditionVerdict # "none" /\ blocks # <<>> =>
    /\ left \cap Exits # {} => conditionVerdict = "silent"
    /\ conditionVerdict = "silent" /\ ~ overridden => left \cap Exits # {}

(* The rule does not report a test that is not constant, and reports a     *)
(* constant loop exactly if it cannot be left.                             *)
TestsAreJudged == ConstantsAreConstant /\ EndlessLoopsReported
=============================================================================
