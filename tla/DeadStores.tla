----------------------------- MODULE DeadStores -----------------------------
(***************************************************************************)
(* The rule no-dead-store for one local variable of one function. The rule *)
(* sees the variable's usages in the order of the text, each with the      *)
(* branches it stands in, and reports a write that no usage observes.      *)
(*                                                                         *)
(* The function is generated by a walk of its statements. Beside the       *)
(* usages the walk keeps the executions: reach holds the writes whose      *)
(* value the variable may have where the walk is, and observed the writes  *)
(* whose value some execution reads.                                       *)
(***************************************************************************)
EXTENDS Integers, Sequences, FiniteSets, SequencesExt

CONSTANT Shapes    \* bounds on the function: which statements and writes, and how many

VARIABLES
  shape,
  blocks,     \* the statements that are open, outermost first
  entered, jumps,
  usages,     \* the variable's references, in the order of the text
  elses, transferring,   \* ifs with an else; ifs whose consequent ends with a jump
  reach, observed, updated, missed,   \* the executions
  reports

program == <<shape, blocks, entered, jumps, usages, elses, transferring>>
executions == <<reach, observed, updated, missed>>
vars == <<program, executions, reports>>

-----------------------------------------------------------------------------
(* The executions. An element of reach is a write and a destination: Here, *)
(* or where a jump is on its way to through finally blocks. The write      *)
(* -id stands for whatever an earlier iteration of loop id left.           *)
Here == 0
Throw == 1
Return == 2
Break(id) == 2 * id + 1
Continue(id) == 2 * id + 2
Towards(to) == {[x EXCEPT !.to = to] : x \in reach}
Writes(xs) == {x.def : x \in xs}

Catching(f, x) == f.kind = "try" /\ f.part = "block" /\ f.catch /\ x.to = Throw
Finalizing(f) == f.kind = "try" /\ f.part \in {"block", "catch"} /\ f.finally
Stops(f, x) == Catching(f, x) \/ Finalizing(f) \/ x.to \in {Break(f.id), Continue(f.id)}
(* Where the elements xs end up among the open statements p. *)
Deliver(p, xs) ==
  LET Stopped(i) == {x \in xs : Stops(p[i], x) /\ \A j \in i + 1..Len(p) : ~Stops(p[j], x)}
      Landed(x) == [x EXCEPT !.to = Here]
  IN  [i \in DOMAIN p |->
         LET here == Stopped(i)
             caught == {x \in here : Catching(p[i], x)}
             back == {x \in here : x.to = Continue(p[i].id)}
             broken == {x \in here : x.to = Break(p[i].id)}
         IN  [p[i] EXCEPT
                !.thrown = @ \cup {Landed(x) : x \in caught},
                !.back = @ \cup {Landed(x) : x \in back},
                !.out = @ \cup {Landed(x) : x \in broken} \cup (here \ (caught \cup back \cup broken))]]

(* Any statement may throw before it has an effect. *)
MayThrow(p) == Deliver(p, Towards(Throw))

Size == entered + jumps + Len(usages)
Block(kind, part) ==
  [id |-> entered + 1, at |-> Size + 1, kind |-> kind, part |-> part, saved |-> reach,
   out |-> {}, back |-> {}, thrown |-> {}, guards |-> {}, jumped |-> {},
   catch |-> FALSE, finally |-> FALSE, default |-> FALSE, cases |-> 0]
Top == blocks[Len(blocks)]
WithTop(top) == [blocks EXCEPT ![Len(blocks)] = top]
Outer == Front(blocks)
(* Between the parts of a switch or try there are no statements. *)
InCode == reports = {0} /\ reach # {} /\ Top.part # "cases"

Init ==
  /\ shape \in Shapes
  /\ entered = 0 /\ jumps = 0 /\ usages = <<>> /\ elses = {} /\ transferring = {}
  /\ reach = {[def |-> 0, to |-> Here]} /\ observed = {} /\ updated = {} /\ missed = {}
  /\ blocks = <<[id |-> 0, at |-> 0, kind |-> "function", part |-> "body", saved |-> {},
                 out |-> {}, back |-> {}, thrown |-> {}, guards |-> {}, jumped |-> {},
                 catch |-> FALSE, finally |-> FALSE, default |-> FALSE, cases |-> 0]>>
  /\ reports = {0}    \* 0: not computed yet

-----------------------------------------------------------------------------
(* The branches a place stands in (branchPath), as a set of steps. After   *)
(* an if without else that ends with a jump, the rest of the block is its  *)
(* implicit else (getImplicitElseSteps).                                   *)
Arm(f) ==
  CASE f.kind = "if" -> {[control |-> f.id, arm |-> f.part]}
    [] f.kind = "loop" -> {[control |-> f.id, arm |-> "body"]}
    [] f.kind = "switch" -> {[control |-> f.id, arm |-> ToString(f.cases)]}
    [] f.kind = "try" /\ f.part = "block" -> {[control |-> f.id, arm |-> "try"]}
    [] f.kind = "try" /\ f.part = "catch" -> {[control |-> f.id, arm |-> "catch"]}
    [] OTHER -> {}
BranchPath ==
  UNION {Arm(blocks[i]) \cup {[control |-> g, arm |-> "else"] : g \in blocks[i].guards}
           : i \in DOMAIN blocks}
Ids(Test(_)) == {blocks[i].id : i \in {j \in DOMAIN blocks : Test(blocks[j])}}

Usage(kind) ==
  [kind |-> kind, steps |-> BranchPath,
   loops |-> Ids(LAMBDA f : f.kind = "loop"),
   tries |-> Ids(LAMBDA f : f.kind = "try" /\ f.part = "block"),
   handlers |-> Ids(LAMBDA f : f.kind = "try" /\ f.part \in {"catch", "finally"})]

IsRead(u) == u.kind \in {"read", "compound"}
IsWrite(u) == u.kind # "read"

Read ==
  /\ InCode /\ Len(usages) < shape.usages
  /\ usages' = Append(usages, Usage("read"))
  /\ observed' = observed \cup Writes(reach)
  /\ blocks' = MayThrow(blocks)
  /\ UNCHANGED <<shape, entered, jumps, elses, transferring, reach, updated, missed, reports>>

(* v = f(), v = f(v), v += f() and v = null. The second has its read after *)
(* its write in the text.                                                  *)
Write(kind) ==
  LET def == Len(usages) + 1
      text == IF kind = "self" THEN <<Usage("self"), Usage("read")>> ELSE <<Usage(kind)>>
  IN  /\ InCode /\ Len(usages) + Len(text) <= shape.usages
      /\ usages' = usages \o text
      /\ observed' = IF kind = "self" THEN observed \cup Writes(reach) ELSE observed
      /\ updated' = IF kind = "compound" THEN updated \cup Writes(reach) ELSE updated
      /\ reach' = {[x EXCEPT !.def = def] : x \in reach}
      /\ blocks' = MayThrow(blocks)
      /\ UNCHANGED <<shape, entered, jumps, elses, transferring, missed, reports>>

-----------------------------------------------------------------------------
(* The statements. *)
Enter(block) ==
  /\ InCode /\ entered < shape.statements /\ block.kind \in shape.kinds
  /\ entered' = entered + 1
  /\ blocks' = Append(MayThrow(blocks), block)
  /\ UNCHANGED <<shape, jumps, usages, elses, transferring, observed, updated, missed, reports>>
(* No statement is empty. *)
Leaves(kind) == reports = {0} /\ Top.kind = kind /\ (Top.part = "cases" \/ Size > Top.at)
Settled == UNCHANGED <<shape, entered, jumps, usages, observed, updated, reports>>

If == Enter(Block("if", "then")) /\ UNCHANGED reach
Else ==
  /\ Leaves("if") /\ Top.part = "then"
  /\ blocks' = WithTop([Top EXCEPT !.part = "else", !.out = @ \cup reach, !.guards = {}, !.jumped = {}])
  /\ elses' = elses \cup {Top.id}
  /\ transferring' = IF Top.jumped # {} THEN transferring \cup {Top.id} ELSE transferring
  /\ missed' = missed \cup Top.jumped
  /\ reach' = Top.saved
  /\ Settled
EndIf ==
  LET guard == Top.part = "then" /\ Top.jumped # {}
      below == Outer[Len(Outer)]
  IN  /\ Leaves("if")
      /\ blocks' = IF guard THEN [Outer EXCEPT ![Len(Outer)].guards = @ \cup {Top.id}] ELSE Outer
      /\ transferring' = IF guard THEN transferring \cup {Top.id} ELSE transferring
      /\ reach' = Top.out \cup reach \cup (IF Top.part = "then" THEN Top.saved ELSE {})
      /\ Settled /\ UNCHANGED <<elses, missed>>

(* A loop's body sees what was written before it and by itself. *)
Loop ==
  /\ Enter(Block("loop", "body"))
  /\ reach' = reach \cup {[x EXCEPT !.def = 0 - (entered + 1)] : x \in reach}
EndLoop ==
  LET mark == 0 - Top.id
      back == {x \in Top.back \cup reach : x.def # mark}
      Expand(xs) == {x \in xs : x.def # mark}
                    \cup {[def |-> b.def, to |-> x.to] : b \in back, x \in {y \in xs : y.def = mark}}
      Resolve(ws) == (ws \ {mark}) \cup (IF mark \in ws THEN Writes(back) ELSE {})
  IN  /\ Leaves("loop")
      /\ blocks' = [i \in DOMAIN Outer |->
                     [Outer[i] EXCEPT !.out = Expand(@), !.back = Expand(@), !.thrown = Expand(@),
                                      !.jumped = Resolve(@)]]
      /\ observed' = Resolve(observed) /\ missed' = Resolve(missed) /\ updated' = updated \ {mark}
      /\ reach' = Expand(Top.saved \cup back \cup Top.out)
      /\ UNCHANGED <<shape, entered, jumps, usages, elses, transferring, reports>>

Switch == Enter(Block("switch", "cases")) /\ UNCHANGED reach
Case(default) ==
  /\ Leaves("switch") /\ ~Top.default /\ Top.cases < 2
  /\ blocks' = WithTop([Top EXCEPT !.part = "case", !.cases = @ + 1, !.default = default, !.guards = {}])
  /\ missed' = IF Top.cases = 0 THEN missed ELSE missed \cup (Writes(reach) \ Writes(Top.saved))
  /\ reach' = reach \cup Top.saved
  /\ Settled /\ UNCHANGED <<elses, transferring>>
EndSwitch ==
  /\ Leaves("switch") /\ Top.part = "case"
  /\ blocks' = Outer
  /\ reach' = Top.out \cup reach \cup (IF Top.default THEN {} ELSE Top.saved)
  /\ Settled /\ UNCHANGED <<elses, transferring, missed>>

Try(catch, finally) ==
  /\ catch \/ finally
  /\ Enter([Block("try", "block") EXCEPT !.catch = catch, !.finally = finally]) /\ UNCHANGED reach
Catch ==
  /\ Leaves("try") /\ Top.part = "block" /\ Top.catch
  /\ blocks' = WithTop([Top EXCEPT !.part = "catch", !.out = @ \cup reach, !.guards = {}])
  /\ reach' = Top.thrown
  /\ missed' = missed \cup (Writes(Top.thrown) \ Writes(Top.saved))
  /\ Settled /\ UNCHANGED <<elses, transferring>>
Finally ==
  /\ Leaves("try") /\ Top.finally /\ Top.part = (IF Top.catch THEN "catch" ELSE "block")
  /\ blocks' = WithTop([Top EXCEPT !.part = "finally", !.out = {}, !.guards = {}])
  /\ reach' = Top.out \cup reach
  /\ missed' = IF Top.part = "block" THEN missed
               ELSE missed \cup (Writes({x \in Top.out : x.to # Here}) \ Writes(Top.thrown))
  /\ Settled /\ UNCHANGED <<elses, transferring>>
EndTry ==
  LET all == Top.out \cup reach
      normal == {x \in all : x.to = Here}
  IN  /\ Leaves("try")
      /\ Top.part = (IF Top.finally THEN "finally" ELSE "catch")
      /\ blocks' = Deliver(Outer, all \ normal)
      /\ reach' = normal
      /\ Settled /\ UNCHANGED <<elses, transferring, missed>>

(* A jump. The rule misses that a value goes past the rest of an enclosing *)
(* statement that the jump leaves, unless that is an if without else whose *)
(* consequent ends with the jump; and that a finally block stops a throw.  *)
Jump(to) ==
  LET Target(f) == to \in {Break(f.id), Continue(f.id)}
      left == {i \in DOMAIN blocks : \A j \in i..Len(blocks) : ~Target(blocks[j])}
      guard == Top.kind = "if" /\ Top.part = "then"
      passed == IF guard THEN left \ {Len(blocks)} ELSE left
  IN  /\ InCode /\ jumps < shape.jumps /\ jumps' = jumps + 1
      /\ blocks' = Deliver(WithTop([Top EXCEPT !.jumped = IF guard THEN Writes(reach) ELSE @]), Towards(to))
      /\ missed' = missed \cup (IF passed = {} THEN {} ELSE Writes(reach))
                    \cup Writes({x \in reach : x.to # Here})
      /\ reach' = {}
      /\ UNCHANGED <<shape, entered, usages, elses, transferring, observed, updated, reports>>
LoopJump ==
  \E i \in DOMAIN blocks :
    /\ \/ /\ blocks[i].kind \in {"loop", "switch"} /\ Jump(Break(blocks[i].id))
          /\ \A j \in i + 1..Len(blocks) : blocks[j].kind \notin {"loop", "switch"}
       \/ /\ blocks[i].kind = "loop" /\ Jump(Continue(blocks[i].id))
          /\ \A j \in i + 1..Len(blocks) : blocks[j].kind # "loop"
ThrowOrReturn == \E to \in {Throw, Return} : Jump(to)

-----------------------------------------------------------------------------
(* The rule, with the paths of usages as sets of steps. *)
Controls(steps) == {s.control : s \in steps}
Complete(step) ==
  /\ step.arm \in {"then", "else"}
  /\ step.arm = "then" => step.control \in elses \cup transferring
ArePathsCompatible(left, right) ==
  \A s \in left, t \in right : s.control = t.control => s.arm = t.arm
(* The implicit else of an if is a step of the usages after it. *)
ReadsPreviousValue(u) == u.kind \in {"self", "compound"}
ObservesPreviousValue(u) == u.kind = "read" \/ ReadsPreviousValue(u)

Mergeable(left, right) ==
  /\ Cardinality(left) = Cardinality(right)
  /\ Cardinality(left \ right) = 1 /\ Controls(left \ right) = Controls(right \ left)
RECURSIVE MergeCoveredPaths(_)
MergeCoveredPaths(covered) ==
  LET pairs == {p \in (DOMAIN covered) \X (DOMAIN covered) :
                  p[1] < p[2] /\ Mergeable(covered[p[1]], covered[p[2]])}
      first == CHOOSE p \in pairs :
                 \A q \in pairs : p[1] < q[1] \/ (p[1] = q[1] /\ p[2] <= q[2])
      merged == covered[first[1]] \cap covered[first[2]]
  IN  IF pairs = {} THEN [all |-> FALSE, covered |-> covered]
      ELSE LET rest == RemoveAt([covered EXCEPT ![first[1]] = merged], first[2])
           IN  IF merged = {} THEN [all |-> TRUE, covered |-> rest] ELSE MergeCoveredPaths(rest)

(* isGuaranteedOverwrite. A mistake: one of the branches is enough.        *)
OverwriteInBranch(write, current, covered) ==
  LET extra == {s \in write : s.control \notin Controls(current)}
  IN  [all |-> \A s \in extra : Complete(s), covered |-> covered]
GuaranteedOverwrite(write, current, covered) ==
  LET extra == {s \in write : s.control \notin Controls(current)}
  IN  CASE extra = {} -> [all |-> TRUE, covered |-> covered]
        [] \E s \in extra : ~Complete(s) -> [all |-> FALSE, covered |-> covered]
        [] OTHER -> MergeCoveredPaths(Append(covered, extra))

IsReadAcrossLoop(u, write) == u.kind = "read" /\ u.loops \cap write.loops # {}

(* valueIsObserved: the usages in the order of the text, from the i-th on. *)
RECURSIVE ObservedFrom(_, _, _)
ObservedFrom(i, w, covered) ==
  LET u == usages[i]
      write == usages[w]
      overwrite == GuaranteedOverwrite(u.steps, write.steps, covered)
  IN  CASE i > Len(usages) -> FALSE
        [] i < w -> IsReadAcrossLoop(u, write) \/ ObservedFrom(i + 1, w, covered)
        [] i = w -> ObservedFrom(i + 1, w, covered)
        [] OTHER ->
             IF ~ArePathsCompatible(write.steps, u.steps)
             THEN IsReadAcrossLoop(u, write) \/ ObservedFrom(i + 1, w, covered)
             ELSE IF ObservesPreviousValue(u) THEN TRUE
             ELSE ~overwrite.all /\ ObservedFrom(i + 1, w, overwrite.covered)

ShouldCheck(u) ==
  /\ IsWrite(u) /\ u.kind # "null"
  /\ \A i \in DOMAIN usages : IsRead(usages[i]) => usages[i].handlers \cap u.tries = {}

Program ==
  /\ reports = {0} /\ Len(blocks) = 1
  /\ reports' = {w \in DOMAIN usages : ShouldCheck(usages[w]) /\ ~ObservedFrom(1, w, <<>>)}
  /\ UNCHANGED <<program, executions>>

Next ==
  \/ Read
  \/ \E kind \in shape.writes : Write(kind)
  \/ If \/ Else \/ EndIf
  \/ Loop \/ EndLoop
  \/ Switch \/ EndSwitch
  \/ \E default \in BOOLEAN : Case(default)
  \/ \E catch, finally \in BOOLEAN : Try(catch, finally)
  \/ Catch \/ Finally \/ EndTry
  \/ LoopJump \/ ThrowOrReturn
  \/ Program
Spec == Init /\ [][Next]_vars

-----------------------------------------------------------------------------
(* Properties. *)
TypeOK ==
  /\ entered \in 0..shape.statements /\ jumps \in 0..shape.jumps /\ Len(usages) <= shape.usages
  /\ \A x \in reach : x.def \in (0 - shape.statements)..Len(usages)
  /\ reports = {0} \/ reports \subseteq DOMAIN usages

(* A write that no-dead-store reports is dead: no execution reads its      *)
(* value, whatever branches, loops, early exits and handlers stand between *)
(* the write and a read. It leaves out what the rule does not follow: a    *)
(* jump past the rest of an enclosing statement, an exception out of a try *)
(* block, a case that falls through, an update in the next iteration.      *)
ReportsAreDead ==
  reports # {0} => reports \cap ((observed \cup updated) \ missed) = {}

(* "The value assigned is never read" (no-dead-store.ts:494), of every     *)
(* report.                                                                 *)
ReportedNeverRead == reports # {0} => reports \cap observed = {}
=============================================================================
