--------------------------- MODULE HarnessScopes ---------------------------
(***************************************************************************)
(* tools/rule-harness/src/scope.ts: the scopes a rule under test is given. *)
(* A syntax tree is visited parent before child; each visit creates scopes *)
(* and defines variables, and when all is visited every reference is       *)
(* looked up from its scope outwards. A statement that is its parent's     *)
(* body is folded into the parent; what a pattern binds is one name.       *)
(***************************************************************************)
EXTENDS Bindings, Sequences

CONSTANTS
  Names,
  Kinds,       \* the kinds of nodes that occur
  MaxNodes     \* bound: nodes of a tree, the program included

VARIABLES scopes, nodeToScope

vars == <<nodes, scopes, nodeToScope, definitions, resolved>>

Named == {"function", "functionExpression", "class", "catch", "let", "var", "param"}
NoName == "none"

Init ==
  /\ nodes = <<[kind |-> "program", name |-> NoName, parent |-> 0]>>
  /\ scopes = <<[type |-> "module", upper |-> 0]>>
  /\ nodeToScope = <<1>> /\ definitions = {} /\ resolved = <<>>

-----------------------------------------------------------------------------
(* A variable is a name in a scope; a second definition joins the first.   *)
Definition(scope, name, node) == [scope |-> scope, name |-> name, node |-> node]

(* Where var goes.                                                         *)
Hoists(type) == type \notin {"function", "module"}
VariableScope(scope) ==
  LET up[s \in 1 .. Len(scopes)] == IF Hoists(scopes[s].type) THEN up[scopes[s].upper] ELSE s
  IN  up[scope]

(* The types of the scopes a node opens, the outer one first: a catch      *)
(* clause and its body have one each, a function and its body share one.   *)
Opens(kind) ==
  CASE kind \in Functions -> <<"function">>
    [] kind \in {"block", "switch", "static"} -> <<"block">>
    [] kind = "catch" -> <<"block", "block">>
    [] kind = "class" -> <<"class">>
    [] OTHER -> <<>>

(* The scopes a node defines its name in, of the scope around it and the   *)
(* first it opens. A mistake: a function expression's name is known        *)
(* outside it.                                                             *)
DefinesOutside(kind, around, opened) ==
  CASE kind = "var" -> {VariableScope(around)}
    [] kind \in {"let", "param", "function", "functionExpression"} -> {around}
    [] kind = "catch" -> {opened}
    [] kind = "class" -> {around, opened}
    [] OTHER -> {}
Defines(kind, around, opened) ==
  CASE kind = "var" -> {VariableScope(around)}
    [] kind \in {"let", "param", "function"} -> {around}
    [] kind \in {"functionExpression", "catch"} -> {opened}
    [] kind = "class" -> {around, opened}
    [] OTHER -> {}

Path == LET up[n \in 0 .. Len(nodes)] == IF n = 0 THEN {} ELSE {n} \cup up[nodes[n].parent]
        IN  up[Len(nodes)]
(* What may stand where. A class holds static blocks only: what else may   *)
(* stand in its body or head is left out.                                  *)
Fits(kind, parent) ==
  /\ nodes[parent].kind \in Containers
  /\ kind \in {"param", "default"} => nodes[parent].kind \in Functions
  /\ kind = "discriminant" => nodes[parent].kind = "switch"
  /\ kind = "static" <=> nodes[parent].kind = "class"
  /\ nodes[parent].kind = "for" => kind \in {"let", "block", "use"}

Visit(kind, name, parent) ==
  /\ resolved = <<>> /\ Len(nodes) < MaxNodes
  /\ parent \in Path /\ Fits(kind, parent)
  /\ (name = NoName) <=> (kind \notin Named \cup References)
  /\ LET around == nodeToScope[parent]
         opened == Len(scopes) + 1
         types == Opens(kind)
         new == [i \in DOMAIN types |-> [type |-> types[i], upper |-> IF i = 1 THEN around ELSE opened]]
     IN  /\ nodes' = Append(nodes, [kind |-> kind, name |-> name, parent |-> parent])
         /\ scopes' = scopes \o new
         /\ nodeToScope' = Append(nodeToScope, IF new = <<>> THEN around ELSE Len(scopes'))
         /\ definitions' = definitions \cup
              {Definition(s, name, Len(nodes')) : s \in Defines(kind, around, opened)}
  /\ UNCHANGED resolved

(* The nearest scope that has the name; 0 if none has: through.            *)
VariableByName(scope, name) ==
  LET up[s \in 0 .. Len(scopes)] ==
        IF s = 0 \/ \E d \in definitions : d.scope = s /\ d.name = name THEN s ELSE up[scopes[s].upper]
  IN  up[scope]

ResolveReferences ==
  /\ resolved = <<>> /\ \E n \in DOMAIN nodes : nodes[n].kind \in References
  /\ resolved' = [n \in DOMAIN nodes |->
                    IF nodes[n].kind \in References
                    THEN VariableByName(nodeToScope[n], nodes[n].name) ELSE 0]
  /\ UNCHANGED <<nodes, scopes, nodeToScope, definitions>>

Next ==
  \/ \E kind \in Kinds, name \in Names \cup {NoName}, parent \in DOMAIN nodes : Visit(kind, name, parent)
  \/ ResolveReferences

Spec == Init /\ [][Next]_vars

-----------------------------------------------------------------------------
TypeOK ==
  /\ Len(nodeToScope) = Len(nodes)
  /\ \A n \in DOMAIN nodes : nodeToScope[n] \in DOMAIN scopes
  /\ \A s \in DOMAIN scopes : scopes[s].upper < s
  /\ \A d \in definitions : d.scope \in DOMAIN scopes
=============================================================================
