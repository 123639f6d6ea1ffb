------------------------------ MODULE Bindings ------------------------------
(***************************************************************************)
(* A program as far as names go, the variables that the rule harness found *)
(* in it, and what the language binds names to; HarnessScopes.tla is the   *)
(* harness.                                                                *)
(***************************************************************************)
EXTENDS Naturals

VARIABLES
  nodes,         \* the tree, a node after the one it stands in
  definitions,   \* the names in scopes, with the nodes that define them
  resolved       \* the scope whose variable a reference was given, or 0

Functions == {"function", "functionExpression", "arrow"}
Containers == Functions \cup {"program", "block", "switch", "static", "catch", "class", "for"}
References == {"use", "discriminant", "default"}

-----------------------------------------------------------------------------
(* What the language says. A declaration holds in its extent: a node and   *)
(* all below it. Of the extents around a use the innermost wins; a         *)
(* function's own name and a class's own name have an extent around that   *)
(* of what is declared in it (the parity tells them apart).                *)
Below(n) ==
  LET in[m \in DOMAIN nodes] == m = n \/ (nodes[m].parent # 0 /\ in[nodes[m].parent])
  IN  {m \in DOMAIN nodes : in[m]}
Nearest(n, kinds) ==
  LET up[m \in DOMAIN nodes] == IF nodes[m].kind \in kinds THEN m ELSE up[nodes[m].parent]
  IN  up[nodes[n].parent]
Extents(d) ==
  LET kind == nodes[d].kind
      own == {<<d, 0>>}
  IN  CASE kind = "var" -> {<<Nearest(d, Functions \cup {"program", "static"}), 1>>}
        [] kind \in {"let", "param"} -> {<<Nearest(d, Containers), 1>>}
        [] kind = "function" -> {<<Nearest(d, Containers), 1>>}
        [] kind = "class" -> {<<Nearest(d, Containers), 1>>} \cup own
        [] kind \in {"functionExpression", "catch"} -> own
        [] OTHER -> {}
Reaches(extent, r) ==
  /\ r \in Below(extent[1]) \ {extent[1]}
  /\ nodes[r].kind = "discriminant" => extent[1] # nodes[r].parent
Binding(r) ==
  LET found == {p \in ((DOMAIN nodes) \X {0, 1}) \X DOMAIN nodes :
                  nodes[p[2]].name = nodes[r].name /\ p[1] \in Extents(p[2]) /\ Reaches(p[1], r)}
      inner(e, f) == e[1] > f[1] \/ (e[1] = f[1] /\ e[2] >= f[2])
  IN  {p[2] : p \in {q \in found : \A other \in found : inner(q[1], other[1])}}

-----------------------------------------------------------------------------
Definitions(r) == {d.node : d \in {x \in definitions : x.scope = resolved[r] /\ x.name = nodes[r].name}}

(* Every reference is given the variable whose definitions are the         *)
(* declarations the language binds it to, wherever they stand: shadowing,  *)
(* hoisting, and names used before their declaration included. The own     *)
(* name of a function expression may come with what is declared again in   *)
(* the function: the code keeps it in the scope of the parameters.         *)
BindsLikeTheLanguageHere ==
  resolved # <<>> =>
    \A r \in DOMAIN nodes :
      nodes[r].kind \in References =>
        LET named == {f \in Definitions(r) : nodes[f].kind = "functionExpression"}
        IN  Definitions(r) = Binding(r) \/ Definitions(r) = Binding(r) \cup named
=============================================================================
