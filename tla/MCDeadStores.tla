---------------------------- MODULE MCDeadStores ----------------------------
(* Ifs and loops, three of them, with one jump. *)
EXTENDS DeadStores

MCShapes ==
  { [kinds |-> {"if", "loop"}, writes |-> {"plain"}, statements |-> 3, usages |-> 3, jumps |-> 1] }
=============================================================================
