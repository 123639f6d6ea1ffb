--------------------------- MODULE MCDependencies ---------------------------
(* One variable, used and depended on by two chains of properties. *)
EXTENDS ExhaustiveDependencies

MCKinds == { [p |-> "plain"] }
MCUses ==
  { [root |-> "p", path |-> chain, called |-> FALSE, forced |-> FALSE, typed |-> FALSE] :
      chain \in { <<"a">>, <<"c", "b">> } }
MCEntries ==
  { [expression |-> FALSE, roots |-> {"p"}, path |-> chain] : chain \in { <<"a">>, <<"c", "b">> } }
MCOptions == { [array |-> TRUE, unnecessary |-> TRUE, stable |-> TRUE, expressions |-> FALSE] }
=============================================================================
