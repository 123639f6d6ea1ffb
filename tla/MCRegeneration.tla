-------------------------- MODULE MCRegeneration --------------------------
(* Three rules and their three pairs, one relation per rule, so that any   *)
(* two relations compete. A run judges all pairs, or only the first, which *)
(* leaves edges of earlier runs to compete with its own.                   *)
EXTENDS Regeneration

MCRules == 1..3
MCAllPairs == { {1, 2}, {1, 3}, {2, 3} }
MCJudgedSets == { MCAllPairs, { {1, 2} } }
MCThresholds == [accept |-> 2, review |-> 1]

Judgment(unrelated, publish, forward, duplicates) ==
  [unrelated |-> unrelated, publish |-> publish, forwardReplaces |-> 0, backwardReplaces |-> 0,
   forwardRequires |-> 0, backwardRequires |-> forward, duplicates |-> duplicates]
MCAnswers == { Judgment(2, 0, 0, 0),   \* unrelated
               Judgment(0, 1, 0, 0),   \* needs review
               Judgment(0, 2, 0, 0),   \* related
               Judgment(0, 3, 2, 2) }  \* the upper depends on the lower, strongly

MCPins == << Relation(2, "related", 1) >>
MCDenied == { {2, 3} }
MCPinDenied == { {1, 2} }
=============================================================================
