---------------------------- MODULE PairDecisions ----------------------------
(***************************************************************************)
(* A judgment and a set of scored relations, and what resolvePairRelation  *)
(* and applyRelationCap should make of them; RelationTables.tla goes       *)
(* through the inputs.                                                     *)
(***************************************************************************)
EXTENDS RelationRules

CONSTANTS
  JudgmentThresholds,
  MaxRelationsPerRule

VARIABLES judgment, scoredRelations

Dimensions == {"unrelated", "publish", "forwardReplaces", "backwardReplaces",
               "forwardRequires", "backwardRequires", "duplicates"}
LeftRule == 1
RightRule == 2

-----------------------------------------------------------------------------
Resolution == ResolvePair(judgment, LeftRule, RightRule, JudgmentThresholds)

(* More evidence against a link, or for one more directed reading, never   *)
(* turns a pair that was not published into a published one; only the      *)
(* first directed reading to be accepted can.                              *)
Directed == Dimensions \ {"unrelated", "publish", "duplicates"}
DoubtPublishes ==
  \E d \in {"unrelated"} \cup Directed :
    /\ judgment'[d] > judgment[d]
    /\ Resolution.type # "relation" /\ Resolution'.type = "relation"
    /\ ~ (d \in Directed /\ judgment'[d] = JudgmentThresholds.accept
           /\ \A c \in Directed \ {d} : judgment[c] < JudgmentThresholds.accept)
DoubtNeverPublishes == [][~ DoubtPublishes]_<<judgment, scoredRelations>>

(* applyRelationCap keeps the relations that no order of processing would  *)
(* have to decide: those with room left by the stronger ones.              *)
ScoredCapIsGreedy == CapIsGreedy(scoredRelations, MaxRelationsPerRule)
=============================================================================
