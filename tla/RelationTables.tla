--------------------------- MODULE RelationTables ---------------------------
(***************************************************************************)
(* resolvePairRelation and applyRelationCap over every small input: one    *)
(* answer of the decision model is raised, or one scored relation is added, *)
(* at a time, so that neighbouring inputs can be compared by a step.       *)
(***************************************************************************)
EXTENDS PairDecisions

CONSTANTS Rules, Top, Strengths, MaxScored

vars == <<judgment, scoredRelations>>

Init ==
  /\ judgment = [d \in Dimensions |-> 0]
  /\ scoredRelations = {}

(* The probabilities of "unrelated" and "publish" sum to one with a third, *)
(* so both cannot be at the accept level.                                  *)
Raise(d) ==
  /\ scoredRelations = {}
  /\ judgment[d] < Top
  /\ judgment' = [judgment EXCEPT ![d] = @ + 1]
  /\ judgment'["unrelated"] < JudgmentThresholds.accept \/ judgment'["publish"] < JudgmentThresholds.accept
  /\ UNCHANGED scoredRelations

Add(from, kind, to, strength) ==
  /\ judgment = [d \in Dimensions |-> 0]
  /\ Cardinality(scoredRelations) < MaxScored
  /\ from # to /\ {from, to} \notin PairKeys(scoredRelations)
  /\ scoredRelations' = scoredRelations \cup {[from |-> from, kind |-> kind, to |-> to, strength |-> strength]}
  /\ UNCHANGED judgment

Next ==
  \/ \E d \in Dimensions : Raise(d)
  \/ \E from, to \in Rules, kind \in {"related", "supersedes"}, strength \in Strengths :
       Add(from, kind, to, strength)

Spec == Init /\ [][Next]_vars
=============================================================================
