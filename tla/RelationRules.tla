--------------------------- MODULE RelationRules ---------------------------
(***************************************************************************)
(* The pure decisions of the relation generator: what a pair's judgments   *)
(* resolve to (resolve.ts), which relations the per-rule cap keeps, how    *)
(* pins and denials are merged in (documentation/src/data/rule-relations.ts), *)
(* what the document check refuses (validate.ts), and what the review      *)
(* report says (review.ts, evaluation.ts).                                 *)
(*                                                                         *)
(* Rules are numbers in the order of their names. A relation is a record   *)
(* with from, kind and to; probabilities are whole numbers on any scale.   *)
(***************************************************************************)
EXTENDS Naturals, Sequences, FiniteSets, SequencesExt

DirectedKinds == {"depends-on", "supersedes"}
UndirectedKinds == {"overlaps", "related"}
Kinds == DirectedKinds \cup UndirectedKinds

Relation(from, kind, to) == [from |-> from, kind |-> kind, to |-> to]
Identity(e) == Relation(e.from, e.kind, e.to)

(* getPairKey: the same for either order of the two rules *)
PairKey(e) == {e.from, e.to}
PairKeys(es) == {PairKey(e) : e \in es}

-----------------------------------------------------------------------------
(* resolvePairRelation. A resolution is [type |-> "none"], a review or a   *)
(* relation; a review and a relation carry the strength of the pair.       *)
None == [type |-> "none"]
Review(j) == [type |-> "review", strength |-> j.publish]
Accepts(j, relation) == [type |-> "relation", strength |-> j.publish, relation |-> relation]

DirectedCandidates(j, left, right) ==
  { <<Relation(left, "supersedes", right), j.forwardReplaces>>,
    <<Relation(right, "supersedes", left), j.backwardReplaces>>,
    <<Relation(left, "depends-on", right), j.forwardRequires>>,
    <<Relation(right, "depends-on", left), j.backwardRequires>> }

(* more than one directed reading was accepted; a mistake: exactly two *)
ContradictoryTwo(accepted) == Cardinality(accepted) = 2
Contradictory(accepted) == Cardinality(accepted) > 1

ResolvePair(j, left, right, thresholds) ==
  LET candidates == DirectedCandidates(j, left, right)
      accepted == {c \in candidates : c[2] >= thresholds.accept}
      uncertain == \/ \E c \in candidates : c[2] >= thresholds.review
                   \/ j.duplicates >= thresholds.review /\ j.duplicates < thresholds.accept
  IN  IF j.unrelated >= thresholds.accept THEN None
      ELSE IF j.publish < thresholds.accept \/ Contradictory(accepted) THEN Review(j)
      ELSE IF accepted # {} THEN Accepts(j, (CHOOSE c \in accepted : TRUE)[1])
      ELSE IF uncertain THEN Review(j)
      ELSE Accepts(j, Relation(left, IF j.duplicates >= thresholds.accept
                                     THEN "overlaps" ELSE "related", right))

-----------------------------------------------------------------------------
(* applyRelationCap: strongest first, ties by from, to and kind; a relation *)
(* is kept while neither endpoint has its fill. A scored relation is a     *)
(* relation with a strength.                                               *)
KindRank == [k \in Kinds |-> CASE k = "depends-on" -> 1 [] k = "overlaps" -> 2
                               [] k = "related" -> 3 [] k = "supersedes" -> 4]

Outranks(a, b) ==
  \/ a.strength > b.strength
  \/ a.strength = b.strength /\ a.from < b.from
  \/ a.strength = b.strength /\ a.from = b.from /\ a.to < b.to
  \/ a.strength = b.strength /\ a.from = b.from /\ a.to = b.to /\ KindRank[a.kind] < KindRank[b.kind]

Degree(es, rule) == Cardinality({e \in es : rule \in PairKey(e)})

(* both rules of s have a place left; a mistake: one relation too many *)
RoomForOneMore(kept, s, max) == Degree(kept, s.from) <= max /\ Degree(kept, s.to) <= max
Room(kept, s, max) == Degree(kept, s.from) < max /\ Degree(kept, s.to) < max

(* the one that comes last; a mistake: the first *)
WeakestBackwards(ss) == CHOOSE s \in ss : \A t \in ss \ {s} : Outranks(s, t)
Weakest(ss) == CHOOSE s \in ss : \A t \in ss \ {s} : Outranks(t, s)

(* the fold comes to the weakest last *)
ApplyCap(scored, max) ==
  LET Keep(s, kept) == IF Room(kept, s, max) THEN kept \cup {s} ELSE kept
      Itself(s) == s
  IN  MapThenFoldSet(Keep, {}, Itself, Weakest, scored)

(* What the cap keeps, without an order of processing: a relation is kept  *)
(* if and only if fewer than max stronger kept relations touch each of its *)
(* two rules.                                                              *)
CapIsGreedy(scored, max) ==
  LET kept == ApplyCap(scored, max)
  IN  \A s \in scored :
        s \in kept <=> \A r \in PairKey(s) : Degree({t \in kept : Outranks(t, s)}, r) < max

-----------------------------------------------------------------------------
(* parseGeneratedRelations: undirected relations in name order; two        *)
(* relations of one pair, or a rule with itself, are refused.              *)
Normalize(e) ==
  IF e.kind \in UndirectedKinds /\ e.to < e.from
  THEN [e EXCEPT !.from = e.to, !.to = e.from] ELSE e
Parses(es) ==
  /\ \A e \in es : e.from # e.to
  /\ \A d, e \in es : PairKey(d) = PairKey(e) => d = e

(* mergeRelations. A pin replaces the generated relation of its pair; of   *)
(* two pins for a pair the last replaces, but the first is placed when     *)
(* nothing was generated.                                                  *)
PinsOf(pins, key) == {i \in 1..Len(pins) : PairKey(pins[i]) = key}
Placed(pins, i, generated) ==
  LET key == PairKey(pins[i])
  IN  IF key \in PairKeys(generated)
      THEN \A j \in PinsOf(pins, key) : j <= i
      ELSE \A j \in PinsOf(pins, key) : i <= j
Merge(generated, pins, denied) ==
  {e \in generated : PinsOf(pins, PairKey(e)) = {} /\ PairKey(e) \notin denied}
    \cup {pins[i] : i \in {n \in 1..Len(pins) : Placed(pins, n, generated)}}

(* checkRelationsDocument: the problems, by what they are about *)
DuplicatePins(pins) == {PairKey(pins[i]) : i \in {n \in 1..Len(pins) : Cardinality(PinsOf(pins, PairKey(pins[n]))) > 1}}
DeniedPins(pins, denied) == {PairKey(pins[i]) : i \in 1..Len(pins)} \cap denied
(* A mistake: the check counts what was generated, not what is shown. *)
CrowdedByGenerated(rules, edges, pins, denied, max) ==
  {r \in rules : Degree(edges, r) > max}
Crowded(rules, edges, pins, denied, max) ==
  {r \in rules : Degree(Merge({Normalize(e) : e \in edges}, pins, denied), r) > max}
Problems(rules, edges, pins, denied, max) ==
  IF ~Parses(edges) THEN {"unreadable"}
  ELSE {"duplicate pin" : k \in DuplicatePins(pins)}
         \cup {"denied pin" : k \in DeniedPins(pins, denied)}
         \cup {"crowded" : r \in Crowded(rules, edges, pins, denied, max)}

-----------------------------------------------------------------------------
(* compareRelationBaseline *)
EdgeOf(es, key) == CHOOSE e \in es : PairKey(e) = key
(* A mistake: an edge of another kind between the same rules is unchanged. *)
ChangesByPair(current, previous) ==
  [added     |-> {Identity(e) : e \in {d \in current : PairKey(d) \notin PairKeys(previous)}},
   removed   |-> {Identity(e) : e \in {d \in previous : PairKey(d) \notin PairKeys(current)}},
   changed   |-> {},
   unchanged |-> Cardinality(PairKeys(current) \cap PairKeys(previous))]
Changes(current, previous) ==
  LET now == PairKeys(current)
      before == PairKeys(previous)
      same == {k \in now \cap before :
                 Identity(EdgeOf(current, k)) = Identity(EdgeOf(previous, k))}
  IN  [added     |-> {Identity(EdgeOf(current, k)) : k \in now \ before},
       removed   |-> {Identity(EdgeOf(previous, k)) : k \in before \ now},
       changed   |-> {<<Identity(EdgeOf(previous, k)), Identity(EdgeOf(current, k))>>
                        : k \in (now \cap before) \ same},
       unchanged |-> Cardinality(same)]

(* matchesExpectation and evaluateOverrides: pins are expected as they are, *)
(* in either direction when undirected; denied pairs as unrelated. A pin    *)
(* on a denied pair takes the place of the denial.                          *)
(* A mistake: any relation of the pair will do. *)
MatchesPinAnyKind(resolution, pin) ==
  resolution.type = "relation" /\ PairKey(resolution.relation) = PairKey(pin)
MatchesPin(resolution, pin) ==
  /\ resolution.type = "relation"
  /\ resolution.relation.kind = pin.kind
  /\ \/ resolution.relation = Identity(pin)
     \/ pin.kind \in UndirectedKinds /\ PairKey(resolution.relation) = PairKey(pin)

(* resolutions: a function from the judged pair keys to resolutions *)
Evaluation(resolutions, pins, denied) ==
  LET pinned == {PairKey(pins[i]) : i \in 1..Len(pins)}
      judged == DOMAIN resolutions
      LastPin(k) == pins[CHOOSE i \in PinsOf(pins, k) : \A j \in PinsOf(pins, k) : j <= i]
      Matches(k) == IF k \in pinned THEN MatchesPin(resolutions[k], LastPin(k))
                    ELSE resolutions[k].type = "none"
  IN  [unjudged  |-> (pinned \cup denied) \ judged,
       positive  |-> Cardinality(pinned \cap judged),
       negative  |-> Cardinality((denied \ pinned) \cap judged),
       matched   |-> Cardinality({k \in (pinned \cup denied) \cap judged : Matches(k)}),
       disagreements |-> {k \in (pinned \cup denied) \cap judged : ~Matches(k)}]

(* accepted by the model but not published, and not for its reason. A      *)
(* mistake: pairs under review are listed here too.                        *)
OmittedWithReviews(accepted, published, reviews) == accepted \ published
Omitted(accepted, published, reviews) == (accepted \ published) \ reviews

(* createRelationReviewReport; reviews is the set of pair keys under review *)
Report(resolutions, edges, reviews, previous, pins, denied) ==
  LET judged == DOMAIN resolutions
      accepted == {k \in judged : resolutions[k].type = "relation"}
      published == PairKeys(edges) \cap judged
  IN  [judged      |-> judged,
       published   |-> published,
       needsReview |-> reviews,
       capped      |-> Omitted(accepted, published, reviews),
       accepted    |-> Cardinality(accepted),
       rejected    |-> {k \in judged : resolutions[k].type = "none"},
       changes     |-> Changes(edges, previous),
       quality     |-> Evaluation(resolutions, pins, denied)]
=============================================================================
