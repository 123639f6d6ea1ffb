---------------------------- MODULE Regeneration ----------------------------
(***************************************************************************)
(* scripts/regenerate-relations.ts from the judged pairs to the two files  *)
(* it writes: regenerateRelationsAsync of run.ts (resolution, cap, reasons *)
(* written concurrently through the reason cache), the document check, the *)
(* relation document and then the review report.                           *)
(*                                                                         *)
(* The judging phase is Judgments.tla; here it is its abstraction: a       *)
(* completed run holds the ledger's verdict for each of its pairs, which   *)
(* changes only when the cards do (theorem Refinement of JudgmentsProofs). *)
(***************************************************************************)
EXTENDS RelationRules

CONSTANTS
  Rules,       \* 1..n, in the order of their names
  JudgedSets,  \* the sets of pair keys a run may be asked to judge
  Answers,     \* judgments the decision model may give
  Thresholds,  \* judgmentThresholds
  Pins,        \* relationPins: a sequence of relations
  Denied,      \* relationDenylist: a set of pair keys
  MaxPerRule,  \* maxRelationsPerRule
  Absent,      \* no file, no reason
  Torn,        \* a file cut short
  MaxRuns, MaxEdits, MaxFaults   \* bounds

ASSUME RegenerationAssumption ==
  /\ Rules \subseteq Nat /\ IsFiniteSet(Rules)
  /\ \A a \in Answers : a.publish \in Nat
  /\ Pins \in Seq([from : Rules, kind : Kinds, to : Rules])
  /\ \A J \in JudgedSets : \A k \in J : k \subseteq Rules /\ Cardinality(k) = 2
  /\ Thresholds.review <= Thresholds.accept
  /\ MaxPerRule \in Nat \ {0}

VARIABLES
  verdict,     \* the ledger: what the decision model says of each pair
  reasonCache, \* .cache/rule-relations/reasons: per relation, a reason's quality
  document,    \* generated/rule-relations.json: its edges, or Torn, and (for the
               \* properties only) the run that wrote it
  report,      \* generated/rule-relations.review.json: a report, Absent or Torn
  phase,       \* where the script is
  existing,    \* existingEdges: the document as it was when this run read it
  judged,      \* options.pairs of this run
  fresh,       \* freshRelations: capped-in relations this run needs a reason for
  written,     \* the outcomes of createReasonOutcomeAsync so far
  result,      \* edges and reviews of regenerateRelationsAsync
  runs, edits, faults

vars == <<verdict, reasonCache, document, report, phase, existing, judged, fresh,
          written, result, runs, edits, faults>>
disk == <<verdict, reasonCache, document, report>>
bounds == <<runs, edits, faults>>

PairSet == UNION JudgedSets
Lower(k) == CHOOSE r \in k : \A s \in k : r <= s
Upper(k) == CHOOSE r \in k : \A s \in k : s <= r

(* A reason is grounded, or validateReason finds a problem with it. *)
Reasons == {"grounded", "ungrounded"}
Drafts == UNION {{Relation(Lower(k), kind, Upper(k)) : kind \in Kinds}
                   \cup {Relation(Upper(k), kind, Lower(k)) : kind \in DirectedKinds} : k \in PairSet}

Resolutions == [k \in judged |-> ResolvePair(verdict[k], Lower(k), Upper(k), Thresholds)]

(* regenerateRelationsAsync scores the fresh relations with the retained   *)
(* ones and caps them together; only pairs it did not judge are retained.  *)
Scored(relation, strength) ==
  [from |-> relation.from, kind |-> relation.kind, to |-> relation.to, strength |-> strength]
Retained == {e \in existing : PairKey(e) \notin judged}
Kept ==
  LET resolutions == Resolutions
  IN  ApplyCap({Scored(resolutions[k].relation, resolutions[k].strength)
                  : k \in {j \in judged : resolutions[j].type = "relation"}}
                 \cup {Scored(e, e.strength) : e \in Retained},
               MaxPerRule)

Init ==
  /\ verdict \in [PairSet -> Answers]
  /\ reasonCache = [d \in Drafts |-> Absent]
  /\ document = [run |-> 0, edges |-> {}]
  /\ report = Absent
  /\ phase = "idle"
  /\ existing = {} /\ judged = {} /\ fresh = {}
  /\ written = <<>>
  /\ result = Absent
  /\ runs = 0 /\ edits = 0 /\ faults = 0

-----------------------------------------------------------------------------
Start(J) ==
  /\ phase = "idle" /\ runs < MaxRuns
  /\ document # Torn
  /\ existing' = document.edges
  /\ judged' = J
  /\ phase' = "judging"
  /\ runs' = runs + 1
  /\ UNCHANGED <<disk, fresh, written, result, edits, faults>>

(* readGeneratedEdges throws on a document it cannot parse. *)
StartUnreadable ==
  /\ phase = "idle" /\ runs < MaxRuns
  /\ document = Torn
  /\ runs' = runs + 1
  /\ UNCHANGED <<disk, phase, existing, judged, fresh, written, result, edits, faults>>

(* The judgments are complete: resolve, cap, and start a writer for every  *)
(* fresh relation; those the reason cache answers are done without a wait. *)
Judge ==
  /\ phase = "judging"
  /\ LET chosen == {s \in Kept : PairKey(s) \in judged}
     IN  /\ fresh' = chosen
         /\ written' = [s \in {f \in chosen : reasonCache[Identity(f)] \in Reasons}
                          |-> reasonCache[Identity(s)]]
  /\ phase' = "reasons"
  /\ UNCHANGED <<disk, existing, judged, result, bounds>>

(* One writer answers; the reason is cached before it is looked at. *)
WriteReason(s) ==
  /\ phase \in {"reasons", "failing"}
  /\ s \in fresh \ DOMAIN written
  /\ \E reason \in Reasons :
       /\ written' = [t \in DOMAIN written \cup {s} |-> IF t = s THEN reason ELSE written[t]]
       /\ reasonCache' = [reasonCache EXCEPT ![Identity(s)] = reason]
  /\ UNCHANGED <<verdict, document, report, phase, existing, judged, fresh, result, bounds>>

(* A writer rejects, or its cache write fails and may leave a torn file:   *)
(* Promise.all rejects while the other writers go on.                      *)
ReasonFails(s) ==
  /\ phase \in {"reasons", "failing"}
  /\ s \in fresh \ DOMAIN written
  /\ faults < MaxFaults
  /\ faults' = faults + 1
  /\ phase' = "failing"
  /\ fresh' = fresh \ {s}
  /\ \E file \in {reasonCache[Identity(s)], Torn} :
       reasonCache' = [reasonCache EXCEPT ![Identity(s)] = file]
  /\ UNCHANGED <<verdict, document, report, existing, judged, written, result, runs, edits>>

(* What validateReason lets pass. *)
Grounded == {s \in fresh : written[s] = "grounded"}

(* All reasons are in: grounded ones become edges, the others reviews; the *)
(* check throws before anything is written.                                *)
RetainedInCap == {e \in Retained : Scored(e, e.strength) \in Kept}
EdgesWithReasons ==
  {[from |-> s.from, kind |-> s.kind, to |-> s.to, strength |-> s.strength, reason |-> written[s]]
     : s \in Grounded}
Assembled ==
  [edges   |-> RetainedInCap \cup EdgesWithReasons,
   reviews |-> {k \in judged : Resolutions[k].type = "review"} \cup PairKeys(fresh \ Grounded)]

Assemble ==
  /\ phase = "reasons"
  /\ DOMAIN written = fresh
  /\ result' = Assembled
  /\ phase' = IF Problems(Rules, Assembled.edges, Pins, Denied, MaxPerRule) = {}
              THEN "document" ELSE "refused"
  /\ UNCHANGED <<disk, existing, judged, fresh, written, bounds>>

WriteDocument ==
  /\ phase = "document"
  /\ document' = [run |-> runs, edges |-> result.edges]
  /\ phase' = "report"
  /\ UNCHANGED <<verdict, reasonCache, report, existing, judged, fresh, written, result, bounds>>

WriteReport ==
  /\ phase = "report"
  /\ report' = [run |-> runs, previous |-> existing,
                 body |-> Report(Resolutions, result.edges, result.reviews, existing, Pins, Denied)]
  /\ phase' = "written"
  /\ UNCHANGED <<verdict, reasonCache, document, existing, judged, fresh, written, result, bounds>>

Forget ==
  /\ phase' = "idle"
  /\ existing' = {} /\ judged' = {} /\ fresh' = {}
  /\ written' = <<>>
  /\ result' = Absent

(* A mistake: an open handle keeps the process alive. *)
ExitHangs == phase \in {"failing", "refused", "written"} /\ UNCHANGED vars
Exit ==
  /\ phase \in {"failing", "refused", "written"}
  /\ Forget
  /\ UNCHANGED <<disk, bounds>>

(* The run dies: the judging phase fails, the process is interrupted, or a *)
(* file write breaks off and leaves the file cut short.                    *)
Kill ==
  /\ phase \notin {"idle", "written"}
  /\ faults < MaxFaults
  /\ faults' = faults + 1
  /\ document' \in IF phase = "document" THEN {document, Torn} ELSE {document}
  /\ report' \in IF phase = "report" THEN {report, Torn} ELSE {report}
  /\ Forget
  /\ UNCHANGED <<verdict, reasonCache, runs, edits>>

(* The rule cards change: every key is new, and the model answers afresh.  *)
EditCards ==
  /\ phase = "idle" /\ edits < MaxEdits
  /\ verdict' \in [PairSet -> Answers]
  /\ reasonCache' = [d \in Drafts |-> Absent]
  /\ edits' = edits + 1
  /\ UNCHANGED <<document, report, phase, existing, judged, fresh, written, result, runs, faults>>

Rest == phase = "idle" /\ runs = MaxRuns /\ UNCHANGED vars

Next ==
  \/ \E J \in JudgedSets : Start(J)
  \/ Judge
  \/ \E s \in fresh : WriteReason(s)
  \/ \E s \in fresh : ReasonFails(s)
  \/ Assemble \/ WriteDocument \/ WriteReport \/ Exit \/ Kill
  \/ StartUnreadable \/ EditCards \/ Rest

Spec == Init /\ [][Next]_vars

(* The event loop and the writers make progress and a maintainer who finds *)
(* a run failed starts it again.                                           *)
Fairness ==
  /\ \A J \in JudgedSets : WF_vars(Start(J))
  /\ WF_vars(Judge) /\ WF_vars(Assemble)
  /\ WF_vars(\E s \in fresh : WriteReason(s) \/ ReasonFails(s))
  /\ WF_vars(WriteDocument) /\ WF_vars(WriteReport) /\ WF_vars(Exit)
FairSpec == Spec /\ Fairness

-----------------------------------------------------------------------------
(* Whatever subset of the pairs was judged last, whichever edges were kept *)
(* from earlier documents and whatever the reasons became, a document that *)
(* a run has written never links a pair twice and, with pins and denials   *)
(* merged in, no rule has more than MaxPerRule relations on the site. (Of  *)
(* the empty document there was at first nothing is checked: the pins      *)
(* alone may crowd a rule.)                                                *)
SiteWithinCap ==
  document # Torn /\ document.run > 0 =>
    /\ Parses(document.edges)
    /\ \A r \in Rules : Degree(Merge({Normalize(e) : e \in document.edges}, Pins, Denied), r) <= MaxPerRule

(* The report accounts for every judged pair in exactly one way: unrelated, *)
(* under review (for its judgment or for its rejected reason), published,   *)
(* or omitted by the cap.                                                   *)
EveryPairReportedOnce ==
  report \notin {Absent, Torn} =>
    LET b == report.body
    IN  \A k \in b.judged :
          Cardinality({list \in {"rejected", "needsReview", "published", "capped"} : k \in b[list]}) = 1

(* When document and report come from the same run, replaying the reported *)
(* changes on the document that run had found gives the document on disk.  *)
Replay(previous, changes) ==
  ({Identity(e) : e \in previous} \ (changes.removed \cup {c[1] : c \in changes.changed}))
    \cup changes.added \cup {c[2] : c \in changes.changed}
ReportDescribesDocument ==
  document # Torn /\ report \notin {Absent, Torn} /\ report.run = document.run =>
    /\ Replay(report.previous, report.body.changes) = {Identity(e) : e \in document.edges}
    /\ report.body.published = PairKeys(document.edges) \cap report.body.judged

(* An override the report lists as agreeing with the model changes nothing *)
(* on the site but a reason: where the pair was published, the pin is the  *)
(* same relation, and an agreed denial hides no edge.                      *)
AgreedOverridesChangeNothing ==
  document # Torn /\ report \notin {Absent, Torn} /\ report.run = document.run =>
    \A e \in document.edges :
      PairKey(e) \in report.body.judged \ report.body.quality.disagreements =>
        /\ \A i \in PinsOf(Pins, PairKey(e)) : Identity(Normalize(Pins[i])) = Identity(Normalize(e))
        /\ PairKey(e) \notin Denied

(* The generator never trips over its own output: a run is refused by the  *)
(* check only if the overrides contradict themselves or a pin adds a       *)
(* relation that the cap, which runs before pins are merged, did not count. *)
RefusedOnlyForOverrides ==
  phase = "refused" =>
    \/ DuplicatePins(Pins) # {}
    \/ DeniedPins(Pins, Denied) # {}
    \/ \E i \in 1..Len(Pins) : PairKey(Pins[i]) \notin PairKeys(result.edges)

(* When the faults stop, a document and its report are written or the      *)
(* overrides stand in the way. The one fault that restarting cannot cure   *)
(* is a document cut short: readGeneratedEdges refuses it until a person   *)
(* restores the file.                                                      *)
EventuallyPublished == <>(document = Torn \/ phase = "refused" \/ report \notin {Absent, Torn})
=============================================================================
