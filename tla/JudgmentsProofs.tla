-------------------------- MODULE JudgmentsProofs --------------------------
(***************************************************************************)
(* Proofs about Judgments.tla, for every set of rules, input, batch size   *)
(* and bound.                                                              *)
(***************************************************************************)
EXTENDS Judgments, FiniteSetTheorems, SequenceTheorems, TLAPS

(* What keeps the map of the run, the files and the requests in step: a    *)
(* pair the run holds nothing for is one a live request asks about, and no *)
(* live request asks about a pair whose file already answers.              *)
Covered ==
  phase \in {"judging", "done"} =>
    \A p \in Pairs : judgments[p] = Unknown =>
                       p \in pending /\ Request(p, pending) \in inflight

Fresh ==
  \A p \in pending : Request(p, pending) \in inflight => judgments[p] = Unknown

AtRest ==
  /\ phase = "idle" => judgments = [p \in Pairs |-> Unknown] /\ pending = {} /\ inflight = {}
  /\ phase = "done" => inflight = {}

Carded == pending # {} \/ phase \in {"judging", "done"} => HasCards

IInv ==
  /\ TypeOK /\ AtRest /\ Carded /\ Covered /\ Fresh
  /\ AsksOnlyUnknown /\ Repeatable

-----------------------------------------------------------------------------
(* A pair that has cards has a key. *)
LEMMA KeyTyped ==
  ASSUME TypeOK, HasCards
  PROVE  \A p \in Pairs : KeyOf(p) \in Keys /\ KeyOf(p)[1] = p
<1>1. \A p \in Pairs : p[1] \in Rules /\ p[2] \in Rules
  BY InputAssumption DEF Pairs, OrderPair
<1>2. QED
  BY <1>1 DEF TypeOK, HasCards, KeyOf, Keys

(* There are no more pairs than entries. *)
LEMMA PairsFinite == IsFiniteSet(Pairs)
<1> DEFINE f == [i \in 1..Len(Input) |-> OrderPair(Input[i])]
<1>1. f \in Surjection(1..Len(Input), Pairs)
  BY DEF Surjection, Pairs
<1>2. IsFiniteSet(1..Len(Input))
  BY InputAssumption, FS_Interval, LenProperties
<1> QED
  BY <1>1, <1>2, FS_Surjection

LEMMA InitIInv == Init => IInv
BY ValuesAssumption, BoundsAssumption
   DEF Init, IInv, TypeOK, AtRest, Carded, Covered, Fresh, AsksOnlyUnknown, Repeatable, Requests

(* All requests start together: a pair without a file is asked about.      *)
LEMMA StartIInv ==
  ASSUME IInv, Start
  PROVE  IInv'
<1> USE DEF Start
<1>1. \A p \in Pairs : KeyOf(p) \in Keys /\ Load(KeyOf(p)) \in Verdicts \cup {Unknown}
  BY KeyTyped DEF IInv, Load
<1>2. \A p \in Pairs : KeyOf(p)' = KeyOf(p)
  BY DEF KeyOf
<1>3. TypeOK'
  BY <1>1, PairsFinite, FS_Subset, FS_CardinalityType, BoundsAssumption
     DEF IInv, TypeOK, Requests
<1>4. AtRest' /\ Carded' /\ Covered' /\ Fresh'
  BY <1>1 DEF AtRest, Carded, Covered, Fresh, Requests, HasCards
<1>5. AsksOnlyUnknown'
  BY <1>1, <1>2, ValuesAssumption DEF AsksOnlyUnknown, Load
<1>6. Repeatable'
  BY <1>1, <1>2, ValuesAssumption DEF Repeatable, Known, Load
<1> QED
  BY <1>3, <1>4, <1>5, <1>6 DEF IInv

(* A live request answers: its own pairs leave the set of unanswered ones, *)
(* and no other pair's file or verdict moves.                              *)
LEMMA AnswerIInv ==
  ASSUME IInv, NEW r \in inflight, Answer(r)
  PROVE  IInv'
<1> USE DEF Answer, bounds
<1>1. PICK vs \in [Batch(r) -> Verdicts] :
        /\ judgments' = [p \in Pairs |-> IF p \in Batch(r) THEN vs[p] ELSE judgments[p]]
        /\ cache' = [k \in Keys |-> IF k[1] \in Batch(r) /\ k = KeyOf(k[1])
                                    THEN vs[k[1]] ELSE cache[k]]
  OBVIOUS
<1>2. Batch(r) \subseteq pending /\ pending \subseteq Pairs
  BY DEF Batch, IInv, TypeOK
<1>3. \A p \in pending : p \in Batch(r) <=> Request(p, pending) = r
  BY DEF Batch
<1>4. \A p : KeyOf(p)' = KeyOf(p)
  BY DEF KeyOf
<1>5. pending # {} => \A p \in Pairs : KeyOf(p) \in Keys /\ KeyOf(p)[1] = p
  BY KeyTyped DEF IInv, Carded
<1>6. pending # {}
  BY DEF IInv, TypeOK, Requests
<1>7. TypeOK'
  <2>1. judgments' \in [Pairs -> Verdicts \cup {Unknown}]
    BY <1>1 DEF IInv, TypeOK
  <2>2. cache' \in [Keys -> Verdicts \cup {Unknown, Torn}]
    BY <1>1 DEF IInv, TypeOK
  <2>3. completed' \in Nat
    BY <1>2, PairsFinite, FS_Subset, FS_CardinalityType DEF IInv, TypeOK
  <2> QED
    BY <2>1, <2>2, <2>3 DEF IInv, TypeOK
<1>8. AtRest' /\ Carded'
  BY DEF IInv, AtRest, Carded, HasCards
<1>9. Covered'
  BY <1>1, <1>2, <1>3, ValuesAssumption DEF IInv, Covered
<1>10. Fresh'
  BY <1>1, <1>2, <1>3 DEF IInv, Fresh
<1>11. AsksOnlyUnknown'
  BY <1>1, <1>2, <1>3, <1>4, <1>5, <1>6 DEF IInv, AsksOnlyUnknown
<1>12. Repeatable'
  BY <1>1, <1>2, <1>4, <1>5, <1>6 DEF IInv, Repeatable, Known
<1> QED
  BY <1>7, <1>8, <1>9, <1>10, <1>11, <1>12 DEF IInv

(* A refused request takes nothing away; the run is off course.           *)
LEMMA RefuseIInv ==
  ASSUME IInv, NEW r \in inflight, Refuse(r)
  PROVE  IInv'
<1> USE DEF Refuse
<1>1. TypeOK'
  BY BoundsAssumption DEF IInv, TypeOK
<1>2. AtRest' /\ Carded' /\ Covered' /\ Fresh'
  BY DEF IInv, AtRest, Carded, Covered, Fresh, HasCards
<1>3. \A p : KeyOf(p)' = KeyOf(p)
  BY DEF KeyOf
<1>4. AsksOnlyUnknown' /\ Repeatable'
  BY <1>3 DEF IInv, AsksOnlyUnknown, Repeatable, Known
<1> QED
  BY <1>1, <1>2, <1>4 DEF IInv

(* A failed write touches only files of the batch it belongs to.           *)
LEMMA StoreFailsIInv ==
  ASSUME IInv, NEW r \in inflight, StoreFails(r)
  PROVE  IInv'
<1> USE DEF StoreFails
<1>1. PICK p \in Batch(r), file \in {Unknown, Torn} :
        LET stored == {q \in Batch(r) : Before(q, p)}
        IN  \E vs \in [stored \cup {p} -> Verdicts] :
             /\ judgments' = [q \in Pairs |-> IF q \in stored \cup {p} THEN vs[q] ELSE judgments[q]]
             /\ cache' = [k \in Keys |->
                  IF k[1] \in stored /\ k = KeyOf(k[1]) THEN vs[k[1]]
                  ELSE IF k = KeyOf(p) /\ file = Torn THEN Torn ELSE cache[k]]
  OBVIOUS
<1> DEFINE stored == {q \in Batch(r) : Before(q, p)}
<1>2. PICK vs \in [stored \cup {p} -> Verdicts] :
        /\ judgments' = [q \in Pairs |-> IF q \in stored \cup {p} THEN vs[q] ELSE judgments[q]]
        /\ cache' = [k \in Keys |->
             IF k[1] \in stored /\ k = KeyOf(k[1]) THEN vs[k[1]]
             ELSE IF k = KeyOf(p) /\ file = Torn THEN Torn ELSE cache[k]]
  BY <1>1
<1>3. stored \cup {p} \subseteq Batch(r) /\ Batch(r) \subseteq pending /\ pending \subseteq Pairs
  BY DEF Batch, IInv, TypeOK
<1> HIDE DEF stored
<1>4. \A q \in pending : q \in Batch(r) <=> Request(q, pending) = r
  BY DEF Batch
<1>5. \A q : KeyOf(q)' = KeyOf(q)
  BY DEF KeyOf
<1>6. \A q \in Pairs : KeyOf(q) \in Keys /\ KeyOf(q)[1] = q
  BY <1>3, KeyTyped DEF IInv, Carded
<1>7. TypeOK'
  <2>1. judgments' \in [Pairs -> Verdicts \cup {Unknown}]
    BY <1>2 DEF IInv, TypeOK
  <2>2. cache' \in [Keys -> Verdicts \cup {Unknown, Torn}]
    BY <1>2 DEF IInv, TypeOK
  <2> QED
    BY <2>1, <2>2, BoundsAssumption DEF IInv, TypeOK
<1>8. AtRest' /\ Carded' /\ Covered'
  BY DEF IInv, AtRest, Carded, Covered, HasCards
<1>9. Fresh'
  BY <1>2, <1>3, <1>4 DEF IInv, Fresh
<1>10. AsksOnlyUnknown'
  <2> SUFFICES ASSUME NEW q \in pending, Request(q, pending) \in inflight \ {r}
               PROVE  cache'[KeyOf(q)] \notin Verdicts
    BY <1>5 DEF AsksOnlyUnknown
  <2>1. q \notin stored /\ q # p /\ q \in Pairs
    BY <1>3, <1>4
  <2>2. cache'[KeyOf(q)] = cache[KeyOf(q)]
    BY <1>2, <1>3, <1>6, <2>1
  <2> QED
    BY <2>2 DEF IInv, AsksOnlyUnknown
<1>11. Repeatable'
  BY DEF Repeatable
<1> QED
  BY <1>7, <1>8, <1>9, <1>10, <1>11 DEF IInv

(* The steps that move no file and no verdict, and the end of the process. *)
LEMMA QuietIInv ==
  ASSUME IInv, StartWithoutCard \/ Complete \/ Exit \/ Kill \/ (\E r \in Rules : EditCard(r)) \/ UNCHANGED vars
  PROVE  IInv'
<1>1. CASE StartWithoutCard
  <2>1. TypeOK' /\ AtRest' /\ Carded' /\ Covered' /\ Fresh'
    BY <1>1, BoundsAssumption
       DEF StartWithoutCard, IInv, TypeOK, AtRest, Carded, Covered, Fresh, HasCards
  <2>2. AsksOnlyUnknown' /\ Repeatable'
    BY <1>1 DEF StartWithoutCard, IInv, AtRest, AsksOnlyUnknown, Repeatable
  <2> QED
    BY <2>1, <2>2 DEF IInv
<1>2. CASE Complete
  <2>1. TypeOK' /\ AtRest' /\ Carded' /\ Covered' /\ Fresh'
    BY <1>2 DEF Complete, bounds, IInv, TypeOK, AtRest, Carded, Covered, Fresh, HasCards
  <2>2. \A p : KeyOf(p)' = KeyOf(p)
    BY <1>2 DEF Complete, KeyOf
  <2>3. AsksOnlyUnknown' /\ Repeatable'
    BY <1>2, <2>2 DEF Complete, IInv, AsksOnlyUnknown, Repeatable, Known
  <2> QED
    BY <2>1, <2>3 DEF IInv
<1>3. CASE Exit \/ Kill
  <2>1. Forget /\ runs' = runs /\ edits' = edits /\ faults' \in 0..MaxFaults
    BY <1>3, BoundsAssumption DEF Exit, Kill, IInv, TypeOK, bounds
  <2> QED
    BY <2>1 DEF Forget, IInv, TypeOK, AtRest, Carded, Covered, Fresh, AsksOnlyUnknown,
                Repeatable, Requests
<1>4. CASE \E r \in Rules : EditCard(r)
  <2>1. PICK r \in Rules, text \in Texts \cup {NoCard} :
          EditCard(r) /\ cards' = [cards EXCEPT ![r] = text]
    BY <1>4 DEF EditCard
  <2>2. phase = "idle" /\ UNCHANGED <<cache, phase, judgments, pending, inflight, completed, runs, faults>>
    BY <2>1 DEF EditCard
  <2>3. TypeOK'
    BY <2>1, <2>2, BoundsAssumption DEF EditCard, IInv, TypeOK
  <2>4. AtRest' /\ Carded' /\ Covered' /\ Fresh' /\ AsksOnlyUnknown' /\ Repeatable'
    BY <2>2 DEF IInv, AtRest, Carded, Covered, Fresh, AsksOnlyUnknown, Repeatable
  <2> QED
    BY <2>3, <2>4 DEF IInv
<1>5. CASE UNCHANGED vars
  BY <1>5 DEF vars, IInv, TypeOK, AtRest, Carded, Covered, Fresh, AsksOnlyUnknown, Repeatable,
              Known, HasCards, KeyOf
<1> QED
  BY <1>1, <1>2, <1>3, <1>4, <1>5

LEMMA StepIInv == IInv /\ [Next]_vars => IInv'
BY StartIInv, AnswerIInv, RefuseIInv, StoreFailsIInv, QuietIInv DEF Next, Rest

(* IInv is an invariant of every behaviour: the types, and the agreement   *)
(* of the run's map, the cache files and the requests in flight.           *)
THEOREM Invariance == Spec => []IInv
BY InitIInv, StepIInv, PTL DEF Spec

-----------------------------------------------------------------------------
(* The state of every run has its type: in particular the requests in      *)
(* flight are requests of this run, about pairs this run registered.       *)
THEOREM TypeCorrect == Spec => []TypeOK
<1>1. IInv => TypeOK
  BY DEF IInv
<1> QED
  BY <1>1, Invariance, PTL

(* A completed run holds a judgment for every pair, so resolveJudgedPairs  *)
(* never throws "Missing judgments".                                       *)
THEOREM NeverMissing == Spec => []NothingMissing
<1>1. IInv => NothingMissing
  BY DEF IInv, AtRest, Covered, NothingMissing, Known
<1> QED
  BY <1>1, Invariance, PTL

(* What a run on course holds is what the files of its keys say.           *)
THEOREM AlwaysRepeatable == Spec => []Repeatable
<1>1. IInv => Repeatable
  BY DEF IInv
<1> QED
  BY <1>1, Invariance, PTL

(* No live request asks about a pair whose file already answers.           *)
THEOREM NeverAsksTwice == Spec => []AsksOnlyUnknown
<1>1. IInv => AsksOnlyUnknown
  BY DEF IInv
<1> QED
  BY <1>1, Invariance, PTL

(* No step of any run overwrites, tears or loses a verdict on disk.        *)
THEOREM FinalVerdicts == Spec => VerdictsAreFinal
<1> DEFINE Kept == \A k \in Keys : cache[k] \in Verdicts => cache'[k] = cache[k]
<1>1. ASSUME IInv, [Next]_vars
      PROVE  Kept
  <2>1. ASSUME NEW r \in inflight, Answer(r)
        PROVE  Kept
    <3>1. \A p \in Batch(r) : p \in pending /\ Request(p, pending) \in inflight
      BY DEF Batch
    <3>2. \A p \in Batch(r) : cache[KeyOf(p)] \notin Verdicts
      BY <1>1, <3>1 DEF IInv, AsksOnlyUnknown
    <3> QED
      BY <2>1, <3>2 DEF Answer
  <2>2. ASSUME NEW r \in inflight, StoreFails(r)
        PROVE  Kept
    <3>1. \A p \in Batch(r) : p \in pending /\ Request(p, pending) \in inflight
      BY DEF Batch
    <3>2. \A p \in Batch(r) : cache[KeyOf(p)] \notin Verdicts
      BY <1>1, <3>1 DEF IInv, AsksOnlyUnknown
    <3> QED
      BY <2>2, <3>2 DEF StoreFails
  <2>3. ASSUME ~(\E r \in inflight : Answer(r) \/ StoreFails(r))
        PROVE  cache' = cache
    BY <1>1, <2>3 DEF Next, vars, bounds, Start, StartWithoutCard, Refuse, Complete, Exit, Kill,
                      Forget, EditCard, Rest
  <2> QED
    BY <2>1, <2>2, <2>3
<1> QED
  BY <1>1, Invariance, PTL DEF VerdictsAreFinal, Spec

-----------------------------------------------------------------------------
(* The files are a ledger: every step of the requests, failures and        *)
(* restarts is a step of JudgmentLedger or leaves it alone.                *)
LEMMA LedgerInit == Init => Ledger!Init
<1> SUFFICES ASSUME Init PROVE Ledger!Init
  OBVIOUS
<1>1. \A k \in Keys : Load(k) = Unknown
  BY ValuesAssumption DEF Init, Load
<1> QED
  BY <1>1 DEF Init, Ledger!Init, Ledger!Keys, Keys

(* As long as a step leaves every verdict on disk alone, it extends the    *)
(* ledger.                                                                 *)
LEMMA LedgerExtends ==
  ASSUME TypeOK, TypeOK', cards' = cards, phase # "done", phase' # "done",
         \A k \in Keys : cache[k] \in Verdicts => cache'[k] = cache[k]
  PROVE  Ledger!Learn
<1>1. \A k \in Keys : Load(k) \in Verdicts \cup {Unknown} /\ Load(k)' \in Verdicts \cup {Unknown}
  BY DEF Load
<1>2. \A k \in Keys : Load(k) # Unknown => Load(k)' = Load(k)
  BY DEF Load
<1> QED
  BY <1>1, <1>2 DEF Ledger!Learn, Ledger!Keys, Keys

(* The step that completes a run delivers what the files say.              *)
LEMMA LedgerDelivers ==
  ASSUME IInv, Complete
  PROVE  Ledger!Deliver
<1>1. \A p \in Pairs : KeyOf(p) \in Keys /\ judgments[p] # Unknown /\ judgments[p] = cache[KeyOf(p)]
  BY KeyTyped DEF IInv, Carded, Covered, Repeatable, Known, Complete
<1>2. \A p \in Pairs : Load(KeyOf(p)) = judgments[p]
  BY <1>1 DEF Load, IInv, TypeOK
<1>3. judgments = [p \in Pairs |-> Load(KeyOf(p))]
  BY <1>2 DEF IInv, TypeOK
<1>4. [k \in Keys |-> Load(k)]' = [k \in Keys |-> Load(k)]
  BY DEF Complete, Load
<1> QED
  BY <1>1, <1>2, <1>3, <1>4 DEF Ledger!Deliver, Ledger!KeyOf, Ledger!Keys, Keys, KeyOf, Complete

LEMMA LedgerStep ==
  ASSUME IInv, IInv', [Next]_vars,
         \A k \in Keys : cache[k] \in Verdicts => cache'[k] = cache[k]
  PROVE  [Ledger!Next]_(Ledger!ledgerVars)
<1>1. CASE Complete
  BY <1>1, LedgerDelivers DEF Ledger!Next
<1>2. CASE Exit \/ Kill
  <2>1. cards' = cards /\ cache' = cache /\ phase' = "idle"
    BY <1>2 DEF Exit, Kill, Forget
  <2>2. [k \in Keys |-> Load(k)]' = [k \in Keys |-> Load(k)]
    BY <2>1 DEF Load
  <2> QED
    BY <2>1, <2>2 DEF Ledger!Next, Ledger!Leave
<1>3. CASE \E r \in Rules : EditCard(r)
  <2>1. phase = "idle" /\ phase' = "idle" /\ cache' = cache /\ cards' \in [Rules -> Texts \cup {NoCard}]
    BY <1>3 DEF EditCard, IInv, TypeOK
  <2>2. [k \in Keys |-> Load(k)]' = [k \in Keys |-> Load(k)]
    BY <2>1 DEF Load
  <2> QED
    BY <2>1, <2>2 DEF Ledger!Next, Ledger!Rewrite
<1>4. CASE Start \/ StartWithoutCard \/ (\E r \in inflight : Answer(r) \/ Refuse(r) \/ StoreFails(r))
  <2>1. cards' = cards /\ phase # "done" /\ phase' # "done"
    BY <1>4 DEF Start, StartWithoutCard, Answer, Refuse, StoreFails, bounds
  <2> QED
    BY <2>1, LedgerExtends DEF IInv, Ledger!Next
<1>5. CASE UNCHANGED vars
  <2>1. [k \in Keys |-> Load(k)]' = [k \in Keys |-> Load(k)]
    BY <1>5 DEF Load, vars
  <2> QED
    BY <1>5, <2>1 DEF Ledger!ledgerVars, vars
<1> QED
  BY <1>1, <1>2, <1>3, <1>4, <1>5 DEF Next, Rest

(* Judgments implements JudgmentLedger.                                    *)
THEOREM Refinement == Spec => ImplementsLedger
<1> DEFINE Kept == \A k \in Keys : cache[k] \in Verdicts => cache'[k] = cache[k]
<1>1. IInv /\ IInv' /\ [Next]_vars /\ Kept => [Ledger!Next]_(Ledger!ledgerVars)
  BY LedgerStep
<1>2. [Kept]_vars => Kept
  BY DEF vars
<1> HIDE DEF Kept
<1>3. Spec => [][Kept]_vars
  BY FinalVerdicts DEF VerdictsAreFinal, Kept
<1> QED
  BY <1>1, <1>2, <1>3, LedgerInit, Invariance, PTL DEF Spec, ImplementsLedger, Ledger!Spec

-----------------------------------------------------------------------------
(* The counter that onProgress reports counts the verdicts of the map.     *)
Counted ==
  /\ phase \in {"judging", "done"} => completed = Cardinality(Known)
  /\ completed <= Cardinality(Known)
  /\ phase = "idle" => completed = 0

LEMMA CountedInit == Init => Counted
BY FS_EmptySet DEF Init, Counted, Known

LEMMA CountedStep ==
  ASSUME IInv, IInv', Counted, [Next]_vars
  PROVE  Counted'
<1> USE DEF Counted
<1>1. IsFiniteSet(Known) /\ IsFiniteSet(Known')
  BY PairsFinite, FS_Subset DEF Known
<1>2. Cardinality(Known) \in Nat /\ Cardinality(Known') \in Nat /\ completed \in Nat
  BY <1>1, FS_CardinalityType DEF IInv, TypeOK
<1>3. CASE Start
  <2>1. Known' = {p \in Pairs : Load(KeyOf(p)) # Unknown}
    BY <1>3 DEF Start, Known
  <2> QED
    BY <1>2, <1>3, <2>1 DEF Start
<1>4. ASSUME NEW r \in inflight, Answer(r)
      PROVE  Counted'
  <2>1. Batch(r) \subseteq Pairs /\ Known \cap Batch(r) = {}
    BY DEF Batch, IInv, TypeOK, Fresh, Known
  <2>2. Known' = Known \cup Batch(r)
    BY <1>4, <2>1, ValuesAssumption DEF Answer, Known
  <2>3. IsFiniteSet(Batch(r)) /\ Cardinality(Batch(r)) \in Nat
    BY <2>1, PairsFinite, FS_Subset, FS_CardinalityType
  <2>4. Cardinality(Known') = Cardinality(Known) + Cardinality(Batch(r))
    <3>1. Cardinality(Known \cup Batch(r))
            = Cardinality(Known) + Cardinality(Batch(r)) - Cardinality(Known \cap Batch(r))
      BY <1>1, <2>3, FS_Union
    <3>2. Cardinality(Known \cap Batch(r)) = 0
      BY <2>1, FS_EmptySet
    <3> QED
      BY <1>2, <2>2, <2>3, <3>1, <3>2
  <2> QED
    BY <1>2, <1>4, <2>3, <2>4 DEF Answer, IInv, TypeOK
<1>5. ASSUME NEW r \in inflight, StoreFails(r)
      PROVE  Counted'
  <2>1. Known \subseteq Known'
    BY <1>5, ValuesAssumption DEF StoreFails, Known
  <2>2. Cardinality(Known) <= Cardinality(Known')
    BY <1>1, <2>1, FS_Subset
  <2> QED
    BY <1>2, <1>5, <2>2 DEF StoreFails
<1>6. CASE Exit \/ Kill
  <2>1. completed' = 0 /\ phase' = "idle"
    BY <1>6 DEF Exit, Kill, Forget
  <2> QED
    BY <1>2, <2>1
<1>7. CASE StartWithoutCard \/ Complete \/ (\E r \in inflight : Refuse(r))
           \/ (\E r \in Rules : EditCard(r)) \/ UNCHANGED vars
  <2>1. completed' = completed /\ Known' = Known
    BY <1>7 DEF StartWithoutCard, Complete, Refuse, EditCard, vars, bounds, Known
  <2>2. phase' \in {"judging", "done"} => phase \in {"judging", "done"}
    BY <1>7 DEF StartWithoutCard, Complete, Refuse, EditCard, vars
  <2>3. phase' = "idle" => phase = "idle"
    BY <1>7 DEF StartWithoutCard, Complete, Refuse, EditCard, vars
  <2> QED
    BY <2>1, <2>2, <2>3
<1> QED
  BY <1>3, <1>4, <1>5, <1>6, <1>7 DEF Next, Rest

(* onProgress reports exactly the verdicts held, and all of them when the  *)
(* run completes.                                                          *)
THEOREM ExactProgress == Spec => []ProgressExact
<1>1. IInv /\ Counted => ProgressExact
  <2>1. IInv /\ phase = "done" => Known = Pairs
    BY DEF IInv, AtRest, Covered, Known
  <2> QED
    BY <2>1 DEF Counted, ProgressExact
<1>2. IInv /\ IInv' /\ Counted /\ [Next]_vars => Counted'
  BY CountedStep
<1> QED
  BY <1>1, <1>2, CountedInit, Invariance, PTL DEF Spec
=============================================================================
