----------------------------- MODULE Judgments -----------------------------
(***************************************************************************)
(* The judging phase of scripts/regenerate-relations.ts: judgeRulePairsAsync *)
(* of scripts/utilities/rule-relations/run.ts with the JSON-file cache of  *)
(* cache.ts, over successive runs of the script.                           *)
(*                                                                         *)
(* A run registers every unordered pair of rules once, takes what the cache *)
(* knows, and asks the decision model about the rest: the pairs of one     *)
(* source rule are cut into batches and every batch is a request of its    *)
(* own, all of them in flight together. A request may settle in any order, *)
(* may be refused, may come back without an answer, and the cache write    *)
(* that follows may fail half way; the first failure ends the run while    *)
(* its siblings still settle. The cache files outlive the run.             *)
(***************************************************************************)
EXTENDS Naturals, Sequences, FiniteSets

CONSTANTS
  Rules,      \* rule names, numbered in the order orderPair compares them
  Input,      \* options.pairs: a sequence of <<left, right>>, in any order
  BatchSize,  \* judgmentBatchSize
  Texts,      \* what a rule card may say
  NoCard,     \* a rule without a card
  Verdicts,   \* complete PairJudgments, as far as anything here tells apart
  Unknown,    \* undefined: no judgment
  Torn,       \* a cache file cut short by a failed write or a kill
  MaxRuns,    \* bound: how often the script is started
  MaxEdits,   \* bound: how often a rule card is edited between runs
  MaxFaults   \* bound: refused requests, failed writes and kills

ASSUME RulesAssumption == Rules \subseteq Nat
ASSUME InputAssumption ==
  /\ Input \in Seq(Rules \X Rules)
  /\ \A i \in 1..Len(Input) : Input[i][1] # Input[i][2]
ASSUME BatchAssumption == BatchSize \in Nat \ {0}
ASSUME ValuesAssumption ==
  /\ Unknown \notin Verdicts
  /\ Torn \notin Verdicts
  /\ Torn # Unknown
  /\ NoCard \notin Texts
  /\ Texts # {}
ASSUME BoundsAssumption == MaxRuns \in Nat /\ MaxEdits \in Nat /\ MaxFaults \in Nat

VARIABLES
  cards,      \* the rule cards; a run reads them once, before it registers
  cache,      \* .cache/rule-relations/judgments: one file per key
  phase,      \* where the script is
  judgments,  \* judgments: the verdicts this run holds
  pending,    \* pendingBySource: the pairs this run must ask about
  inflight,   \* the requests of this run that have not settled
  completed,  \* completed: what onProgress reports
  runs, edits, faults

bounds == <<runs, edits, faults>>
vars == <<cards, cache, phase, judgments, pending, inflight, completed, runs, edits, faults>>

-----------------------------------------------------------------------------
OrderPair(e) == IF e[1] < e[2] THEN e ELSE <<e[2], e[1]>>

(* seenPairs: a reversed or repeated entry is registered once *)
Pairs == {OrderPair(Input[i]) : i \in 1..Len(Input)}

(* p is registered before q *)
Position == [p \in Pairs |-> CHOOSE i \in 1..Len(Input) :
                               /\ OrderPair(Input[i]) = p
                               /\ \A j \in 1..Len(Input) : OrderPair(Input[j]) = p => i <= j]
Before(p, q) == Position[p] < Position[q]

(* The cache key digests both cards, so an edited card makes a new key. *)
Keys == Pairs \X Texts \X Texts
(* A mistake: the left card is digested twice. *)
KeyOfLeftCard(p) == <<p, cards[p[1]], cards[p[1]]>>
KeyOf(p) == <<p, cards[p[1]], cards[p[2]]>>

(* The request that asks about p: its source, and the slice of BatchSize   *)
(* candidates of that source in which p comes.                             *)
Request(p, asked) ==
  LET earlier == {q \in asked : q[1] = p[1] /\ Before(q, p)}
  IN  <<p[1], Cardinality(earlier) \div BatchSize>>
Requests(asked) == {Request(p, asked) : p \in asked}
Batch(r) == {p \in pending : Request(p, pending) = r}

HasCards == \A p \in Pairs : cards[p[1]] # NoCard /\ cards[p[2]] # NoCard

(* A file that is missing or torn reads as undefined. *)
Load(k) == IF cache[k] \in Verdicts THEN cache[k] ELSE Unknown

Init ==
  /\ cards \in [Rules -> Texts]
  /\ cache = [k \in Keys |-> Unknown]
  /\ phase = "idle"
  /\ judgments = [p \in Pairs |-> Unknown]
  /\ pending = {}
  /\ inflight = {}
  /\ completed = 0
  /\ runs = 0 /\ edits = 0 /\ faults = 0

(* A mistake: hits are used, and asked about all the same. *)
StartAsksAll ==
  /\ phase = "idle" /\ runs < MaxRuns
  /\ HasCards
  /\ judgments' = [p \in Pairs |-> Load(KeyOf(p))]
  /\ pending' = Pairs
  /\ inflight' = Requests(Pairs)
  /\ completed' = 0
  /\ phase' = "judging"
  /\ runs' = runs + 1
  /\ UNCHANGED <<cards, cache, edits, faults>>

(* registerPair for every entry, then all the requests at once *)
Start ==
  /\ phase = "idle" /\ runs < MaxRuns
  /\ HasCards
  /\ LET hits == {p \in Pairs : Load(KeyOf(p)) # Unknown}
     IN  /\ judgments' = [p \in Pairs |-> Load(KeyOf(p))]
         /\ pending' = Pairs \ hits
         /\ inflight' = Requests(Pairs \ hits)
         /\ completed' = Cardinality(hits)
  /\ phase' = "judging"
  /\ runs' = runs + 1
  /\ UNCHANGED <<cards, cache, edits, faults>>

(* getRuleCard throws before any request is made *)
StartWithoutCard ==
  /\ phase = "idle" /\ runs < MaxRuns
  /\ ~HasCards
  /\ phase' = "failing"
  /\ runs' = runs + 1
  /\ UNCHANGED <<cards, cache, judgments, pending, inflight, completed, edits, faults>>

(* Mistakes: a short batch counts as a full one; a file that exists, if    *)
(* only torn, is not written again.                                        *)
AnswerCountsFullBatch(r) ==
  /\ phase \in {"judging", "failing"}
  /\ r \in inflight
  /\ \E vs \in [Batch(r) -> Verdicts] :
       /\ judgments' = [p \in Pairs |-> IF p \in Batch(r) THEN vs[p] ELSE judgments[p]]
       /\ cache' = [k \in Keys |-> IF k[1] \in Batch(r) /\ k = KeyOf(k[1])
                                   THEN vs[k[1]] ELSE cache[k]]
  /\ completed' = completed + BatchSize
  /\ inflight' = inflight \ {r}
  /\ UNCHANGED <<cards, phase, pending, bounds>>
AnswerSkipsExisting(r) ==
  /\ phase \in {"judging", "failing"}
  /\ r \in inflight
  /\ \E vs \in [Batch(r) -> Verdicts] :
       /\ judgments' = [p \in Pairs |-> IF p \in Batch(r) THEN vs[p] ELSE judgments[p]]
       /\ cache' = [k \in Keys |-> IF k[1] \in Batch(r) /\ k = KeyOf(k[1]) /\ cache[k] = Unknown
                                   THEN vs[k[1]] ELSE cache[k]]
  /\ completed' = completed + Cardinality(Batch(r))
  /\ inflight' = inflight \ {r}
  /\ UNCHANGED <<cards, phase, pending, bounds>>

(* Every question of the batch has an answer: the whole batch is stored. *)
Answer(r) ==
  /\ phase \in {"judging", "failing"}
  /\ r \in inflight
  /\ \E vs \in [Batch(r) -> Verdicts] :
       /\ judgments' = [p \in Pairs |-> IF p \in Batch(r) THEN vs[p] ELSE judgments[p]]
       /\ cache' = [k \in Keys |-> IF k[1] \in Batch(r) /\ k = KeyOf(k[1])
                                   THEN vs[k[1]] ELSE cache[k]]
  /\ completed' = completed + Cardinality(Batch(r))
  /\ inflight' = inflight \ {r}
  /\ UNCHANGED <<cards, phase, pending, bounds>>

(* decide() rejects, or interpretJudgmentAnswers misses an answer: nothing *)
(* of the batch is kept, and Promise.all rejects.                          *)
Refuse(r) ==
  /\ phase \in {"judging", "failing"}
  /\ r \in inflight
  /\ faults < MaxFaults
  /\ faults' = faults + 1
  /\ inflight' = inflight \ {r}
  /\ phase' = "failing"
  /\ UNCHANGED <<cards, cache, judgments, pending, completed, runs, edits>>

(* The cache write for p throws: the candidates before p are kept and      *)
(* stored, p is kept but its file is untouched or torn, the rest is lost.  *)
StoreFails(r) ==
  /\ phase \in {"judging", "failing"}
  /\ r \in inflight
  /\ faults < MaxFaults
  /\ \E p \in Batch(r), file \in {Unknown, Torn} :
       LET stored == {q \in Batch(r) : Before(q, p)}
       IN  \E vs \in [stored \cup {p} -> Verdicts] :
             /\ judgments' = [q \in Pairs |-> IF q \in stored \cup {p} THEN vs[q] ELSE judgments[q]]
             /\ cache' = [k \in Keys |->
                  IF k[1] \in stored /\ k = KeyOf(k[1]) THEN vs[k[1]]
                  ELSE IF k = KeyOf(p) /\ file = Torn THEN Torn ELSE cache[k]]
  /\ faults' = faults + 1
  /\ inflight' = inflight \ {r}
  /\ phase' = "failing"
  /\ UNCHANGED <<cards, pending, completed, runs, edits>>

(* Mistakes: the requests are not awaited; the count is compared with the  *)
(* entries of options.pairs, which may repeat a pair.                      *)
CompleteUnawaited ==
  /\ phase = "judging"
  /\ phase' = "done"
  /\ UNCHANGED <<cards, cache, judgments, pending, inflight, completed, bounds>>
CompleteCountsEntries ==
  /\ phase = "judging"
  /\ inflight = {}
  /\ phase' = IF completed = Len(Input) THEN "done" ELSE "failing"
  /\ UNCHANGED <<cards, cache, judgments, pending, inflight, completed, bounds>>

(* Promise.all resolves: the map goes to resolveJudgedPairs. *)
Complete ==
  /\ phase = "judging"
  /\ inflight = {}
  /\ phase' = "done"
  /\ UNCHANGED <<cards, cache, judgments, pending, inflight, completed, bounds>>

(* The process ends: after a failure while siblings may still be in flight, *)
(* or when the run's result has been used. Only the files remain. A        *)
(* mistake: requests of one run reach the next.                            *)
ForgetKeepsRequests ==
  /\ phase' = "idle"
  /\ judgments' = [p \in Pairs |-> Unknown]
  /\ pending' = {}
  /\ completed' = 0
  /\ UNCHANGED <<cards, cache, inflight>>
Forget ==
  /\ phase' = "idle"
  /\ judgments' = [p \in Pairs |-> Unknown]
  /\ pending' = {}
  /\ inflight' = {}
  /\ completed' = 0
  /\ UNCHANGED <<cards, cache>>

Exit == phase \in {"failing", "done"} /\ Forget /\ UNCHANGED bounds

(* Interrupted from outside, between two steps of the event loop. *)
Kill ==
  /\ phase = "judging"
  /\ faults < MaxFaults
  /\ faults' = faults + 1
  /\ Forget
  /\ UNCHANGED <<runs, edits>>

(* A rule's source, docs or tests change what its card says. *)
EditCard(r) ==
  /\ phase = "idle" /\ edits < MaxEdits
  /\ \E text \in Texts \cup {NoCard} : cards' = [cards EXCEPT ![r] = text]
  /\ edits' = edits + 1
  /\ UNCHANGED <<cache, phase, judgments, pending, inflight, completed, runs, faults>>

(* The script is not started again: the files stay as they are. *)
Rest ==
  /\ phase = "idle" /\ runs = MaxRuns
  /\ UNCHANGED vars

AllRequests == {<<p[1], n>> : p \in Pairs, n \in 0..(Cardinality(Pairs) \div BatchSize)}
Settle(r) == Answer(r) \/ Refuse(r) \/ StoreFails(r)

Next ==
  \/ Start \/ StartWithoutCard
  \/ \E r \in inflight : Answer(r)
  \/ \E r \in inflight : Refuse(r)
  \/ \E r \in inflight : StoreFails(r)
  \/ Complete \/ Exit \/ Kill
  \/ \E r \in Rules : EditCard(r)
  \/ Rest

Spec == Init /\ [][Next]_vars

(* Every request settles in the end (an assumption about the HTTP client:  *)
(* the code sets no timeout), the event loop runs what is ready, and the   *)
(* maintainer starts the script again when a run has failed.               *)
Fairness ==
  /\ \A r \in AllRequests : WF_vars(Settle(r))
  /\ WF_vars(Start) /\ WF_vars(Complete) /\ WF_vars(Exit)
FairSpec == Spec /\ Fairness

-----------------------------------------------------------------------------
TypeOK ==
  /\ cards \in [Rules -> Texts \cup {NoCard}]
  /\ cache \in [Keys -> Verdicts \cup {Unknown, Torn}]
  /\ phase \in {"idle", "judging", "failing", "done"}
  /\ judgments \in [Pairs -> Verdicts \cup {Unknown}]
  /\ pending \subseteq Pairs
  /\ inflight \subseteq Requests(pending)
  /\ completed \in Nat
  /\ runs \in 0..MaxRuns /\ edits \in 0..MaxEdits /\ faults \in 0..MaxFaults

Known == {p \in Pairs : judgments[p] # Unknown}

(* A run that is still on course (judging or done) has told onProgress     *)
(* exactly how many pairs it holds a verdict for: the counter moved once   *)
(* per batch after an await never drifts from the map the batches share,   *)
(* so "completed" reaches "total" exactly when the run completes.          *)
ProgressExact ==
  /\ phase \in {"judging", "done"} => completed = Cardinality(Known)
  /\ phase = "done" => completed = Cardinality(Pairs)
  /\ completed <= Cardinality(Known)

(* What a run holds is what its successor will read from the files, under  *)
(* the keys of the cards as they are: a completed run can be repeated      *)
(* offline with the same result.                                           *)
Repeatable ==
  phase \in {"judging", "done"} =>
    \A p \in Known : KeyOf(p) \in Keys /\ cache[KeyOf(p)] = judgments[p]

(* The map given to resolveJudgedPairs has a judgment for every pair, so   *)
(* its "Missing judgments" error cannot happen.                            *)
NothingMissing == phase = "done" => Known = Pairs

(* A verdict on disk is never overwritten, torn or lost, whatever fails    *)
(* and however the runs and edits interleave: no pair is paid for twice.   *)
VerdictsAreFinal ==
  [][\A k \in Keys : cache[k] \in Verdicts => cache'[k] = cache[k]]_vars

(* A failed run loses nothing it had been answered in full, and a later    *)
(* run asks only about keys no file answers.                               *)
AsksOnlyUnknown ==
  \A p \in pending : Request(p, pending) \in inflight => cache[KeyOf(p)] \notin Verdicts

(* As long as the faults stop, the maintainer's restarts end in a complete *)
(* run, unless a rule has lost its card.                                   *)
EventuallyDone == <>(phase = "done" \/ ~HasCards)

Ledger == INSTANCE JudgmentLedger WITH
  ledger <- [k \in Keys |-> Load(k)],
  delivered <- IF phase = "done" THEN judgments ELSE Unknown

(* The files are a ledger of verdicts and a run delivers the ledger's      *)
(* verdicts for all its pairs or nothing (JudgmentLedger.tla).             *)
ImplementsLedger == Ledger!Spec
=============================================================================
