--------------------------- MODULE JudgmentLedger ---------------------------
(***************************************************************************)
(* What the judging half of the relation generator promises, without its   *)
(* requests, batches and files: a ledger that learns one verdict per pair  *)
(* of rule cards and never revises it, and runs that deliver the ledger's  *)
(* verdicts for every pair they were asked about, or nothing at all.       *)
(* Judgments.tla is the detailed specification that implements it.         *)
(***************************************************************************)
CONSTANTS
  Rules,     \* the lint rules
  Pairs,     \* the ordered pairs <<left, right>> of rules a run is asked about
  Texts,     \* what a rule card may say
  NoCard,    \* a rule that has no card; not a text
  Verdicts,  \* what the decision model may answer for a pair
  Unknown    \* "no verdict"; not a verdict

VARIABLES
  cards,     \* the rule cards as they are now
  ledger,    \* the verdict filed under each key
  delivered  \* the verdicts of the run that has just completed, or Unknown

ledgerVars == <<cards, ledger, delivered>>

(* A verdict is about two texts, whatever the rules say later. *)
Keys == Pairs \X Texts \X Texts
KeyOf(p) == <<p, cards[p[1]], cards[p[2]]>>

Init ==
  /\ cards \in [Rules -> Texts]
  /\ ledger = [k \in Keys |-> Unknown]
  /\ delivered = Unknown

(* Some keys that had no verdict get one; no key loses or changes its own. *)
Learn ==
  /\ ledger' \in [Keys -> Verdicts \cup {Unknown}]
  /\ \A k \in Keys : ledger[k] # Unknown => ledger'[k] = ledger[k]
  /\ delivered = Unknown
  /\ UNCHANGED <<cards, delivered>>

(* A run completes: it knows every pair and says what the ledger says. *)
Deliver ==
  /\ delivered = Unknown
  /\ \A p \in Pairs : KeyOf(p) \in Keys /\ ledger[KeyOf(p)] # Unknown
  /\ delivered' = [p \in Pairs |-> ledger[KeyOf(p)]]
  /\ UNCHANGED <<cards, ledger>>

(* The process that held a run's result is gone. *)
Leave ==
  /\ delivered' = Unknown
  /\ UNCHANGED <<cards, ledger>>

(* Somebody edits the rules between two runs. *)
Rewrite ==
  /\ delivered = Unknown
  /\ cards' \in [Rules -> Texts \cup {NoCard}]
  /\ UNCHANGED <<ledger, delivered>>

Next == Learn \/ Deliver \/ Leave \/ Rewrite

Spec == Init /\ [][Next]_ledgerVars
=============================================================================
