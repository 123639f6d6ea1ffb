--------------------------- MODULE LanguageServers ---------------------------
(***************************************************************************)
(* Settings files, what a run of disable-tsgo did to them, and what it     *)
(* should do to their lists of language servers; DisableTsgo.tla is the    *)
(* run. A file is a record: lists, the sequence of its lists, the one of   *)
(* the top level and those of the languages; elsewhere, whether "tsgo"     *)
(* stands in its text outside them, as a key or in a comment; and valid,   *)
(* whether it can be parsed and has the form of settings.                  *)
(***************************************************************************)
EXTENDS Naturals, Sequences, SequencesExt

CONSTANT Paths

VARIABLES
  files, original,   \* what is in the files now, and what was before the run
  dryRun,
  skipped,            \* the files that the run could not read
  changed,           \* the files to be rewritten
  tsgoStatus         \* how the run ended

-----------------------------------------------------------------------------
FirstAt(list, server) == CHOOSE i \in DOMAIN list : list[i] = server /\ \A j \in 1 .. i - 1 : list[j] # server

(* A file whose text does not name tsgo is left alone, one that only turns *)
(* vtsls off included.                                                     *)
Listed(text) == \E i \in DOMAIN text.lists : Contains(text.lists[i], "tsgo")
Mentions(text) == text.elsewhere \/ Listed(text)

(* When a run reports that it found nothing or has modified its files, no  *)
(* list has tsgo in the settings that it could read, so the next run has   *)
(* nothing to change; where tsgo was on, vtsls is; servers keep their      *)
(* order, and the catch-all that stood last still does. The files counted  *)
(* are those that differ. Files that it cannot read and files that are not *)
(* settings it passes over without a word.                                 *)
Own == {"tsgo", "!tsgo", "vtsls", "!vtsls"}
InOrder(before, after) ==
  \E at \in [DOMAIN before -> DOMAIN after] :
    /\ \A i \in DOMAIN before :
         /\ after[at[i]] = before[i] \/ {before[i], after[at[i]]} \subseteq Own
         /\ \A j \in 1 .. i - 1 : at[j] < at[i]
    /\ \A k \in DOMAIN after : after[k] = "vtsls" \/ \E i \in DOMAIN before : at[i] = k
TakenOver(before, after) ==
  /\ Contains(before, "tsgo") => Contains(after, "vtsls")
  /\ InOrder(before, after)
  /\ Contains(before, "...") /\ FirstAt(before, "...") = Len(before) => Last(after) = "..."
VtslsTakesOver ==
  tsgoStatus = "nothing" \/ (tsgoStatus = "summarised" /\ ~ dryRun) =>
    /\ \A p \in Paths \ skipped : original[p].valid => ~ Listed(files[p])
    /\ changed = {p \in Paths : files[p] # original[p]}
    /\ \A p \in changed : \A i \in DOMAIN files[p].lists : TakenOver(original[p].lists[i], files[p].lists[i])
=============================================================================
