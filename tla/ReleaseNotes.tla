---------------------------- MODULE ReleaseNotes ----------------------------
(***************************************************************************)
(* scripts/regenerate-release-notes.ts: a maintainer regenerates the notes *)
(* of some releases with communique and saves them to the documentation    *)
(* and to the releases on GitHub. One action per await; every command and  *)
(* request may fail, the process may be killed, and somebody else may edit *)
(* a target meanwhile. Notes are model values: communique may write other  *)
(* notes each time it is asked.                                            *)
(***************************************************************************)
EXTENDS Naturals, FiniteSets

CONSTANTS
  Tags,        \* numbered, the newest release has the greatest number
  Notes,
  Options,     \* command lines: [dryRun, yes, wanted, requested]; {}: no --tags
  MaxRuns,     \* bound: starts of the script
  MaxEdits     \* bound: edits by others

VARIABLES
  documentation, releases,     \* what each target holds for a tag
  localTags,                   \* tags of the local git repository
  step, options, selected, targets, temporary,
  tag, saved, notes, outcome,  \* the tag at hand, and what came of each
  status,
  before, touched, unread,     \* held when the run began; edited, or not readable, during it
  runs, edits

disk == <<documentation, releases>>
choices == <<options, selected, targets>>
ghosts == <<before, touched, unread, edits>>
vars == <<disk, localTags, step, choices, temporary, tag, saved, notes, outcome, status, ghosts, runs>>

Missing == "missing"         \* no file, no release, no body
Torn == "torn"               \* a file cut short
Targets == {"documentation", "github"}
Held(target) == IF target = "documentation" THEN documentation ELSE releases
Newest(set) == {t \in set : \A u \in set : u <= t}
Pending == {t \in selected : outcome[t] = "pending"}

(* An earlier run may have been killed. *)
Init ==
  /\ documentation \in [Tags -> Notes \cup {Missing, Torn}]
  /\ releases \in [Tags -> Notes \cup {Missing}]
  /\ localTags \in {Tags, Tags \ Newest(Tags)}
  /\ step = "idle" /\ options = CHOOSE o \in Options : TRUE
  /\ selected = {} /\ targets = {} /\ temporary = FALSE
  /\ tag = 0 /\ saved = {} /\ notes = [t \in Tags |-> Missing]
  /\ outcome = [t \in Tags |-> "none"] /\ status = "none"
  /\ before = [target \in Targets |-> Held(target)] /\ touched = {} /\ unread = {}
  /\ runs = 0 /\ edits = 0

-----------------------------------------------------------------------------
(* Up to the confirmation. *)
End(how) == step' = "idle" /\ status' = how
Idle == UNCHANGED <<disk, tag, saved, notes, outcome, ghosts, runs>>

Begin ==
  /\ step = "idle" /\ runs < MaxRuns
  /\ runs' = runs + 1
  /\ options' \in Options
  /\ step' = "credentials" /\ status' = "running"
  /\ selected' = {} /\ targets' = {} /\ tag' = 0 /\ saved' = {}
  /\ notes' = [t \in Tags |-> Missing] /\ outcome' = [t \in Tags |-> "none"]
  /\ before' = [target \in Targets |-> Held(target)] /\ touched' = {} /\ unread' = {}
  /\ temporary' = FALSE
  /\ UNCHANGED <<disk, localTags, edits>>

Credentials ==
  /\ step = "credentials"
  /\ \/ step' = "tags" /\ UNCHANGED status
     \/ End("refused")
  /\ Idle /\ UNCHANGED <<localTags, choices, temporary>>

(* The tags that have a file; asked for, all with --yes, or picked. *)
Available == {t \in Tags : documentation[t] # Missing}
SelectTags ==
  /\ step = "tags"
  /\ \/ /\ Available # {} /\ options.requested \subseteq Available
        /\ selected' \in IF options.requested # {} THEN {options.requested}
                         ELSE IF options.yes THEN {Available} ELSE SUBSET Available \ {{}}
        /\ step' = "targets" /\ UNCHANGED status
     \/ (Available = {} \/ ~ options.requested \subseteq Available) /\ End("refused") /\ UNCHANGED selected
     \/ Available # {} /\ options.requested = {} /\ ~ options.yes /\ End("cancelled") /\ UNCHANGED selected
  /\ Idle /\ UNCHANGED <<localTags, options, targets, temporary>>

Asked == ~ options.yes /\ Cardinality(options.wanted) = 2
SelectTargets ==
  /\ step = "targets"
  /\ \/ /\ targets' \in IF Asked THEN SUBSET options.wanted \ {{}} ELSE {options.wanted}
        /\ IF targets' = {} THEN End("refused") ELSE step' = "fetch" /\ UNCHANGED status
     \/ Asked /\ End("cancelled") /\ UNCHANGED targets
  /\ Idle /\ UNCHANGED <<localTags, options, selected, temporary>>

EnsureTagsFetched ==
  /\ step = "fetch"
  /\ \/ selected \subseteq localTags /\ step' = "confirm" /\ UNCHANGED <<status, localTags>>
     \/ ~ selected \subseteq localTags /\ step' = "confirm" /\ localTags' = Tags /\ UNCHANGED status
     \/ ~ selected \subseteq localTags /\ End("refused") /\ UNCHANGED localTags
     \/ ~ selected \subseteq localTags /\ ~ options.yes /\ End("cancelled") /\ UNCHANGED localTags
  /\ Idle /\ UNCHANGED <<choices, temporary>>

Confirm ==
  /\ step = "confirm"
  /\ \/ /\ step' = "generate" /\ temporary' = TRUE
        /\ outcome' = [t \in Tags |-> IF t \in selected THEN "pending" ELSE "none"]
        /\ UNCHANGED status
     \/ ~ options.yes /\ End("cancelled") /\ UNCHANGED <<temporary, outcome>>
  /\ UNCHANGED <<disk, localTags, choices, tag, saved, notes, ghosts, runs>>

-----------------------------------------------------------------------------
(* One tag after the other, the newest first. Settle counts the outcome of *)
(* a tag; after the last one the directory goes and the count of failures  *)
(* is the exit status.                                                     *)
Settle(result) ==
  /\ outcome' = [outcome EXCEPT ![tag'] = result]
  /\ IF \E t \in selected : outcome'[t] = "pending"
     THEN step' = "generate" /\ UNCHANGED <<status, temporary>>
     ELSE /\ End(IF \E t \in selected : outcome'[t] = "failed" THEN "failed" ELSE "finished")
          /\ temporary' = FALSE

(* communique fails, or writes the notes, or exits without a file: reading *)
(* that is outside the try and ends the run.                               *)
Generate ==
  /\ step = "generate"
  /\ tag' \in Newest(Pending) /\ saved' = {}
  /\ \/ \E n \in Notes :
          /\ notes' = [notes EXCEPT ![tag'] = n]
          /\ step' = IF "documentation" \in targets THEN "document" ELSE "get"
          /\ UNCHANGED <<status, temporary, outcome>>
     \/ Settle("failed") /\ UNCHANGED notes
     \/ End("thrown") /\ temporary' = FALSE /\ UNCHANGED <<notes, outcome>>
  /\ UNCHANGED <<disk, localTags, choices, ghosts, runs>>

(* The outcome of a tag is that of the first target that changed. Two      *)
(* mistakes: it is that of the first target; a target that is current ends *)
(* the saving.                                                             *)
OutcomeFirst(results) == IF results = {"changed"} THEN "changed" ELSE "unchanged"
Outcome(results) == IF "changed" \in results THEN "changed" ELSE "unchanged"

AfterChange(target, result) == target = "documentation" /\ "github" \in targets /\ result = "changed"
After(target, result) == target = "documentation" /\ "github" \in targets

Save(target, result) ==
  /\ tag' = tag /\ saved' = saved \cup {result}
  /\ IF After(target, result)
     THEN step' = "get" /\ UNCHANGED <<outcome, status, temporary>>
     ELSE Settle(Outcome(saved'))

Writes == ~ options.dryRun

GoOn(next) == step' = next /\ tag' = tag /\ UNCHANGED <<saved, outcome, status, temporary>>

(* A page that cannot be read counts as one that is missing: it is written *)
(* and counted as changed, though it may be current.                       *)
ReadDocumentation ==
  /\ step = "document"
  /\ \/ documentation[tag] = notes[tag] /\ Save("documentation", "unchanged") /\ UNCHANGED unread
     \/ /\ \/ documentation[tag] # notes[tag] /\ UNCHANGED unread
           \/ unread' = unread \cup {tag}
        /\ IF Writes THEN GoOn("write") ELSE Save("documentation", "changed")
  /\ UNCHANGED <<disk, localTags, choices, notes, before, touched, edits, runs>>

WriteDocumentation ==
  /\ step = "write"
  /\ \/ documentation' = [documentation EXCEPT ![tag] = notes[tag]] /\ Save("documentation", "changed")
     \/ /\ documentation' \in {documentation, [documentation EXCEPT ![tag] = Torn]}
        /\ tag' = tag /\ saved' = saved /\ Settle("failed")
  /\ UNCHANGED <<releases, localTags, choices, notes, ghosts, runs>>

GetRelease ==
  /\ step = "get"
  /\ \/ releases[tag] = notes[tag] /\ Save("github", "unchanged")
     \/ releases[tag] # notes[tag] /\ ~ Writes /\ Save("github", "changed")
     \/ releases[tag] # notes[tag] /\ Writes /\ GoOn("update")
     \/ tag' = tag /\ saved' = saved /\ Settle("failed")
  /\ UNCHANGED <<disk, localTags, choices, notes, ghosts, runs>>

(* A request that fails may have been carried out. *)
UpdateRelease ==
  /\ step = "update"
  /\ \/ releases' = [releases EXCEPT ![tag] = notes[tag]] /\ Save("github", "changed")
     \/ /\ releases' \in {releases, [releases EXCEPT ![tag] = notes[tag]]}
        /\ tag' = tag /\ saved' = saved /\ Settle("failed")
  /\ UNCHANGED <<documentation, localTags, choices, notes, ghosts, runs>>

-----------------------------------------------------------------------------
(* What was being written may be there, in part or not at all.             *)
Kill ==
  /\ step # "idle" /\ End("killed")
  /\ IF step = "write"
     THEN \E text \in {documentation[tag], notes[tag], Torn} : documentation' = [documentation EXCEPT ![tag] = text]
     ELSE UNCHANGED documentation
  /\ IF step = "update"
     THEN \E text \in {releases[tag], notes[tag]} : releases' = [releases EXCEPT ![tag] = text]
     ELSE UNCHANGED releases
  /\ UNCHANGED <<localTags, choices, temporary, tag, saved, notes, outcome, ghosts, runs>>

Edit(target, t) ==
  /\ step # "idle" /\ edits < MaxEdits /\ edits' = edits + 1
  /\ touched' = touched \cup {<<target, t>>}
  /\ \E n \in Notes \ {Held(target)[t]} :
       IF target = "documentation"
       THEN documentation' = [documentation EXCEPT ![t] = n] /\ UNCHANGED releases
       ELSE /\ releases[t] # Missing
            /\ releases' = [releases EXCEPT ![t] = n] /\ UNCHANGED documentation
  /\ UNCHANGED <<localTags, step, choices, temporary, tag, saved, notes, outcome, status, before, unread, runs>>

Next ==
  \/ Begin \/ Credentials \/ SelectTags \/ SelectTargets \/ EnsureTagsFetched \/ Confirm
  \/ Generate \/ ReadDocumentation \/ WriteDocumentation \/ GetRelease \/ UpdateRelease
  \/ Kill
  \/ \E target \in Targets, t \in Tags : Edit(target, t)

Spec == Init /\ [][Next]_vars

-----------------------------------------------------------------------------
(* Values have their types, and the directory for the notes outlives a run *)
(* only if that was killed.                                                *)
TypeOK ==
  /\ documentation \in [Tags -> Notes \cup {Missing, Torn}]
  /\ releases \in [Tags -> Notes \cup {Missing}]
  /\ options \in Options /\ selected \subseteq Tags /\ targets \subseteq options.wanted
  /\ temporary => step # "idle" \/ status = "killed"
  /\ saved \subseteq {"changed", "unchanged"} /\ unread \subseteq selected

(* When a tag was counted as updated or unchanged, every chosen target     *)
(* holds the new notes, unless somebody edited it since; and a run that    *)
(* ends without an error has dealt with every selected tag. What failed    *)
(* may have been saved to one target only.                                 *)
Done(t) == outcome[t] \in {"changed", "unchanged"}
OutcomesHold ==
  /\ ~ options.dryRun =>
       \A t \in Tags, target \in targets :
         Done(t) /\ <<target, t>> \notin touched => Held(target)[t] = notes[t]
  /\ status = "finished" => \A t \in selected : Done(t)

(* A tag is reported as changed exactly if some chosen target held other   *)
(* notes when the run began, or its page could not be read: one that is    *)
(* current hides none that is stale, in a dry run as well.                 *)
ReportsAreTrue ==
  \A t \in Tags :
    Done(t) /\ (\A target \in Targets : <<target, t>> \notin touched) =>
      (outcome[t] = "changed" <=> t \in unread \/ \E target \in targets : before[target][t] # notes[t])

=============================================================================
