--------------------------- MODULE DecisionsProofs ---------------------------
(***************************************************************************)
(* Proofs about five of the deciders of MCDecisions.tla:                   *)
(* ReleaseNotes.tla, for any number of tags, notes, command lines, runs    *)
(* and edits by others; ComponentDiscovery.tla, for every tree of          *)
(* directories, any number of files and any sequence of edits and lints;   *)
(* DisableTsgo.tla, for any settings and any writes that fail;             *)
(* ConstantConditions.tla, for expressions and loops of any size;          *)
(* HarnessScopes.tla, for trees of any size.                               *)
(***************************************************************************)
EXTENDS ReleaseNotes, LocalComponents, LanguageServers, ConstantTests, Bindings,
        FiniteSetTheorems, SequenceTheorems, WellFoundedInduction, TLAPS

CONSTANT OtherFiles                                      \* of ComponentDiscovery
VARIABLES projectRootCache, fileIndexCache, fileTextCache,
          definition, discovery
Discovery == INSTANCE ComponentDiscovery

-----------------------------------------------------------------------------
(* The release notes.                                                      *)

(* What a command line may say.                                            *)
OptionsAssumption == Options # {} /\ \A o \in Options : o.wanted \subseteq Targets

Choosing == step \in {"credentials", "tags", "targets", "fetch", "confirm"}
Saving == step \in {"document", "write", "get", "update"}
Working == step = "generate" \/ Saving
Untouched(target, t) == <<target, t>> \notin touched

Types ==
  /\ TypeOK
  /\ notes \in [Tags -> Notes \cup {Missing}]
  /\ outcome \in [Tags -> {"none", "pending", "changed", "unchanged", "failed"}]
  /\ step \in {"idle", "credentials", "tags", "targets", "fetch", "confirm", "generate",
               "document", "write", "get", "update"}

(* Where the run stands: nothing has an outcome before the confirmation;   *)
(* then every selected tag has one or waits for it, and the tag that is    *)
(* being saved waits.                                                      *)
Course ==
  /\ step # "idle" => status = "running"
  /\ Choosing => temporary = FALSE /\ \A t \in Tags : outcome[t] = "none"
  /\ Working => targets # {} /\ \A t \in selected : outcome[t] # "none"
  /\ step = "confirm" \/ step = "fetch" => targets # {}
  /\ Saving => tag \in selected /\ outcome[tag] = "pending"
  /\ step \in {"document", "write"} => "documentation" \in targets /\ saved = {}
  /\ step \in {"get", "update"} => "github" \in targets
  /\ step \in {"write", "update"} => Writes

(* A target of the tag held other notes, or its page could not be read.    *)
Stale(t) == t \in unread \/ before["documentation"][t] # notes[t]

(* Until a tag is saved, its targets hold what they held when the run      *)
(* began, or what somebody else has put there.                             *)
Before ==
  step # "idle" =>
    /\ \A target \in Targets, t \in Tags :
         /\ Untouched(target, t) /\ outcome[t] \in {"none", "pending"}
         /\ ~ (Saving /\ t = tag)
         => Held(target)[t] = before[target][t]
    /\ step \in {"document", "write"} /\ Untouched("documentation", tag) =>
         documentation[tag] = before["documentation"][tag]
    /\ Saving /\ Untouched("github", tag) => releases[tag] = before["github"][tag]

(* Pages are read one tag after the other, for the documentation only.     *)
Reads ==
  step # "idle" =>
    /\ \A t \in Tags : outcome[t] \in {"none", "pending"} /\ ~ (Saving /\ t = tag) => t \notin unread
    /\ step = "document" => tag \notin unread
    /\ step = "write" /\ Untouched("documentation", tag) => Stale(tag)

(* Between the two targets of a tag: the documentation is done, and what   *)
(* has been noted of it is so.                                             *)
HalfSaved ==
  step \in {"get", "update"} =>
    /\ step = "update" /\ Untouched("github", tag) => releases[tag] # notes[tag]
    /\ "documentation" \notin targets => saved = {} /\ tag \notin unread
    /\ "documentation" \in targets /\ Untouched("documentation", tag) =>
         /\ saved = IF Stale(tag) THEN {"changed"} ELSE {"unchanged"}
         /\ Writes => documentation[tag] = notes[tag]

IInv == Types /\ Course /\ Before /\ Reads /\ HalfSaved /\ OutcomesHold /\ ReportsAreTrue

-----------------------------------------------------------------------------
LEMMA InitIInv == OptionsAssumption /\ Init => IInv
<1> SUFFICES ASSUME OptionsAssumption, Init PROVE IInv
  OBVIOUS
<1> USE DEF Init
<1>1. Types
  BY DEF Types, TypeOK, OptionsAssumption
<1>2. Course /\ Before /\ Reads /\ HalfSaved
  BY DEF Course, Before, Reads, HalfSaved, Choosing, Saving, Working
<1>3. OutcomesHold /\ ReportsAreTrue
  BY DEF OutcomesHold, ReportsAreTrue, Done
<1> QED
  BY <1>1, <1>2, <1>3 DEF IInv

(* The script starts: what the targets hold is what they held before.      *)
LEMMA BeginIInv ==
  ASSUME OptionsAssumption, IInv, Begin
  PROVE  IInv'
<1> USE DEF Begin
<1>1. Types'
  BY DEF IInv, Types, TypeOK, disk
<1>2. Course' /\ Reads' /\ HalfSaved'
  BY DEF Course, Reads, HalfSaved, Choosing, Saving, Working
<1>3. Before'
  BY DEF Before, Saving, Untouched, Held, disk
<1>4. OutcomesHold' /\ ReportsAreTrue'
  BY DEF OutcomesHold, ReportsAreTrue, Done
<1> QED
  BY <1>1, <1>2, <1>3, <1>4 DEF IInv

(* Up to the confirmation nothing is saved and nothing has an outcome. *)
LEMMA ChoosingIInv ==
  ASSUME OptionsAssumption, IInv,
         Credentials \/ SelectTags \/ SelectTargets \/ EnsureTagsFetched \/ Confirm
  PROVE  IInv'
<1> USE DEF Credentials, SelectTags, SelectTargets, EnsureTagsFetched, Confirm, Idle, End
<1>1. /\ Choosing
      /\ step' = "idle" \/ Choosing' \/ step' = "generate"
      /\ UNCHANGED <<disk, before, touched, unread, notes, saved, tag, options>>
  BY DEF Choosing, choices, ghosts
<1>2. Types'
  <2>1. /\ selected' \subseteq Tags
        /\ targets' \subseteq options.wanted
        /\ outcome' \in [Tags -> {"none", "pending", "changed", "unchanged", "failed"}]
        /\ step' \in {"idle", "credentials", "tags", "targets", "fetch", "confirm", "generate"}
    BY DEF IInv, Types, TypeOK, Available, choices
  <2>2. temporary' => step' # "idle" \/ status' = "killed"
    BY DEF IInv, Course, Choosing
  <2>3. unread' = {}
    BY <1>1 DEF IInv, Types, TypeOK, Course, Reads, Choosing, Saving
  <2> QED
    BY <1>1, <2>1, <2>2, <2>3 DEF IInv, Types, TypeOK, disk
<1>3. \A t \in Tags : ~ Done(t)' /\ outcome'[t] \in {"none", "pending"}
  BY DEF IInv, Types, TypeOK, Course, Choosing, Done
<1>4. Course'
  BY <1>1 DEF IInv, Types, TypeOK, Course, Choosing, Saving, Working, choices
<1>5. Before' /\ Reads' /\ HalfSaved'
  BY <1>1, <1>3 DEF IInv, Course, Before, Reads, HalfSaved, Choosing, Saving, Untouched, Held, disk
<1>6. OutcomesHold' /\ ReportsAreTrue'
  <2>1. status' \in {"running", "refused", "cancelled"}
    BY <1>1 DEF IInv, Course, Choosing
  <2> QED
    BY <1>3, <2>1 DEF OutcomesHold, ReportsAreTrue
<1> QED
  BY <1>2, <1>4, <1>5, <1>6 DEF IInv

-----------------------------------------------------------------------------
(* What a step that settles a tag leaves: the tag has its outcome, the     *)
(* others keep theirs, and the run goes on or ends.                        *)
LEMMA SettleSteps ==
  ASSUME Types, tag' \in Tags, NEW result \in {"changed", "unchanged", "failed"}, Settle(result),
         selected' = selected, \A t \in selected : outcome[t] # "none"
  PROVE  /\ outcome' = [outcome EXCEPT ![tag'] = result]
         /\ step' \in {"generate", "idle"}
         /\ step' = "generate" => status' = status /\ temporary' = temporary
         /\ step' = "idle" => temporary' = FALSE
         /\ status' = "finished" /\ step' = "idle" => \A t \in selected : Done(t)'
<1> USE DEF Settle, End
<1>1. outcome' = [outcome EXCEPT ![tag'] = result]
  OBVIOUS
<1>2. outcome' \in [Tags -> {"none", "pending", "changed", "unchanged", "failed"}]
  BY <1>1 DEF Types
<1>3. \A t \in selected : outcome'[t] # "none"
  BY <1>1 DEF Types, TypeOK
<1>4. status' = "finished" /\ step' = "idle" => \A t \in selected : Done(t)'
  BY <1>2, <1>3 DEF Done, Types, TypeOK
<1> QED
  BY <1>1, <1>4

(* Settling a tag, if its outcome is what its targets show: the other tags *)
(* are as they were.                                                       *)
LEMMA SettleIInv ==
  ASSUME IInv, Working, NEW result \in {"changed", "unchanged", "failed"}, Settle(result),
         tag' \in Tags, outcome[tag'] = "pending", Saving => tag' = tag,
         saved' \subseteq {"changed", "unchanged"},
         documentation' \in [Tags -> Notes \cup {Missing, Torn}],
         releases' \in [Tags -> Notes \cup {Missing}],
         \A t \in Tags \ {tag'} : documentation'[t] = documentation[t] /\ releases'[t] = releases[t],
         UNCHANGED <<notes, choices, before, touched>>,
         unread' \subseteq selected, unread \ {tag'} = unread' \ {tag'},
         result # "failed" /\ Writes =>
           \A target \in targets : Untouched(target, tag') => Held(target)'[tag'] = notes[tag'],
         result # "failed" /\ (\A target \in Targets : Untouched(target, tag')) =>
           (result = "changed" <=> \/ tag' \in unread'
                                   \/ \E target \in targets : before[target][tag'] # notes[tag'])
  PROVE  IInv'
<1>1. /\ outcome' = [outcome EXCEPT ![tag'] = result]
      /\ step' \in {"generate", "idle"}
      /\ step' = "generate" => status' = status /\ temporary' = temporary
      /\ step' = "idle" => temporary' = FALSE
      /\ status' = "finished" /\ step' = "idle" => \A t \in selected : Done(t)'
  BY SettleSteps DEF IInv, Course, choices
<1>2. Types'
  BY <1>1 DEF IInv, Types, TypeOK, choices
<1>3. status = "running"
  BY DEF IInv, Course, Working, Saving
<1>4. Course'
  BY <1>1, <1>3 DEF IInv, Types, TypeOK, Course, Working, Choosing, Saving, choices
<1>5. Before' /\ Reads' /\ HalfSaved'
  <2>1. ~ Saving' /\ step' \notin {"get", "update", "document", "write"}
    BY <1>1 DEF Saving
  <2>2. \A target \in Targets, t \in Tags \ {tag'} :
          Untouched(target, t)' /\ outcome'[t] \in {"none", "pending"} =>
            Held(target)'[t] = before'[target][t]
    BY <1>1 DEF IInv, Types, Before, Working, Saving, Untouched, Held
  <2>3. outcome'[tag'] \notin {"none", "pending"}
    BY <1>1 DEF IInv, Types
  <2>4. \A t \in Tags \ {tag'} : outcome'[t] \in {"none", "pending"} => t \notin unread'
    BY <1>1 DEF IInv, Types, Reads, Working, Saving
  <2> QED
    BY <2>1, <2>2, <2>3, <2>4 DEF Before, Reads, HalfSaved
<1>6. \A t \in Tags \ {tag'} : Done(t)' = Done(t) /\ outcome'[t] = outcome[t]
  BY <1>1 DEF Done, IInv, Types
<1>7. outcome'[tag'] = result
  BY <1>1 DEF IInv, Types
<1>8. OutcomesHold'
  <2>1. status' = "finished" => \A t \in selected' : Done(t)'
    BY <1>1, <1>3 DEF choices
  <2>2. ASSUME Writes, NEW t \in Tags, NEW target \in targets, Done(t)', Untouched(target, t)
        PROVE  Held(target)'[t] = notes[t]
    <3>1. CASE t = tag'
      <4>1. result # "failed"
        BY <1>7, <2>2, <3>1 DEF Done
      <4> QED
        BY <2>2, <3>1, <4>1
    <3>2. CASE t # tag'
      <4>1. Held(target)'[t] = Held(target)[t]
        BY <3>2 DEF Held
      <4> QED
        BY <1>6, <2>2, <3>2, <4>1 DEF IInv, OutcomesHold, Writes, Untouched
    <3> QED
      BY <3>1, <3>2
  <2> QED
    BY <2>1, <2>2 DEF OutcomesHold, Writes, Untouched, choices
<1>9. ReportsAreTrue'
  <2> SUFFICES ASSUME NEW t \in Tags, Done(t)', \A target \in Targets : Untouched(target, t)
               PROVE  outcome'[t] = "changed" <=> t \in unread' \/ \E target \in targets : before[target][t] # notes[t]
    BY DEF ReportsAreTrue, Untouched, choices
  <2>1. CASE t = tag'
    <3>1. result # "failed"
      BY <1>7, <2>1 DEF Done
    <3> QED
      BY <1>7, <2>1, <3>1
  <2>2. CASE t # tag'
    BY <1>6, <2>2 DEF IInv, ReportsAreTrue, Untouched
  <2> QED
    BY <2>1, <2>2
<1> QED
  BY <1>2, <1>4, <1>5, <1>8, <1>9 DEF IInv

-----------------------------------------------------------------------------
(* communique: the newest pending tag gets its notes, fails, or ends all.  *)
LEMMA GenerateIInv ==
  ASSUME OptionsAssumption, IInv, Generate
  PROVE  IInv'
<1> USE DEF Generate
<1>1. /\ step = "generate" /\ Working /\ ~ Saving /\ status = "running"
      /\ tag' \in selected /\ tag' \in Tags /\ outcome[tag'] = "pending" /\ saved' = {}
      /\ targets # {} /\ targets \subseteq Targets
      /\ UNCHANGED <<disk, localTags, choices, ghosts, runs>>
  BY DEF Working, Saving, Newest, Pending, IInv, Types, TypeOK, Course, OptionsAssumption
<1>2. CASE /\ \E n \in Notes : notes' = [notes EXCEPT ![tag'] = n]
           /\ step' = IF "documentation" \in targets THEN "document" ELSE "get"
           /\ UNCHANGED <<status, temporary, outcome>>
  <2>1. \A t \in Tags \ {tag'} : notes'[t] = notes[t]
    BY <1>2 DEF IInv, Types
  <2>2. Types'
    BY <1>1, <1>2 DEF IInv, Types, TypeOK, disk, choices, ghosts
  <2>3. Course'
    BY <1>1, <1>2 DEF IInv, Course, Working, Saving, Choosing, Targets, choices
  <2>4. \A target \in Targets, t \in Tags :
          Untouched(target, t) /\ outcome[t] \in {"none", "pending"} => Held(target)[t] = before[target][t]
    BY <1>1 DEF IInv, Before
  <2>5. Before'
    BY <1>1, <1>2, <2>4 DEF Before, Held, Untouched, Targets, disk, ghosts, choices
  <2>6. Reads' /\ HalfSaved'
    BY <1>1, <1>2 DEF IInv, Reads, HalfSaved, Saving, choices, ghosts
  <2>7. OutcomesHold'
    <3>1. status' # "finished"
      BY <1>1, <1>2
    <3>2. \A t \in Tags : Done(t)' => Done(t) /\ notes'[t] = notes[t]
      BY <1>1, <1>2, <2>1 DEF Done
    <3> QED
      BY <1>1, <3>1, <3>2 DEF IInv, OutcomesHold, Held, disk, choices, ghosts
  <2>8. ReportsAreTrue'
    BY <1>1, <1>2, <2>1 DEF IInv, ReportsAreTrue, Done, choices, ghosts
  <2> QED
    BY <2>2, <2>3, <2>5, <2>6, <2>7, <2>8 DEF IInv
<1>3. CASE Settle("failed") /\ UNCHANGED notes
  <2>1. /\ documentation' \in [Tags -> Notes \cup {Missing, Torn}] /\ releases' \in [Tags -> Notes \cup {Missing}]
        /\ documentation' = documentation /\ releases' = releases
        /\ unread' \subseteq selected /\ UNCHANGED <<before, touched, unread>>
    BY <1>1 DEF IInv, Types, TypeOK, disk, ghosts
  <2> QED
    BY <1>1, <1>3, <2>1, SettleIInv
<1>4. CASE End("thrown") /\ temporary' = FALSE /\ UNCHANGED <<notes, outcome>>
  <2>1. Types'
    BY <1>1, <1>4 DEF End, IInv, Types, TypeOK, disk, choices, ghosts
  <2>2. Course' /\ Before' /\ Reads' /\ HalfSaved'
    BY <1>4 DEF End, Course, Before, Reads, HalfSaved, Choosing, Working, Saving
  <2>3. OutcomesHold' /\ ReportsAreTrue'
    BY <1>1, <1>4 DEF End, IInv, OutcomesHold, ReportsAreTrue, Done, Held, disk, choices, ghosts
  <2> QED
    BY <2>1, <2>2, <2>3 DEF IInv
<1> QED
  BY <1>2, <1>3, <1>4

-----------------------------------------------------------------------------
(* What holds at the first target, if it is one. *)
LEMMA AtDocumentation ==
  ASSUME OptionsAssumption, IInv, step \in {"document", "write"}
  PROVE  /\ Working /\ Saving /\ status = "running"
         /\ tag \in Tags /\ outcome[tag] = "pending" /\ saved = {}
         /\ "documentation" \in targets /\ targets \subseteq Targets
         /\ notes[tag] \in Notes \cup {Missing} /\ unread \subseteq selected /\ tag \in selected
BY DEF Working, Saving, IInv, Types, TypeOK, Course, OptionsAssumption

(* The first target has been saved, or need not be: the second is next, or *)
(* the tag has its outcome.                                                *)
LEMMA DocumentationSaved ==
  ASSUME OptionsAssumption, IInv, step \in {"document", "write"},
         NEW result \in {"changed", "unchanged"}, Save("documentation", result),
         Untouched("documentation", tag) => (result = "changed" <=> Stale(tag)'),
         documentation' \in [Tags -> Notes \cup {Missing, Torn}], releases' = releases,
         \A t \in Tags \ {tag} : documentation'[t] = documentation[t],
         Writes => documentation'[tag] = notes[tag],
         unread' \subseteq selected, unread \ {tag} = unread' \ {tag},
         UNCHANGED <<notes, choices, before, touched>>
  PROVE  IInv'
<1>1. /\ Working /\ Saving /\ status = "running"
      /\ tag \in Tags /\ tag' = tag /\ outcome[tag] = "pending" /\ saved = {}
      /\ "documentation" \in targets /\ targets \subseteq Targets
      /\ notes[tag] \in Notes \cup {Missing}
  BY AtDocumentation DEF Save
<1>2. saved' = {result} /\ Outcome(saved') = result
  BY <1>1 DEF Save, Outcome
<1>3. releases' \in [Tags -> Notes \cup {Missing}]
  BY DEF IInv, Types, TypeOK
<1>4. CASE "github" \notin targets
  <2>1. Settle(result) /\ targets = {"documentation"}
    BY <1>1, <1>2, <1>4 DEF Save, After, Targets
  <2>2. Writes => \A target \in targets : Held(target)'[tag'] = notes[tag']
    BY <1>1, <2>1 DEF Held
  <2>3. (\A target \in Targets : Untouched(target, tag')) =>
          (result = "changed" <=> tag' \in unread' \/ \E target \in targets : before[target][tag'] # notes[tag'])
    BY <1>1, <2>1 DEF Targets, Stale
  <2>4. saved' \subseteq {"changed", "unchanged"} /\ result \in {"changed", "unchanged", "failed"}
    BY <1>2
  <2>5. /\ \A t \in Tags \ {tag'} : documentation'[t] = documentation[t] /\ releases'[t] = releases[t]
        /\ outcome[tag'] = "pending" /\ (Saving => tag' = tag) /\ tag' \in Tags
        /\ unread \ {tag'} = unread' \ {tag'}
    BY <1>1
  <2> QED
    BY <1>1, <1>3, <2>1, <2>2, <2>3, <2>4, <2>5, SettleIInv
<1>5. CASE "github" \in targets
  <2>1. step' = "get" /\ UNCHANGED <<outcome, status, temporary>>
    BY <1>5 DEF Save, After
  <2>2. Types'
    BY <1>1, <1>2, <1>3, <2>1 DEF IInv, Types, TypeOK, choices
  <2>3. Course'
    BY <1>1, <1>5, <2>1 DEF IInv, Course, Working, Saving, Choosing, choices
  <2>4. Before'
    BY <1>1, <2>1 DEF IInv, Before, Saving, Held, Untouched, Targets
  <2>5. \A t \in Tags : t # tag => (t \in unread' <=> t \in unread)
    OBVIOUS
  <2>6. Reads'
    BY <1>1, <2>1, <2>5 DEF IInv, Reads, Saving
  <2>7. HalfSaved'
    BY <1>1, <1>2, <2>1 DEF HalfSaved, Untouched, Writes, Stale, choices
  <2>8. \A t \in Tags : Done(t)' => Done(t) /\ t # tag
    BY <1>1, <2>1 DEF Done
  <2>9. OutcomesHold'
    BY <1>1, <2>1, <2>8 DEF IInv, OutcomesHold, Held, choices
  <2>10. ReportsAreTrue'
    BY <2>1, <2>5, <2>8 DEF IInv, ReportsAreTrue, choices
  <2> QED
    BY <2>2, <2>3, <2>4, <2>6, <2>7, <2>9, <2>10 DEF IInv
<1> QED
  BY <1>4, <1>5

(* The page is read, or cannot be.                                         *)
LEMMA ReadDocumentationIInv ==
  ASSUME OptionsAssumption, IInv, ReadDocumentation
  PROVE  IInv'
<1> USE DEF ReadDocumentation
<1>1. /\ step = "document" /\ UNCHANGED <<documentation, releases, choices, notes, before, touched>>
      /\ documentation' \in [Tags -> Notes \cup {Missing, Torn}]
      /\ releases' \in [Tags -> Notes \cup {Missing}]
      /\ tag \notin unread
      /\ Untouched("documentation", tag) => documentation[tag] = before["documentation"][tag]
  BY DEF disk, IInv, Types, TypeOK, Before, Reads
<1>2. CASE documentation[tag] = notes[tag] /\ Save("documentation", "unchanged") /\ UNCHANGED unread
  <2>1. Untouched("documentation", tag) => ~ Stale(tag)'
    BY <1>1, <1>2 DEF Stale, Save
  <2>2. unread' \subseteq selected
    BY <1>1, <1>2, AtDocumentation
  <2> QED
    BY <1>1, <1>2, <2>1, <2>2, DocumentationSaved
<1>3. CASE /\ \/ documentation[tag] # notes[tag] /\ UNCHANGED unread
              \/ unread' = unread \cup {tag}
           /\ IF Writes THEN GoOn("write") ELSE Save("documentation", "changed")
  <2>1. /\ tag' = tag /\ unread' \subseteq selected /\ unread \ {tag} = unread' \ {tag}
        /\ Untouched("documentation", tag) => Stale(tag)'
    BY <1>1, <1>3, AtDocumentation DEF GoOn, Save, Stale
  <2>2. CASE ~ Writes
    BY <1>1, <1>3, <2>1, <2>2, DocumentationSaved
  <2>3. CASE Writes
    <3>1. step' = "write" /\ UNCHANGED <<tag, saved, outcome, status, temporary>>
      BY <1>3, <2>3 DEF GoOn
    <3>2. Types'
      BY <1>1, <2>1, <3>1 DEF IInv, Types, TypeOK, choices
    <3>3. Course' /\ Before' /\ HalfSaved'
      BY <1>1, <2>3, <3>1 DEF IInv, Course, Before, HalfSaved, Working, Saving, Choosing, Held, Untouched,
                              Writes, choices
    <3>4. \A t \in Tags : t # tag => (t \in unread' <=> t \in unread)
      BY <2>1
    <3>5. Reads'
      BY <1>1, <2>1, <3>1, <3>4 DEF IInv, Reads, Saving, Untouched
    <3>6. \A t \in Tags : Done(t)' => Done(t) /\ t # tag
      BY <1>1, <3>1, AtDocumentation DEF Done
    <3>7. OutcomesHold' /\ ReportsAreTrue'
      BY <1>1, <3>1, <3>4, <3>6, AtDocumentation DEF IInv, OutcomesHold, ReportsAreTrue, Held, choices
    <3> QED
      BY <3>2, <3>3, <3>5, <3>7 DEF IInv
  <2> QED
    BY <2>2, <2>3
<1> QED
  BY <1>2, <1>3

(* The page is written, or the write fails half way.                       *)
LEMMA WriteDocumentationIInv ==
  ASSUME OptionsAssumption, IInv, WriteDocumentation
  PROVE  IInv'
<1> USE DEF WriteDocumentation
<1>1. /\ step = "write" /\ tag' = tag /\ releases' = releases
      /\ UNCHANGED <<choices, notes, before, touched, unread>>
      /\ tag \in Tags /\ notes[tag] \in Notes \cup {Missing} /\ unread \subseteq selected
      /\ Writes /\ (Untouched("documentation", tag) => Stale(tag)')
  BY AtDocumentation DEF IInv, Course, Reads, Stale, Save, ghosts
<1>2. /\ documentation' \in [Tags -> Notes \cup {Missing, Torn}]
      /\ \A t \in Tags \ {tag} : documentation'[t] = documentation[t]
  BY <1>1 DEF IInv, Types, TypeOK
<1>3. CASE documentation' = [documentation EXCEPT ![tag] = notes[tag]] /\ Save("documentation", "changed")
  <2>1. documentation'[tag] = notes[tag]
    BY <1>1, <1>3 DEF IInv, Types, TypeOK
  <2> QED
    BY <1>1, <1>2, <1>3, <2>1, DocumentationSaved
<1>4. CASE tag' = tag /\ saved' = saved /\ Settle("failed")
  <2>1. releases' \in [Tags -> Notes \cup {Missing}]
    BY <1>1 DEF IInv, Types, TypeOK
  <2>2. saved' \subseteq {"changed", "unchanged"} /\ unread' \subseteq selected
    BY <1>1, <1>4 DEF IInv, Types, TypeOK
  <2> QED
    BY <1>1, <1>2, <1>4, <2>1, <2>2, AtDocumentation, SettleIInv
<1> QED
  BY <1>3, <1>4

-----------------------------------------------------------------------------
(* What holds at the second target. *)
LEMMA AtGithub ==
  ASSUME OptionsAssumption, IInv, step \in {"get", "update"}
  PROVE  /\ Working /\ Saving /\ status = "running"
         /\ tag \in Tags /\ outcome[tag] = "pending" /\ notes[tag] \in Notes \cup {Missing}
         /\ "github" \in targets /\ targets \subseteq Targets
         /\ saved \subseteq {"changed", "unchanged"}
BY DEF Working, Saving, IInv, Types, TypeOK, Course, OptionsAssumption

(* The second target has been saved: with it the tag.                      *)
LEMMA GithubSaved ==
  ASSUME OptionsAssumption, IInv, step \in {"get", "update"},
         NEW result \in {"changed", "unchanged"}, Save("github", result),
         Untouched("github", tag) => (result = "changed" <=> releases[tag] # notes[tag]),
         documentation' = documentation, releases' \in [Tags -> Notes \cup {Missing}],
         \A t \in Tags \ {tag} : releases'[t] = releases[t],
         Writes => releases'[tag] = notes[tag],
         UNCHANGED <<notes, choices, before, touched, unread>>
  PROVE  IInv'
<1> DEFINE all == Outcome(saved \cup {result})
<1>1. tag' = tag /\ saved' = saved \cup {result} /\ Settle(all)
  BY DEF Save, After
<1>2. all \in {"changed", "unchanged"} /\ (all = "changed" <=> "changed" \in saved \cup {result})
  BY DEF Outcome
<1>3. /\ "documentation" \notin targets => saved = {} /\ tag \notin unread
      /\ "documentation" \in targets /\ Untouched("documentation", tag) =>
           /\ "changed" \in saved <=> Stale(tag)
           /\ Writes => documentation[tag] = notes[tag]
  BY DEF IInv, HalfSaved
<1>4. Untouched("github", tag) => (result = "changed" <=> before["github"][tag] # notes[tag])
  BY AtGithub DEF IInv, Before
<1>5. Writes => \A target \in targets : Untouched(target, tag') => Held(target)'[tag'] = notes[tag']
  BY <1>1, <1>3, AtGithub DEF Held, Targets
<1>6. (\A target \in Targets : Untouched(target, tag')) =>
        (all = "changed" <=> tag' \in unread' \/ \E target \in targets : before[target][tag'] # notes[tag'])
  BY <1>1, <1>2, <1>3, <1>4, AtGithub DEF Targets, Stale
<1>7. /\ documentation' \in [Tags -> Notes \cup {Missing, Torn}]
      /\ \A t \in Tags \ {tag'} : documentation'[t] = documentation[t] /\ releases'[t] = releases[t]
      /\ saved' \subseteq {"changed", "unchanged"}
      /\ outcome[tag'] = "pending" /\ (Saving => tag' = tag) /\ tag' \in Tags
      /\ unread' \subseteq selected
  BY <1>1, AtGithub DEF IInv, Types, TypeOK
<1>8. all \in {"changed", "unchanged", "failed"}
  BY <1>2
<1> HIDE DEF all
<1> QED
  BY <1>1, <1>5, <1>6, <1>7, <1>8, AtGithub, SettleIInv

(* The second target failed, whether or not it took the notes.             *)
LEMMA GithubFailed ==
  ASSUME OptionsAssumption, IInv, step \in {"get", "update"}, Settle("failed"),
         tag' = tag, saved' = saved,
         documentation' = documentation, releases' \in [Tags -> Notes \cup {Missing}],
         \A t \in Tags \ {tag} : releases'[t] = releases[t],
         UNCHANGED <<notes, choices, before, touched, unread>>
  PROVE  IInv'
<1>1. documentation' \in [Tags -> Notes \cup {Missing, Torn}] /\ unread' \subseteq selected
  BY DEF IInv, Types, TypeOK
<1> QED
  BY <1>1, AtGithub, SettleIInv

LEMMA GetReleaseIInv ==
  ASSUME OptionsAssumption, IInv, GetRelease
  PROVE  IInv'
<1> USE DEF GetRelease
<1>1. /\ documentation' = documentation /\ releases' = releases
      /\ releases' \in [Tags -> Notes \cup {Missing}] /\ UNCHANGED <<notes, choices, before, touched, unread>>
      /\ step \in {"get", "update"}
  BY DEF disk, ghosts, IInv, Types, TypeOK
<1>2. CASE releases[tag] = notes[tag] /\ Save("github", "unchanged")
  BY <1>1, <1>2, GithubSaved
<1>3. CASE releases[tag] # notes[tag] /\ ~ Writes /\ Save("github", "changed")
  BY <1>1, <1>3, GithubSaved
<1>4. CASE /\ releases[tag] # notes[tag] /\ Writes
           /\ GoOn("update")
  <2>0. step' = "update" /\ UNCHANGED <<tag, saved, outcome, status, temporary>>
    BY <1>4 DEF GoOn
  <2>1. Types'
    BY <1>1, <2>0 DEF IInv, Types, TypeOK, choices
  <2>2. Course' /\ Before' /\ Reads' /\ HalfSaved'
    BY <1>1, <1>4, <2>0 DEF IInv, Course, Before, Reads, HalfSaved, Working, Saving, Choosing, Held,
                            Untouched, Stale, Writes, Targets, choices
  <2>3. OutcomesHold' /\ ReportsAreTrue'
    BY <1>1, <2>0 DEF IInv, OutcomesHold, ReportsAreTrue, Done, Held, choices
  <2> QED
    BY <2>1, <2>2, <2>3 DEF IInv
<1>5. CASE tag' = tag /\ saved' = saved /\ Settle("failed")
  BY <1>1, <1>5, GithubFailed
<1> QED
  BY <1>2, <1>3, <1>4, <1>5

LEMMA UpdateReleaseIInv ==
  ASSUME OptionsAssumption, IInv, UpdateRelease
  PROVE  IInv'
<1> USE DEF UpdateRelease
<1>1. /\ documentation' = documentation /\ UNCHANGED <<notes, choices, before, touched, unread>>
      /\ step \in {"get", "update"} /\ tag \in Tags /\ notes[tag] \in Notes \cup {Missing} /\ Writes
  BY AtGithub DEF IInv, Course, ghosts
<1>2. /\ releases' \in [Tags -> Notes \cup {Missing}]
      /\ \A t \in Tags \ {tag} : releases'[t] = releases[t]
  BY <1>1 DEF IInv, Types, TypeOK
<1>3. CASE releases' = [releases EXCEPT ![tag] = notes[tag]] /\ Save("github", "changed")
  <2>1. releases'[tag] = notes[tag]
    BY <1>1, <1>3 DEF IInv, Types, TypeOK
  <2>2. Untouched("github", tag) => releases[tag] # notes[tag]
    BY DEF IInv, HalfSaved
  <2> QED
    BY <1>1, <1>2, <1>3, <2>1, <2>2, GithubSaved
<1>4. CASE tag' = tag /\ saved' = saved /\ Settle("failed")
  BY <1>1, <1>2, <1>4, GithubFailed
<1> QED
  BY <1>3, <1>4

-----------------------------------------------------------------------------
(* The process is killed: a tag that was being saved never counts.         *)
LEMMA KillIInv ==
  ASSUME OptionsAssumption, IInv, Kill
  PROVE  IInv'
<1> USE DEF Kill, End
<1>1. /\ UNCHANGED <<choices, notes, outcome, ghosts>>
      /\ step' = "idle" /\ status' = "killed"
  OBVIOUS
<1>2. Saving => tag \in Tags /\ outcome[tag] = "pending" /\ notes[tag] \in Notes \cup {Missing}
  BY DEF IInv, Types, TypeOK, Course
<1>3. /\ documentation' \in [Tags -> Notes \cup {Missing, Torn}]
      /\ \A t \in Tags : Done(t) => documentation'[t] = documentation[t]
  BY <1>2 DEF IInv, Types, TypeOK, Saving, Done
<1>4. /\ releases' \in [Tags -> Notes \cup {Missing}]
      /\ \A t \in Tags : Done(t) => releases'[t] = releases[t]
  BY <1>2 DEF IInv, Types, TypeOK, Saving, Done
<1>5. Types'
  BY <1>1, <1>3, <1>4 DEF IInv, Types, TypeOK, choices, ghosts
<1>6. Course' /\ Before' /\ Reads' /\ HalfSaved'
  BY <1>1 DEF Course, Before, Reads, HalfSaved, Choosing, Working, Saving
<1>7. OutcomesHold' /\ ReportsAreTrue'
  BY <1>1, <1>3, <1>4 DEF IInv, OutcomesHold, ReportsAreTrue, Done, Held, choices, ghosts
<1> QED
  BY <1>5, <1>6, <1>7 DEF IInv

(* Somebody edits a target, which the properties then do not speak of.     *)
LEMMA EditIInv ==
  ASSUME OptionsAssumption, IInv, NEW target \in Targets, NEW t \in Tags, Edit(target, t)
  PROVE  IInv'
<1> USE DEF Edit
<1>1. /\ UNCHANGED <<localTags, step, choices, temporary, tag, saved, notes, outcome, status, before, unread, runs>>
      /\ touched' = touched \cup {<<target, t>>} /\ step # "idle"
  OBVIOUS
<1>2. /\ documentation' \in [Tags -> Notes \cup {Missing, Torn}]
      /\ releases' \in [Tags -> Notes \cup {Missing}]
  BY DEF IInv, Types, TypeOK
<1>3. \A other \in Targets, u \in Tags :
        Untouched(other, u)' => Untouched(other, u) /\ Held(other)'[u] = Held(other)[u]
  BY <1>1 DEF IInv, Types, TypeOK, Untouched, Held, Targets
<1>4. Types'
  BY <1>1, <1>2 DEF IInv, Types, TypeOK, choices
<1>5. Course'
  BY <1>1 DEF IInv, Course, Choosing, Working, Saving, Writes, choices
<1>6. Saving => tag \in Tags
  BY DEF IInv, Types, TypeOK, Course
<1>7. Before' /\ Reads'
  BY <1>1, <1>3, <1>6 DEF IInv, Before, Reads, Saving, Held, Stale, Targets
<1>8. HalfSaved'
  BY <1>1, <1>3, <1>6 DEF IInv, HalfSaved, Saving, Held, Stale, Targets, Writes, choices
<1>9. targets \subseteq Targets
  BY DEF IInv, Types, TypeOK, OptionsAssumption
<1>10. OutcomesHold'
  BY <1>1, <1>3, <1>9 DEF IInv, OutcomesHold, Done, Untouched, choices
<1>11. ReportsAreTrue'
  BY <1>1, <1>3 DEF IInv, ReportsAreTrue, Done, Untouched, choices
<1> QED
  BY <1>4, <1>5, <1>7, <1>8, <1>10, <1>11 DEF IInv

LEMMA NextIInv ==
  ASSUME OptionsAssumption, IInv, [Next]_vars
  PROVE  IInv'
<1>1. CASE Next
  BY <1>1, BeginIInv, ChoosingIInv, GenerateIInv, ReadDocumentationIInv, WriteDocumentationIInv,
     GetReleaseIInv, UpdateReleaseIInv, KillIInv, EditIInv DEF Next
<1>2. CASE UNCHANGED vars
  BY <1>2 DEF vars, disk, choices, ghosts, IInv, Types, TypeOK, Course, Before, Reads, Stale,
              HalfSaved, OutcomesHold, ReportsAreTrue, Choosing, Working, Saving, Writes, Done,
              Untouched, Held
<1> QED
  BY <1>1, <1>2

LEMMA Invariance ==
  ASSUME OptionsAssumption
  PROVE  Spec => []IInv
<1>1. Init => IInv
  BY InitIInv
<1>2. IInv /\ [Next]_vars => IInv'
  BY NextIInv
<1> QED
  BY <1>1, <1>2, PTL DEF Spec

(* For any number of releases and however the runs of                      *)
(* regenerate-release-notes fail, are killed or meet edits by others: what *)
(* is counted as updated or unchanged is in every chosen target.           *)
THEOREM CountedIsSaved ==
  ASSUME OptionsAssumption
  PROVE  Spec => []OutcomesHold
<1>1. IInv => OutcomesHold
  BY DEF IInv
<1> QED
  BY <1>1, Invariance, PTL

(* And it is counted as changed exactly if a chosen target differed or the *)
(* page could not be read.                                                 *)
THEOREM ChangedIsTrue ==
  ASSUME OptionsAssumption
  PROVE  Spec => []ReportsAreTrue
<1>1. IInv => ReportsAreTrue
  BY DEF IInv
<1> QED
  BY <1>1, Invariance, PTL

-----------------------------------------------------------------------------
(* The discovery of components.                                            *)

(* The caches of a process in which nothing changed behind them hold what  *)
(* the disk says, or nothing.                                              *)
CachesAgree == ~ outdated => ~ Discovery!Outdated

(* The project of the file at hand has one file with the component.        *)
OneInProject ==
  LET root == Discovery!RootNow(DirectoryOf[linting])
  IN  root # 0 /\ Cardinality({f \in Discovery!IndexNow(root) : content[f] = "component"}) = 1

(* What the rule has found out about its file is so.                       *)
FindingsHold ==
  linting # Discovery!Nothing /\ ~ edited /\ ~ outdated =>
    /\ definition = (linting \in ComponentFiles /\ content[linting] = "component")
    /\ \A f \in identifiers : content[f] = "component"
    /\ discovery = "found" => OneInProject
    /\ discovery # Discovery!Nothing /\ discovery # "found" => ~ OneInProject

DiscoveryInv ==
  /\ Discovery!TypeOK /\ definition \in BOOLEAN /\ edited \in BOOLEAN /\ outdated \in BOOLEAN
  /\ content \in [ComponentFiles -> {Discovery!Nothing, "other", "component"}]
  /\ CachesAgree /\ FindingsHold /\ Discovery!WrongOnlyIfOutdated

-----------------------------------------------------------------------------
(* The instance counts as this module does.                                *)
LEMMA SameCardinality == \A S : Discovery!Cardinality(S) = Cardinality(S)
BY DEF Cardinality, Discovery!Cardinality

(* A root is a directory.                                                  *)
LEMMA RootTyped ==
  ASSUME Discovery!TypeOK, NEW d \in Directories
  PROVE  Discovery!RootNow(d) \in Directories \cup {0} /\ Discovery!Root(d) \in Directories \cup {0}
BY DEF Discovery!TypeOK, Discovery!RootNow, Discovery!Root

(* Asking caches that agree with the disk is asking the disk.              *)
LEMMA AsksTheDisk ==
  ASSUME ~ Discovery!Outdated
  PROVE  /\ \A d \in Directories : /\ Discovery!Root(d) = Discovery!RootNow(d)
                                   /\ Discovery!Index(d) = Discovery!IndexNow(d)
         /\ \A f \in ComponentFiles : Discovery!Text(f) = content[f]
BY DEF Discovery!Outdated, Discovery!Root, Discovery!Index, Discovery!Text

(* Looking something up keeps the types of the caches, and keeps them in   *)
(* agreement with a disk that does not change.                             *)
LEMMA LookUp ==
  ASSUME Discovery!TypeOK, content \in [ComponentFiles -> {Discovery!Nothing, "other", "component"}],
         UNCHANGED Discovery!disk, NEW dirs, NEW wanted, Discovery!Inspecting(dirs, wanted)
  PROVE  /\ projectRootCache' \in [Directories -> Directories \cup {0}]
         /\ fileTextCache' \in [ComponentFiles -> {Discovery!Nothing, "other", "component"}]
         /\ fileIndexCache' = fileIndexCache /\ ~ Discovery!Outdated => ~ Discovery!Outdated'
<1>1. \A d \in Directories : Discovery!Root(d) \in Directories \cup {0}
  BY RootTyped
<1>2. projectRootCache' \in [Directories -> Directories \cup {0}]
  BY <1>1 DEF Discovery!Inspecting, Discovery!TypeOK
<1>3. fileTextCache' \in [ComponentFiles -> {Discovery!Nothing, "other", "component"}]
  BY DEF Discovery!Inspecting, Discovery!TypeOK, Discovery!Text
<1>4. /\ \A d \in Directories : Discovery!RootNow(d)' = Discovery!RootNow(d)
      /\ (\A d : Discovery!IndexNow(d)' = Discovery!IndexNow(d))
  BY DEF Discovery!RootNow, Discovery!IndexNow, Discovery!Above, Discovery!disk
<1>5. ASSUME fileIndexCache' = fileIndexCache, ~ Discovery!Outdated
      PROVE  ~ Discovery!Outdated'
  <2>1. \A d \in Directories : projectRootCache'[d] \in {0, Discovery!RootNow(d)}
    BY <1>5, AsksTheDisk DEF Discovery!Inspecting, Discovery!Outdated
  <2>2. \A f \in ComponentFiles : fileTextCache'[f] \in {Discovery!Nothing, content[f]}
    BY <1>5, AsksTheDisk DEF Discovery!Inspecting, Discovery!Outdated
  <2> QED
    BY <1>4, <1>5, <2>1, <2>2 DEF Discovery!Outdated, Discovery!disk
<1> QED
  BY <1>2, <1>3, <1>5

-----------------------------------------------------------------------------
(* Nothing is known before the first lint. *)
LEMMA DiscoveryInitInv == Discovery!Init => DiscoveryInv
BY DEF Discovery!Init, DiscoveryInv, Discovery!TypeOK, CachesAgree, Discovery!Outdated,
       FindingsHold, Discovery!WrongOnlyIfOutdated

(* The rule starts on a file: its text is the disk's.                      *)
LEMMA CreateRuleInv ==
  ASSUME Discovery!DiscoveryAssumption, DiscoveryInv, NEW f \in Discovery!Files, Discovery!CreateRule(f)
  PROVE  DiscoveryInv'
<1> USE DEF Discovery!CreateRule
<1>1. DirectoryOf[f] \in Directories
  BY DEF Discovery!DiscoveryAssumption, Discovery!Files
<1>2. /\ projectRootCache' \in [Directories -> Directories \cup {0}]
      /\ fileTextCache' \in [ComponentFiles -> {Discovery!Nothing, "other", "component"}]
      /\ ~ Discovery!Outdated => ~ Discovery!Outdated'
  BY LookUp DEF DiscoveryInv, Discovery!Disk
<1>3. Discovery!TypeOK' /\ definition' \in BOOLEAN
  BY <1>2 DEF DiscoveryInv, Discovery!TypeOK, Discovery!Disk, Discovery!disk, Discovery!Fail
<1>4. CachesAgree'
  BY <1>2 DEF DiscoveryInv, CachesAgree, Discovery!Disk
<1>5. verdict' # Discovery!Nothing => linting' = Discovery!Nothing
  BY DEF Discovery!Fail
<1>6. FindingsHold'
  <2> SUFFICES ASSUME linting' # Discovery!Nothing, ~ outdated
               PROVE  definition' = (linting' \in ComponentFiles /\ content'[linting'] = "component")
    BY DEF FindingsHold, Discovery!Disk, Discovery!Nothing
  <2>1. linting' = f /\ definition' = (\E c \in {f} \cap ComponentFiles : Discovery!Matches(c))
    BY DEF Discovery!Fail
  <2>2. \A c \in ComponentFiles : Discovery!Matches(c) = (content[c] = "component")
    BY AsksTheDisk DEF DiscoveryInv, CachesAgree, Discovery!Matches
  <2> QED
    BY <2>1, <2>2 DEF Discovery!Disk, Discovery!disk
<1> QED
  BY <1>3, <1>4, <1>5, <1>6 DEF DiscoveryInv, Discovery!WrongOnlyIfOutdated, Discovery!Disk,
         Discovery!disk

(* An import is remembered if the file holds the component.                *)
LEMMA ImportInv ==
  ASSUME Discovery!DiscoveryAssumption, DiscoveryInv, NEW f \in ComponentFiles, Discovery!ImportDeclaration(f)
  PROVE  DiscoveryInv'
<1> USE DEF Discovery!ImportDeclaration
<1>1. /\ projectRootCache' \in [Directories -> Directories \cup {0}]
      /\ fileTextCache' \in [ComponentFiles -> {Discovery!Nothing, "other", "component"}]
      /\ ~ Discovery!Outdated => ~ Discovery!Outdated'
  BY LookUp DEF DiscoveryInv, Discovery!Disk
<1>2. Discovery!TypeOK'
  BY <1>1 DEF DiscoveryInv, Discovery!TypeOK, Discovery!Disk, Discovery!disk
<1>3. CachesAgree'
  BY <1>1 DEF DiscoveryInv, CachesAgree, Discovery!Disk
<1>4. OneInProject' = OneInProject
  BY DEF OneInProject, Discovery!RootNow, Discovery!IndexNow, Discovery!Above, Discovery!Disk,
         Discovery!disk
<1>5. ~ outdated => Discovery!Matches(f) = (content[f] = "component")
  BY AsksTheDisk DEF DiscoveryInv, CachesAgree, Discovery!Matches
<1>6. FindingsHold'
  BY <1>4, <1>5 DEF DiscoveryInv, FindingsHold, Discovery!Disk, Discovery!disk
<1> QED
  BY <1>2, <1>3, <1>6 DEF DiscoveryInv, Discovery!WrongOnlyIfOutdated, Discovery!Disk,
         Discovery!disk

(* A verdict that comes from what is known already.                        *)
LEMMA CallAvailableInv ==
  ASSUME DiscoveryInv, Discovery!CallAvailable
  PROVE  DiscoveryInv'
<1> USE DEF Discovery!CallAvailable
<1>1. /\ Discovery!Outdated' = Discovery!Outdated /\ OneInProject' = OneInProject
      /\ Discovery!Desired' = Discovery!Desired
  BY DEF Discovery!Outdated, OneInProject, Discovery!Desired, Discovery!RootNow,
         Discovery!IndexNow, Discovery!Above, Discovery!Disk, Discovery!disk, Discovery!caches,
                Discovery!rule
<1>2. Discovery!TypeOK' /\ definition' \in BOOLEAN
  BY DEF DiscoveryInv, Discovery!TypeOK, Discovery!Report, Discovery!Disk, Discovery!disk,
         Discovery!caches, Discovery!rule
<1>3. FindingsHold'
  BY <1>1 DEF DiscoveryInv, FindingsHold, Discovery!Disk, Discovery!disk, Discovery!caches,
         Discovery!rule
<1>4. Discovery!WrongOnlyIfOutdated'
  <2> SUFFICES ASSUME linting # Discovery!Nothing, ~ edited, ~ outdated
               PROVE  (verdict' = "reported") = Discovery!Desired
    BY <1>1 DEF Discovery!WrongOnlyIfOutdated, Discovery!Disk, Discovery!disk, Discovery!caches,
           Discovery!rule
  <2>1. (verdict' = "reported") = (~ definition /\ (identifiers # {} \/ discovery = "found"))
    BY DEF Discovery!Report
  <2>2. Discovery!Desired = (~ definition /\ (identifiers # {} \/ OneInProject))
    BY SameCardinality DEF Discovery!Desired, OneInProject, DiscoveryInv, FindingsHold
  <2>3. CASE discovery = Discovery!Nothing
    BY <2>1, <2>2, <2>3 DEF Discovery!Nothing
  <2>4. CASE discovery # Discovery!Nothing
    BY <2>1, <2>2, <2>4 DEF DiscoveryInv, FindingsHold
  <2> QED
    BY <2>3, <2>4
<1> QED
  BY <1>1, <1>2, <1>3, <1>4 DEF DiscoveryInv, CachesAgree, Discovery!Disk, Discovery!disk,
         Discovery!caches, Discovery!rule
(* A discovery: the index of the project and the texts of the candidates.  *)
LEMMA CallDiscoversInv ==
  ASSUME Discovery!DiscoveryAssumption, DiscoveryInv, Discovery!CallDiscovers
  PROVE  DiscoveryInv'
<1> DEFINE dir == DirectoryOf[linting]
           root == Discovery!Root(dir)
           candidates == IF root = 0 THEN {} ELSE Discovery!Index(root)
           found == Cardinality({f \in candidates : Discovery!Matches(f)}) = 1
<1>1. /\ dir \in Directories /\ root \in Directories \cup {0}
      /\ candidates \subseteq ComponentFiles \/ candidates = {Discovery!Nothing}
  <2>1. dir \in Directories
    BY DEF DiscoveryInv, Discovery!TypeOK, Discovery!CallDiscovers, Discovery!DiscoveryAssumption,
           Discovery!Files
  <2>2. root \in Directories \cup {0}
    BY <2>1, RootTyped DEF DiscoveryInv
  <2>3. root \in Directories => Discovery!Index(root) \subseteq ComponentFiles
    BY DEF DiscoveryInv, Discovery!TypeOK, Discovery!Index, Discovery!IndexNow
  <2> QED
    BY <2>1, <2>2, <2>3
<1>2. /\ linting # Discovery!Nothing /\ ~ definition /\ identifiers = {} /\ discovery = Discovery!Nothing
      /\ fileIndexCache' = IF root = 0 THEN fileIndexCache ELSE [fileIndexCache EXCEPT ![root] = candidates]
      /\ Discovery!Disk /\ UNCHANGED <<definition, identifiers, edited>>
  BY DEF Discovery!CallDiscovers
<1>3. PICK dirs, wanted : Discovery!Inspecting(dirs, wanted)
  BY DEF Discovery!CallDiscovers
<1>4. /\ projectRootCache' \in [Directories -> Directories \cup {0}]
      /\ fileTextCache' \in [ComponentFiles -> {Discovery!Nothing, "other", "component"}]
  <2>1. \A d \in Directories : Discovery!Root(d) \in Directories \cup {0}
    BY RootTyped DEF DiscoveryInv
  <2> QED
    BY <1>3, <2>1 DEF Discovery!Inspecting, DiscoveryInv, Discovery!TypeOK, Discovery!Text
<1>5. /\ linting' \in {linting, Discovery!Nothing}
      /\ linting' # Discovery!Nothing => verdict' = IF found THEN "reported" ELSE "silent"
      /\ linting' # Discovery!Nothing => discovery' = IF found THEN "found" ELSE "missing"
      /\ verdict' \in {"reported", "silent", "thrown"}
  BY SameCardinality DEF Discovery!CallDiscovers, Discovery!Fail, Discovery!Report
<1>6. fileIndexCache' \in [Directories -> {{Discovery!Nothing}} \cup SUBSET ComponentFiles]
  BY <1>1, <1>2 DEF DiscoveryInv, Discovery!TypeOK
<1>7. Discovery!TypeOK'
  BY <1>2, <1>4, <1>5, <1>6 DEF DiscoveryInv, Discovery!TypeOK, Discovery!Disk, Discovery!disk
<1>8. /\ \A d : Discovery!RootNow(d)' = Discovery!RootNow(d)
      /\ (\A d : Discovery!IndexNow(d)' = Discovery!IndexNow(d))
  BY <1>2 DEF Discovery!RootNow, Discovery!IndexNow, Discovery!Above, Discovery!Disk, Discovery!disk
<1>9. CachesAgree'
  <2> SUFFICES ASSUME ~ outdated
               PROVE  ~ Discovery!Outdated'
    BY <1>2 DEF CachesAgree, Discovery!Disk
  <2>1. ~ Discovery!Outdated
    BY DEF DiscoveryInv, CachesAgree
  <2>2. \A d \in Directories : projectRootCache'[d] \in {0, Discovery!RootNow(d)}
    BY <1>3, <2>1, AsksTheDisk DEF Discovery!Inspecting, Discovery!Outdated
  <2>3. \A f \in ComponentFiles : fileTextCache'[f] \in {Discovery!Nothing, content[f]}
    BY <1>3, <2>1, AsksTheDisk DEF Discovery!Inspecting, Discovery!Outdated
  <2>4. \A d \in Directories : fileIndexCache'[d] \in {{Discovery!Nothing}, Discovery!IndexNow(d)}
    BY <1>1, <1>2, <2>1, AsksTheDisk DEF Discovery!Outdated, DiscoveryInv, Discovery!TypeOK
  <2> QED
    BY <1>2, <1>8, <2>2, <2>3, <2>4 DEF Discovery!Outdated, Discovery!Disk, Discovery!disk
<1>10. ASSUME linting' # Discovery!Nothing, ~ edited, ~ outdated
       PROVE  found = OneInProject'
  <2>1. ~ Discovery!Outdated /\ linting' = linting
    BY <1>5, <1>10 DEF DiscoveryInv, CachesAgree
  <2>2. root = Discovery!RootNow(dir) /\ (root # 0 => candidates = Discovery!IndexNow(root))
    BY <1>1, <2>1, AsksTheDisk
  <2>3. candidates \subseteq ComponentFiles
    BY <1>1, <2>2 DEF Discovery!IndexNow
  <2>4. {f \in candidates : Discovery!Matches(f)} = {f \in candidates : content[f] = "component"}
    BY <2>1, <2>3, AsksTheDisk DEF Discovery!Matches
  <2>5. root = 0 => ~ found
    BY FS_EmptySet
  <2> QED
    BY <1>2, <1>8, <2>1, <2>2, <2>4, <2>5 DEF OneInProject, Discovery!Disk, Discovery!disk
<1>11. FindingsHold'
  <2> SUFFICES ASSUME linting' # Discovery!Nothing, ~ edited, ~ outdated
               PROVE  /\ definition = (linting \in ComponentFiles /\ content[linting] = "component")
                      /\ discovery' = "found" => OneInProject'
                      /\ discovery' # Discovery!Nothing /\ discovery' # "found" => ~ OneInProject'
    BY <1>2, <1>5 DEF FindingsHold, Discovery!Disk, Discovery!disk
  <2> QED
    BY <1>2, <1>5, <1>10 DEF DiscoveryInv, FindingsHold
<1>12. Discovery!WrongOnlyIfOutdated'
  <2> SUFFICES ASSUME linting' # Discovery!Nothing, ~ edited, ~ outdated
               PROVE  (verdict' = "reported") = Discovery!Desired'
    BY <1>2 DEF Discovery!WrongOnlyIfOutdated, Discovery!Disk
  <2>1. ~ (linting \in ComponentFiles /\ content[linting] = "component")
    BY <1>2, <1>5 DEF DiscoveryInv, FindingsHold
  <2>2. Discovery!Desired' = OneInProject'
    BY <1>2, <1>5, <2>1, SameCardinality DEF Discovery!Desired, OneInProject, Discovery!Disk,
           Discovery!disk
  <2>3. (verdict' = "reported") = found
    BY <1>5
  <2> QED
    BY <1>10, <2>2, <2>3
<1>13. content' = content /\ definition' = definition /\ edited' = edited /\ outdated' = outdated
  BY <1>2 DEF Discovery!Disk, Discovery!disk
<1> QED
  BY <1>7, <1>9, <1>11, <1>12, <1>13 DEF DiscoveryInv

(* The rule leaves the file.                                               *)
LEMMA EndLintInv ==
  ASSUME DiscoveryInv, Discovery!EndLint
  PROVE  DiscoveryInv'
<1>1. Discovery!Outdated' = Discovery!Outdated
  BY DEF Discovery!EndLint, Discovery!Outdated, Discovery!RootNow, Discovery!IndexNow,
         Discovery!Above, Discovery!Disk, Discovery!disk, Discovery!caches
<1>2. Discovery!TypeOK'
  BY DEF Discovery!EndLint, DiscoveryInv, Discovery!TypeOK, Discovery!Disk, Discovery!disk,
         Discovery!caches
<1> QED
  BY <1>1, <1>2 DEF Discovery!EndLint, DiscoveryInv, CachesAgree, FindingsHold,
         Discovery!WrongOnlyIfOutdated, Discovery!Disk, Discovery!disk, Discovery!caches

(* An edit: the rule at work owes nothing any more, and whether the caches *)
(* agree is recorded.                                                      *)
LEMMA DiskEditInv ==
  ASSUME DiscoveryInv, Discovery!Edit
  PROVE  DiscoveryInv'
<1>1. /\ manifests' \subseteq Directories
      /\ content' \in [ComponentFiles -> {Discovery!Nothing, "other", "component"}]
      /\ edited' = TRUE /\ outdated' = Discovery!Outdated'
      /\ UNCHANGED <<Discovery!caches, Discovery!rule, verdict>>
  BY DEF Discovery!Edit, Discovery!EditManifest, Discovery!EditFile, DiscoveryInv, Discovery!TypeOK
<1>2. Discovery!Outdated' \in BOOLEAN
  BY DEF Discovery!Outdated
<1>3. Discovery!TypeOK'
  BY <1>1 DEF DiscoveryInv, Discovery!TypeOK, Discovery!caches, Discovery!rule
<1> QED
  BY <1>1, <1>2, <1>3 DEF DiscoveryInv, CachesAgree, FindingsHold, Discovery!WrongOnlyIfOutdated,
         Discovery!rule

LEMMA DiscoveryNextInv ==
  ASSUME Discovery!DiscoveryAssumption, DiscoveryInv, [Discovery!Next]_(Discovery!vars)
  PROVE  DiscoveryInv'
<1>1. CASE Discovery!Lint
  BY <1>1, CreateRuleInv, ImportInv, CallAvailableInv, CallDiscoversInv,
         EndLintInv DEF Discovery!Lint
<1>2. CASE Discovery!Edit
  BY <1>2, DiskEditInv
<1>3. CASE UNCHANGED Discovery!vars
  <2>1. /\ Discovery!TypeOK' = Discovery!TypeOK /\ CachesAgree' = CachesAgree
        /\ FindingsHold' = FindingsHold /\ Discovery!WrongOnlyIfOutdated' = Discovery!WrongOnlyIfOutdated
    BY <1>3 DEF Discovery!vars, Discovery!disk, Discovery!caches, Discovery!rule,
           Discovery!TypeOK, CachesAgree, Discovery!Outdated, FindingsHold, OneInProject,
                Discovery!WrongOnlyIfOutdated, Discovery!Desired, Discovery!RootNow,
                       Discovery!IndexNow, Discovery!Above
  <2> QED
    BY <1>3, <2>1 DEF DiscoveryInv, Discovery!vars, Discovery!disk, Discovery!rule
<1> QED
  BY <1>1, <1>2, <1>3 DEF Discovery!Next

(* In every project, however directories are nested and files are edited   *)
(* between and during lints, prefer-local-portal-component is wrong only   *)
(* about what was different when the process first looked.                 *)
THEOREM DiscoveryCorrect ==
  ASSUME Discovery!DiscoveryAssumption
  PROVE  Discovery!Spec => []WrongOnlyIfOutdated
<1>1. Discovery!Init => DiscoveryInv
  BY DiscoveryInitInv
<1>2. DiscoveryInv /\ [Discovery!Next]_(Discovery!vars) => DiscoveryInv'
  BY DiscoveryNextInv
<1>3. DiscoveryInv => WrongOnlyIfOutdated
  BY SameCardinality DEF DiscoveryInv, Discovery!WrongOnlyIfOutdated, WrongOnlyIfOutdated,
         Discovery!Desired, Desired,
         Discovery!RootNow, RootNow, Discovery!IndexNow, IndexNow, Discovery!Above, Above,
         Discovery!Nothing, Nothing
<1> QED
  BY <1>1, <1>2, <1>3, PTL DEF Discovery!Spec
-----------------------------------------------------------------------------
(* The settings that disable-tsgo rewrites.                                *)
CONSTANTS Settings,                                      \* of DisableTsgo
          Servers                                        \* names that may stand in a list
VARIABLES tsgoStep, reads, scanned, writes
Tsgo == INSTANCE DisableTsgo WITH step <- tsgoStep

SettingsAssumption ==
  /\ Tsgo!Own \subseteq Servers
  /\ Settings \subseteq [lists : Seq(Seq(Servers)), elsewhere : BOOLEAN, valid : BOOLEAN]

(* The least number of a set, and where a server first stands in a list.   *)
LEMMA FirstNumber ==
  ASSUME NEW S \in SUBSET Nat, S # {}
  PROVE  \E n \in S : \A m \in S : n <= m
<1>1. IsWellFoundedOn(OpToRel(<, Nat), Nat)
  BY NatLessThanWellFounded
<1>2. \A j, k \in Nat : j < k => <<j, k>> \in OpToRel(<, Nat)
  BY DEF OpToRel
<1>3. PICK x \in S : \A y \in S : ~ (<<y, x>> \in OpToRel(<, Nat))
  BY <1>1, WFMin, Zenon
<1>4. \A y \in S : y \in Nat /\ x \in Nat /\ ~ y < x
  BY <1>2, <1>3
<1> QED
  BY <1>4

LEMMA FirstStands ==
  ASSUME NEW list \in Seq(Servers), NEW server, Tsgo!Contains(list, server)
  PROVE  /\ Tsgo!FirstAt(list, server) \in 1..Len(list) /\ list[Tsgo!FirstAt(list, server)] = server
         /\ \A j \in 1..Tsgo!FirstAt(list, server) - 1 : list[j] # server
<1> DEFINE Where == {i \in 1..Len(list) : list[i] = server}
<1>1. Where # {} /\ Where \in SUBSET Nat
  BY DEF Tsgo!Contains
<1>2. PICK n \in Where : \A m \in Where : n <= m
  BY <1>1, FirstNumber
<1>3. n \in DOMAIN list /\ list[n] = server
  BY <1>2
<1>4. \A j \in 1..n - 1 : list[j] # server
  BY <1>2
<1>5. \E i \in DOMAIN list : list[i] = server /\ \A j \in 1..i - 1 : list[j] # server
  BY <1>3, <1>4
<1> DEFINE first == CHOOSE i \in DOMAIN list : list[i] = server /\ \A j \in 1..i - 1 : list[j] # server
<1>6. first \in DOMAIN list /\ list[first] = server /\ \A j \in 1..first - 1 : list[j] # server
  BY <1>5
<1>7. Tsgo!FirstAt(list, server) = first
  BY DEF Tsgo!FirstAt
<1> HIDE DEF first
<1> QED
  BY <1>6, <1>7

(* One server, and one list before a server is added.                      *)
Flipped(list) == [i \in DOMAIN list |-> Tsgo!Flip(list[i])]

LEMMA FlipIs ==
  ASSUME SettingsAssumption, NEW s \in Servers
  PROVE  /\ Tsgo!Flip(s) \in Servers /\ Tsgo!Flip(s) # "tsgo"
         /\ Tsgo!Flip(s) = s \/ {s, Tsgo!Flip(s)} \subseteq Tsgo!Own
         /\ s = "..." <=> Tsgo!Flip(s) = "..."
<1> DEFINE f == Tsgo!Flip(s)
<1>0. "!tsgo" \in Servers /\ "vtsls" \in Servers
  BY DEF SettingsAssumption, Tsgo!Own
<1>1. CASE s = "tsgo"
  <2>1. f = "!tsgo"
    BY <1>1 DEF Tsgo!Flip
  <2> HIDE DEF f
  <2>2. f \in Servers
    BY <1>0, <2>1
  <2>3. f # "tsgo" /\ f # "..." /\ s # "..." /\ {s, f} \subseteq Tsgo!Own
    BY <1>1, <2>1 DEF Tsgo!Own
  <2> QED
    BY <2>2, <2>3 DEF f
<1>2. CASE s = "!vtsls"
  <2>1. f = "vtsls"
    BY <1>2 DEF Tsgo!Flip
  <2> HIDE DEF f
  <2>2. f \in Servers
    BY <1>0, <2>1
  <2>3. f # "tsgo" /\ f # "..." /\ s # "..." /\ {s, f} \subseteq Tsgo!Own
    BY <1>2, <2>1 DEF Tsgo!Own
  <2> QED
    BY <2>2, <2>3 DEF f
<1>3. CASE s \notin {"tsgo", "!vtsls"}
  BY <1>3 DEF Tsgo!Flip
<1> QED
  BY <1>1, <1>2, <1>3

LEMMA FlippedIs ==
  ASSUME SettingsAssumption, NEW list \in Seq(Servers)
  PROVE  /\ Flipped(list) \in Seq(Servers) /\ Len(Flipped(list)) = Len(list) /\ Len(list) \in Nat
         /\ \A i \in 1..Len(list) : list[i] \in Servers /\ Flipped(list)[i] = Tsgo!Flip(list[i])
<1>1. \A i \in 1..Len(list) : list[i] \in Servers
  OBVIOUS
<1>2. Flipped(list) = [i \in 1..Len(list) |-> Tsgo!Flip(list[i])]
  BY DEF Flipped
<1>3. Flipped(list) \in [1..Len(list) -> Servers]
  BY <1>1, <1>2, FlipIs
<1> QED
  BY <1>1, <1>2, <1>3

(* What stands last, if it is the catch-all, and stands nowhere before.    *)
CatchAllLast(list) == Tsgo!Contains(list, "...") /\ Tsgo!FirstAt(list, "...") = Len(list)

LEMMA LastOnly ==
  ASSUME NEW list \in Seq(Servers)
  PROVE  CatchAllLast(list) <=> /\ Len(list) \in 1..Len(list) /\ list[Len(list)] = "..."
                                /\ \A j \in 1..Len(list) - 1 : list[j] # "..."
<1>1. ASSUME CatchAllLast(list)
      PROVE  /\ Len(list) \in 1..Len(list) /\ list[Len(list)] = "..."
             /\ \A j \in 1..Len(list) - 1 : list[j] # "..."
  BY <1>1, FirstStands DEF CatchAllLast
<1>2. ASSUME Len(list) \in 1..Len(list), list[Len(list)] = "...", \A j \in 1..Len(list) - 1 : list[j] # "..."
      PROVE  CatchAllLast(list)
  <2>1. Tsgo!Contains(list, "...")
    BY <1>2 DEF Tsgo!Contains
  <2> DEFINE first == Tsgo!FirstAt(list, "...")
  <2>2. first \in 1..Len(list) /\ list[first] = "..."
    BY <2>1, FirstStands
  <2> HIDE DEF first
  <2>3. first \notin 1..Len(list) - 1
    BY <1>2, <2>2
  <2>4. first = Len(list)
    BY <2>2, <2>3
  <2> QED
    BY <2>1, <2>4 DEF CatchAllLast, first
<1> QED
  BY <1>1, <1>2

LEMMA CatchAllStays ==
  ASSUME SettingsAssumption, NEW list \in Seq(Servers)
  PROVE  CatchAllLast(Flipped(list)) <=> CatchAllLast(list)
<1> DEFINE f == Flipped(list)
<1>1. /\ f \in Seq(Servers) /\ Len(f) = Len(list) /\ Len(list) \in Nat
      /\ \A i \in 1..Len(list) : f[i] = "..." <=> list[i] = "..."
  BY FlippedIs, FlipIs
<1> HIDE DEF f
<1>2. /\ CatchAllLast(f) <=> /\ Len(list) \in 1..Len(list) /\ f[Len(list)] = "..."
                             /\ \A j \in 1..Len(list) - 1 : f[j] # "..."
      /\ CatchAllLast(list) <=> /\ Len(list) \in 1..Len(list) /\ list[Len(list)] = "..."
                                /\ \A j \in 1..Len(list) - 1 : list[j] # "..."
  BY <1>1, LastOnly
<1>3. \A j \in 1..Len(list) - 1 : j \in 1..Len(list)
  BY <1>1
<1> QED
  BY <1>1, <1>2, <1>3 DEF f

(* A list after the rewriting: as it was flipped, or with vtsls at its end *)
(* or before the catch-all.                                                *)
LEMMA AfterIs ==
  ASSUME NEW list \in Seq(Servers)
  PROVE  LET after == Tsgo!FlipAndAddVtsls(list)
             f == Flipped(list)
         IN  \/ after = f /\ (Tsgo!NeedsVtsls(list) => Tsgo!Contains(f, "vtsls"))
             \/ after = Tsgo!Front(f) \o <<"vtsls", "...">> /\ CatchAllLast(f)
             \/ after = Append(f, "vtsls") /\ ~ CatchAllLast(f)
BY DEF Tsgo!FlipAndAddVtsls, Tsgo!InsertVtsls, Flipped, CatchAllLast

(* It is in order if its positions can be told: those of the old servers   *)
(* and those of vtsls.                                                     *)
LEMMA RewrittenAsIs ==
  ASSUME SettingsAssumption, NEW list \in Seq(Servers), Tsgo!NeedsVtsls(list) => Tsgo!Contains(Flipped(list), "vtsls")
  PROVE  Tsgo!TakenOver(list, Flipped(list)) /\ ~ Tsgo!Contains(Flipped(list), "tsgo")
<1> DEFINE f == Flipped(list)
           n == Len(list)
<1>1. /\ n \in Nat /\ DOMAIN list = 1..n /\ DOMAIN f = 1..n /\ Len(f) = n
      /\ \A i \in 1..n : f[i] = list[i] \/ {list[i], f[i]} \subseteq Tsgo!Own
      /\ \A i \in 1..n : f[i] # "tsgo" /\ (list[i] = "..." <=> f[i] = "...")
  <2>1. n \in Nat /\ f \in Seq(Servers) /\ Len(f) = n /\ \A i \in 1..n : list[i] \in Servers /\ f[i] = Tsgo!Flip(list[i])
    BY FlippedIs
  <2>2. DOMAIN list = 1..n /\ DOMAIN f = 1..n
    BY <2>1
  <2> HIDE DEF f
  <2> QED
    BY <2>1, <2>2, FlipIs
<1> HIDE DEF f, n
<1>2. Tsgo!InOrder(list, f)
  <2> DEFINE at == [i \in 1..n |-> i]
  <2>1. at \in [DOMAIN list -> DOMAIN f] /\ \A i \in 1..n : at[i] = i
    BY <1>1
  <2>2. \A i \in DOMAIN list :
          /\ f[at[i]] = list[i] \/ {list[i], f[at[i]]} \subseteq Tsgo!Own
          /\ \A j \in 1..i - 1 : at[j] < at[i]
    BY <1>1, <2>1
  <2>3. \A k \in DOMAIN f : f[k] = "vtsls" \/ \E i \in DOMAIN list : at[i] = k
    BY <1>1, <2>1
  <2> HIDE DEF at
  <2> QED
    BY <2>1, <2>2, <2>3 DEF Tsgo!InOrder
<1>3. Tsgo!Contains(list, "tsgo") => Tsgo!Contains(f, "vtsls")
  BY DEF Tsgo!NeedsVtsls, f
<1>4. CatchAllLast(list) => Tsgo!Last(f) = "..."
  <2>1. CatchAllLast(list) => n \in 1..n /\ list[n] = "..."
    BY LastOnly DEF n
  <2>2. Tsgo!Last(f) = f[n]
    BY <1>1 DEF Tsgo!Last
  <2> QED
    BY <1>1, <2>1, <2>2
<1>5. ~ Tsgo!Contains(f, "tsgo")
  BY <1>1 DEF Tsgo!Contains
<1> QED
  BY <1>2, <1>3, <1>4, <1>5 DEF Tsgo!TakenOver, CatchAllLast, f, n

LEMMA RewrittenAtTheEnd ==
  ASSUME SettingsAssumption, NEW list \in Seq(Servers), ~ CatchAllLast(list)
  PROVE  LET after == Append(Flipped(list), "vtsls")
         IN  Tsgo!TakenOver(list, after) /\ ~ Tsgo!Contains(after, "tsgo")
<1> DEFINE f == Flipped(list)
           n == Len(list)
           after == Append(f, "vtsls")
<1>1. /\ n \in Nat /\ f \in Seq(Servers) /\ Len(f) = n /\ DOMAIN list = 1..n
      /\ \A i \in 1..n : list[i] \in Servers /\ f[i] = Tsgo!Flip(list[i])
  BY FlippedIs
<1> HIDE DEF f, n
<1>2. /\ DOMAIN after = 1..n + 1 /\ Len(after) = n + 1 /\ after[n + 1] = "vtsls"
      /\ \A i \in 1..n : after[i] = f[i]
  BY <1>1
<1>3. /\ \A i \in 1..n : after[i] = list[i] \/ {list[i], after[i]} \subseteq Tsgo!Own
      /\ \A i \in 1..n : after[i] # "tsgo"
  BY <1>1, <1>2, FlipIs
<1> HIDE DEF after
<1>4. Tsgo!InOrder(list, after)
  <2> DEFINE at == [i \in 1..n |-> i]
  <2>1. at \in [DOMAIN list -> DOMAIN after] /\ \A i \in 1..n : at[i] = i
    BY <1>1, <1>2
  <2>2. \A i \in DOMAIN list :
          /\ after[at[i]] = list[i] \/ {list[i], after[at[i]]} \subseteq Tsgo!Own
          /\ \A j \in 1..i - 1 : at[j] < at[i]
    BY <1>1, <1>3, <2>1
  <2>3. \A k \in DOMAIN after : after[k] = "vtsls" \/ \E i \in DOMAIN list : at[i] = k
    BY <1>1, <1>2, <2>1
  <2> HIDE DEF at
  <2> QED
    BY <2>1, <2>2, <2>3 DEF Tsgo!InOrder
<1>5. Tsgo!Contains(after, "vtsls")
  BY <1>1, <1>2 DEF Tsgo!Contains
<1>6. ~ Tsgo!Contains(after, "tsgo")
  <2>1. \A i \in 1..n + 1 : i \in 1..n \/ i = n + 1
    BY <1>1
  <2> QED
    BY <1>2, <1>3, <2>1 DEF Tsgo!Contains
<1> QED
  BY <1>4, <1>5, <1>6 DEF Tsgo!TakenOver, CatchAllLast, after, f

LEMMA RewrittenBeforeLast ==
  ASSUME SettingsAssumption, NEW list \in Seq(Servers), CatchAllLast(Flipped(list))
  PROVE  LET after == Tsgo!Front(Flipped(list)) \o <<"vtsls", "...">>
         IN  Tsgo!TakenOver(list, after) /\ ~ Tsgo!Contains(after, "tsgo")
<1> DEFINE f == Flipped(list)
           n == Len(list)
           g == Tsgo!Front(f)
           after == g \o <<"vtsls", "...">>
<1>1. /\ n \in Nat /\ f \in Seq(Servers) /\ Len(f) = n /\ DOMAIN list = 1..n
      /\ \A i \in 1..n : list[i] \in Servers /\ f[i] = Tsgo!Flip(list[i])
  BY FlippedIs
<1>2. n \in 1..n /\ list[n] = "..."
  BY CatchAllStays, LastOnly
<1> HIDE DEF f, n
<1>3. g = SubSeq(f, 1, n - 1)
  BY <1>1 DEF Tsgo!Front
<1>4. g \in Seq(Servers) /\ Len(g) = n - 1 /\ \A i \in 1..n - 1 : g[i] = f[i]
  <2>1. 1 \in 1..Len(f) + 1 /\ n - 1 \in 0..Len(f)
    BY <1>1, <1>2
  <2>2. n - 1 \in Nat /\ \A i \in 1..n - 1 : i \in 1..n
    BY <1>1, <1>2
  <2>3. \A i \in 1..n - 1 : f[i] \in Servers
    BY <1>1, <2>2
  <2> QED
    BY <1>1, <1>2, <1>3, <2>1, <2>2, <2>3, SubSeqProperties
<1> HIDE DEF g
<1>5. /\ DOMAIN after = 1..n + 1 /\ Len(after) = n + 1 /\ after[n] = "vtsls" /\ after[n + 1] = "..."
      /\ \A i \in 1..n - 1 : after[i] = f[i]
  BY <1>1, <1>2, <1>4
<1> HIDE DEF after
<1>6. \A i \in 1..n - 1 : /\ after[i] = list[i] \/ {list[i], after[i]} \subseteq Tsgo!Own
                          /\ after[i] # "tsgo" /\ i \in 1..n
  <2>1. \A i \in 1..n - 1 : i \in 1..n
    BY <1>1
  <2> QED
    BY <1>1, <1>5, <2>1, FlipIs
<1>7. Tsgo!InOrder(list, after)
  <2> DEFINE at == [i \in 1..n |-> IF i = n THEN n + 1 ELSE i]
  <2>1. /\ at \in [DOMAIN list -> DOMAIN after] /\ at[n] = n + 1
        /\ \A i \in 1..n - 1 : at[i] = i
    BY <1>1, <1>2, <1>5
  <2>2. \A i \in 1..n : i = n \/ i \in 1..n - 1
    BY <1>1
  <2>3. \A i \in DOMAIN list :
          /\ after[at[i]] = list[i] \/ {list[i], after[at[i]]} \subseteq Tsgo!Own
          /\ \A j \in 1..i - 1 : at[j] < at[i]
    <3> SUFFICES ASSUME NEW i \in 1..n
                 PROVE  /\ after[at[i]] = list[i] \/ {list[i], after[at[i]]} \subseteq Tsgo!Own
                        /\ \A j \in 1..i - 1 : at[j] < at[i]
      BY <1>1
    <3>1. \A j \in 1..i - 1 : j \in 1..n - 1
      BY <1>1
    <3>2. CASE i = n
      BY <1>1, <1>2, <1>5, <2>1, <3>1, <3>2
    <3>3. CASE i \in 1..n - 1
      BY <1>1, <1>6, <2>1, <3>1, <3>3
    <3> QED
      BY <2>2, <3>2, <3>3
  <2>4. \A k \in DOMAIN after : after[k] = "vtsls" \/ \E i \in DOMAIN list : at[i] = k
    <3> SUFFICES ASSUME NEW k \in 1..n + 1, k # n
                 PROVE  \E i \in 1..n : at[i] = k
      BY <1>1, <1>5
    <3>1. CASE k = n + 1
      BY <1>2, <2>1, <3>1
    <3>2. CASE k # n + 1
      <4>1. k \in 1..n - 1 /\ k \in 1..n
        BY <1>1, <3>2
      <4> QED
        BY <2>1, <4>1
    <3> QED
      BY <3>1, <3>2
  <2> HIDE DEF at
  <2> QED
    BY <2>1, <2>3, <2>4 DEF Tsgo!InOrder
<1>8. Tsgo!Contains(after, "vtsls") /\ Tsgo!Last(after) = "..."
  <2>1. n \in 1..n + 1
    BY <1>1, <1>2
  <2> QED
    BY <1>5, <2>1 DEF Tsgo!Contains, Tsgo!Last
<1>9. ~ Tsgo!Contains(after, "tsgo")
  <2>1. \A i \in 1..n + 1 : i \in 1..n - 1 \/ i = n \/ i = n + 1
    BY <1>1
  <2> QED
    BY <1>5, <1>6, <2>1 DEF Tsgo!Contains
<1> QED
  BY <1>7, <1>8, <1>9 DEF Tsgo!TakenOver, after, g, f

LEMMA Rewritten ==
  ASSUME SettingsAssumption, NEW list \in Seq(Servers)
  PROVE  /\ Tsgo!TakenOver(list, Tsgo!FlipAndAddVtsls(list))
         /\ ~ Tsgo!Contains(Tsgo!FlipAndAddVtsls(list), "tsgo")
<1> DEFINE after == Tsgo!FlipAndAddVtsls(list)
           f == Flipped(list)
<1>1. CASE after = f /\ (Tsgo!NeedsVtsls(list) => Tsgo!Contains(f, "vtsls"))
  BY <1>1, RewrittenAsIs
<1>2. CASE after = Tsgo!Front(f) \o <<"vtsls", "...">> /\ CatchAllLast(f)
  BY <1>2, RewrittenBeforeLast
<1>3. CASE after = Append(f, "vtsls") /\ ~ CatchAllLast(f)
  BY <1>3, CatchAllStays, RewrittenAtTheEnd
<1> QED
  BY <1>1, <1>2, <1>3, AfterIs
LEMMA SettingsRewritten ==
  ASSUME SettingsAssumption, NEW s \in Settings
  PROVE  LET after == Tsgo!DisableTsgoInSettings(s)
         IN  /\ ~ Tsgo!Listed(after) /\ DOMAIN after.lists = DOMAIN s.lists
             /\ \A i \in DOMAIN s.lists : Tsgo!TakenOver(s.lists[i], after.lists[i])
<1> DEFINE after == Tsgo!DisableTsgoInSettings(s)
<1>1. s \in [lists : Seq(Seq(Servers)), elsewhere : BOOLEAN, valid : BOOLEAN]
  BY DEF SettingsAssumption
<1>2. after.lists = [i \in DOMAIN s.lists |-> Tsgo!FlipAndAddVtsls(s.lists[i])]
  BY <1>1 DEF Tsgo!DisableTsgoInSettings
<1>3. \A i \in DOMAIN s.lists : s.lists[i] \in Seq(Servers)
  <2>1. s.lists \in Seq(Seq(Servers))
    BY <1>1
  <2> QED
    BY <2>1
<1> HIDE DEF after
<1>4. DOMAIN after.lists = DOMAIN s.lists
      /\ \A i \in DOMAIN s.lists : after.lists[i] = Tsgo!FlipAndAddVtsls(s.lists[i])
  BY <1>2
<1>5. \A i \in DOMAIN s.lists :
        Tsgo!TakenOver(s.lists[i], after.lists[i]) /\ ~ Tsgo!Contains(after.lists[i], "tsgo")
  BY <1>3, <1>4, Rewritten
<1> QED
  BY <1>4, <1>5 DEF Tsgo!Listed, after

(* A run finds the settings that it could read and that name tsgo, and     *)
(* changes those that become others; until one is written, it holds what   *)
(* it held.                                                                *)
Fixed(p) == Tsgo!DisableTsgoInSettings(original[p])
Naming == {p \in Paths \ (reads \cup skipped) : Tsgo!Mentions(original[p]) /\ original[p].valid}
Differing == {p \in Naming : Fixed(p) # original[p]}
TsgoInv ==
  /\ original \in [Paths -> Settings] /\ DOMAIN files = Paths
  /\ tsgoStep \in {"scan", "write", "end"}
  /\ tsgoStep # "scan" => reads = {}
  /\ skipped \cap reads = {}
  /\ scanned = Naming
  /\ tsgoStep = "scan" => writes = {} /\ changed = {} /\ tsgoStatus = "running"
  /\ tsgoStatus = "nothing" => tsgoStep = "end" /\ writes = {} /\ scanned = {}
  /\ tsgoStatus = "summarised" => tsgoStep = "end" /\ writes = {}
  /\ tsgoStep = "write" \/ tsgoStatus \in {"nothing", "summarised"} =>
       /\ changed = Differing
       /\ ~ dryRun => \A p \in changed \ writes : files[p] = Fixed(p)
  /\ \A p \in Paths \ changed : files[p] = original[p]
  /\ changed \subseteq Paths /\ writes \subseteq changed
  /\ \A p \in writes : files[p] = original[p]

LEMMA TsgoInitInv == Tsgo!Init => TsgoInv
BY DEF Tsgo!Init, TsgoInv, Naming

LEMMA TsgoNextInv == TsgoInv /\ [Tsgo!Next]_(Tsgo!vars) => TsgoInv'
<1> SUFFICES ASSUME TsgoInv, [Tsgo!Next]_(Tsgo!vars)
             PROVE  TsgoInv'
  OBVIOUS
<1>1. ASSUME NEW p \in Paths, Tsgo!Read(p)
      PROVE  TsgoInv'
  <2>1. /\ UNCHANGED <<original, files, writes, changed, tsgoStep, tsgoStatus, dryRun>>
        /\ p \in reads /\ p \notin skipped /\ reads' = reads \ {p}
        /\ tsgoStep = "scan" /\ files[p] = original[p]
    BY <1>1 DEF Tsgo!Read, TsgoInv
  <2>2. scanned' = Naming'
    <3>1. CASE skipped' = skipped /\ Tsgo!Mentions(files[p]) /\ files[p].valid
      <4>1. scanned' = scanned \cup {p}
        BY <1>1, <2>1, <3>1 DEF Tsgo!Read
      <4> QED
        BY <2>1, <3>1, <4>1 DEF TsgoInv, Naming
    <3>2. CASE skipped' = skipped /\ ~ (Tsgo!Mentions(files[p]) /\ files[p].valid)
      <4>1. scanned' = scanned
        BY <1>1, <2>1, <3>2 DEF Tsgo!Read
      <4> QED
        BY <2>1, <3>2, <4>1 DEF TsgoInv, Naming
    <3>3. CASE skipped' = skipped \cup {p} /\ scanned' = scanned
      BY <2>1, <3>3 DEF TsgoInv, Naming
    <3> QED
      BY <1>1, <3>1, <3>2, <3>3 DEF Tsgo!Read
  <2>3. \A q : Fixed(q)' = Fixed(q)
    BY <2>1 DEF Fixed
  <2>4. skipped' \cap reads' = {}
    BY <1>1, <2>1 DEF Tsgo!Read, TsgoInv
  <2> QED
    BY <2>1, <2>2, <2>3, <2>4 DEF TsgoInv
<1>2. CASE Tsgo!FindNothing
  <2>1. /\ UNCHANGED <<original, files, writes, changed, scanned, skipped, reads, dryRun>>
        /\ tsgoStep = "scan" /\ reads = {} /\ scanned = {} /\ tsgoStep' = "end" /\ tsgoStatus' = "nothing"
    BY <1>2 DEF Tsgo!FindNothing
  <2>2. Naming' = Naming /\ Differing' = {} /\ changed' = {} /\ writes' = {}
    BY <2>1 DEF TsgoInv, Naming, Differing
  <2> QED
    BY <2>1, <2>2 DEF TsgoInv
<1>3. CASE Tsgo!Process
  <2>1. /\ UNCHANGED <<original, files, scanned, skipped, reads, dryRun, tsgoStatus>>
        /\ tsgoStep = "scan" /\ tsgoStep' = "write" /\ reads = {}
        /\ changed' = {p \in scanned : Tsgo!DisableTsgoInSettings(files[p]) # files[p]}
        /\ writes' = IF dryRun THEN {} ELSE changed'
    BY <1>3 DEF Tsgo!Process
  <2>2. scanned = Naming /\ Naming \subseteq Paths /\ \A p \in Paths : files[p] = original[p]
    BY <2>1 DEF TsgoInv, Naming
  <2>3. changed' = Differing /\ Differing \subseteq Paths
    BY <2>1, <2>2 DEF Differing, Fixed
  <2>4. Differing' = Differing /\ Naming' = Naming
    BY <2>1 DEF Differing, Naming, Fixed
  <2>5. tsgoStatus = "running"
    BY <2>1 DEF TsgoInv
  <2> QED
    BY <2>1, <2>2, <2>3, <2>4, <2>5 DEF TsgoInv
<1>4. ASSUME NEW p \in Paths, Tsgo!Write(p)
      PROVE  TsgoInv'
  <2>1. /\ UNCHANGED <<original, scanned, skipped, reads, changed, dryRun>>
        /\ p \in writes /\ writes' = writes \ {p}
    BY <1>4 DEF Tsgo!Write
  <2>2. Naming' = Naming /\ Differing' = Differing /\ \A q : Fixed(q)' = Fixed(q)
    BY <2>1 DEF Naming, Differing, Fixed
  <2>3. tsgoStep \in {"write", "end"} /\ tsgoStatus \notin {"nothing", "summarised"} /\ p \in changed
    BY <2>1 DEF TsgoInv
  <2>4. CASE files' = [files EXCEPT ![p] = Tsgo!DisableTsgoInSettings(files[p])] /\ UNCHANGED <<tsgoStep, tsgoStatus>>
    <3>1. files[p] = original[p] /\ DOMAIN files = Paths
      BY <2>1 DEF TsgoInv
    <3>2. DOMAIN files' = Paths /\ files'[p] = Fixed(p) /\ \A q \in Paths : q # p => files'[q] = files[q]
      BY <2>4, <3>1 DEF Fixed
    <3>3. \A q \in changed \ writes' : q = p \/ q \in changed \ writes
      BY <2>1
    <3>4. tsgoStep' = tsgoStep /\ tsgoStatus' = tsgoStatus
      BY <2>4
    <3>5. tsgoStep = "write" /\ ~ dryRun => \A q \in changed \ writes' : files'[q] = Fixed(q)
      BY <3>2, <3>3 DEF TsgoInv
    <3>6. \A q \in Paths \ changed : files'[q] = original[q]
      BY <2>3, <3>2 DEF TsgoInv
    <3>7. \A q \in writes' : files'[q] = original[q]
      BY <2>1, <3>2 DEF TsgoInv
    <3>8. changed \subseteq Paths /\ writes' \subseteq changed
      BY <2>1 DEF TsgoInv
    <3>9. /\ original \in [Paths -> Settings] /\ (tsgoStep = "write" => changed = Differing)
          /\ scanned = Naming /\ reads = {}
      BY <2>3 DEF TsgoInv
    <3> QED
      BY <2>1, <2>2, <2>3, <3>2, <3>4, <3>5, <3>6, <3>7, <3>8, <3>9 DEF TsgoInv
  <2>5. CASE /\ files' \in {files, [files EXCEPT ![p].valid = FALSE]}
             /\ tsgoStep' = "end" /\ tsgoStatus' = "failed"
    <3>1. DOMAIN files' = Paths /\ \A q \in Paths : q # p => files'[q] = files[q]
      BY <2>5 DEF TsgoInv
    <3>2. p \notin writes' /\ p \notin Paths \ changed
      BY <2>1, <2>3
    <3> QED
      BY <2>1, <2>2, <2>3, <2>5, <3>1, <3>2 DEF TsgoInv
  <2> QED
    BY <1>4, <2>4, <2>5 DEF Tsgo!Write
<1>5. CASE Tsgo!Summarise
  <2>1. /\ UNCHANGED <<original, files, scanned, skipped, reads, changed, writes, dryRun>>
        /\ writes = {} /\ tsgoStep = "write"
        /\ tsgoStep' = "end" /\ tsgoStatus' = "summarised"
    BY <1>5 DEF Tsgo!Summarise
  <2>2. Differing' = Differing /\ Naming' = Naming /\ \A q : Fixed(q)' = Fixed(q)
    BY <2>1 DEF Naming, Differing, Fixed
  <2> QED
    BY <2>1, <2>2 DEF TsgoInv
<1>6. CASE UNCHANGED Tsgo!vars
  <2>1. Differing' = Differing /\ Naming' = Naming /\ \A q : Fixed(q)' = Fixed(q)
    BY <1>6 DEF Naming, Differing, Fixed, Tsgo!vars
  <2> QED
    BY <1>6, <2>1 DEF TsgoInv, Tsgo!vars
<1> QED
  BY <1>1, <1>2, <1>3, <1>4, <1>5, <1>6 DEF Tsgo!Next

LEMMA TsgoInvIsRight ==
  ASSUME SettingsAssumption, TsgoInv
  PROVE  Tsgo!VtslsTakesOver
<1> SUFFICES ASSUME tsgoStatus = "nothing" \/ (tsgoStatus = "summarised" /\ ~ dryRun)
             PROVE  /\ \A p \in Paths \ skipped : original[p].valid => ~ Tsgo!Listed(files[p])
                    /\ changed = {p \in Paths : files[p] # original[p]}
                    /\ \A p \in changed : \A i \in DOMAIN files[p].lists :
                         Tsgo!TakenOver(original[p].lists[i], files[p].lists[i])
  BY DEF Tsgo!VtslsTakesOver
<1>1. /\ changed = Differing /\ reads = {} /\ \A p \in changed : files[p] = Fixed(p)
      /\ \A p \in Paths \ changed : files[p] = original[p]
      /\ \A p \in Paths : original[p] \in Settings
  <2>1. tsgoStatus = "nothing" => Differing = {}
    BY DEF TsgoInv, Differing
  <2> QED
    BY <2>1 DEF TsgoInv
<1>2. \A p \in Paths : /\ ~ Tsgo!Listed(Fixed(p)) /\ DOMAIN Fixed(p).lists = DOMAIN original[p].lists
                       /\ \A i \in DOMAIN original[p].lists :
                            Tsgo!TakenOver(original[p].lists[i], Fixed(p).lists[i])
  BY <1>1, SettingsRewritten DEF Fixed
<1>3. \A p \in changed : p \in Paths /\ Fixed(p) # original[p]
  BY <1>1 DEF Differing, Naming
<1>4. ASSUME NEW p \in Paths \ skipped, original[p].valid PROVE ~ Tsgo!Listed(files[p])
  <2>1. CASE p \in changed
    BY <1>1, <1>2, <2>1
  <2>2. CASE p \notin changed
    <3>1. files[p] = original[p] /\ ~ (p \in Naming /\ Fixed(p) # original[p])
      BY <1>1, <2>2 DEF Differing
    <3>2. CASE p \notin Naming
      BY <1>1, <1>4, <3>1, <3>2 DEF Naming, Tsgo!Mentions
    <3>3. CASE Fixed(p) = original[p]
      BY <1>2, <3>1, <3>3
    <3> QED
      BY <3>1, <3>2, <3>3
  <2> QED
    BY <2>1, <2>2
<1>5. changed = {p \in Paths : files[p] # original[p]}
  BY <1>1, <1>3
<1>6. \A p \in changed : \A i \in DOMAIN files[p].lists :
        Tsgo!TakenOver(original[p].lists[i], files[p].lists[i])
  BY <1>1, <1>2, <1>3
<1> QED
  BY <1>4, <1>5, <1>6

(* LanguageServers.tla by itself and as a part of the instance say the     *)
(* same.                                                                   *)
LEMMA SamePromise == Tsgo!VtslsTakesOver => VtslsTakesOver
<1>1. \A s : Tsgo!Listed(s) <=> Listed(s)
  BY DEF Tsgo!Listed, Listed, Tsgo!Contains, Contains
<1>2. \A list, server : Tsgo!FirstAt(list, server) = FirstAt(list, server)
  BY DEF Tsgo!FirstAt, FirstAt
<1>3. \A s, t : Tsgo!InOrder(s, t) <=> InOrder(s, t)
  BY DEF Tsgo!InOrder, InOrder, Tsgo!Own, Own
<1>4. \A s, t : Tsgo!TakenOver(s, t) <=> TakenOver(s, t)
  BY <1>2, <1>3 DEF Tsgo!TakenOver, TakenOver, Tsgo!Contains, Contains, Tsgo!Last, Last
<1> QED
  BY <1>1, <1>4 DEF Tsgo!VtslsTakesOver, VtslsTakesOver

(* Whatever the settings hold and whichever reads and writes fail: when    *)
(* disable-tsgo finds nothing or reports its files as modified, no list of *)
(* the settings it could read has tsgo, vtsls stands in its place, every   *)
(* other server keeps its place, and the files it counts are those that    *)
(* differ.                                                                 *)
THEOREM TsgoIsReplaced ==
  ASSUME SettingsAssumption
  PROVE  Tsgo!Spec => []VtslsTakesOver
<1>1. TsgoInv => VtslsTakesOver
  BY TsgoInvIsRight, SamePromise
<1> QED
  BY <1>1, TsgoInitInv, TsgoNextInv, PTL DEF Tsgo!Spec

-----------------------------------------------------------------------------
(* The tests that no-constant-condition-with-break judges.                 *)
CONSTANTS MaxOperands, MaxOperators, MaxStatements, MaxJumps    \* of ConstantConditions
VARIABLES operators, entered, jumps, reach, exit
Tests == INSTANCE ConstantConditions

(* Values, and what the rule may know of a truth value. *)
Values == [type : {"unknown", "undefined", "null", "object", "boolean", "number", "text"}, n : Int]
Verdicts == {Tests!Unknown, Tests!Truth(TRUE), Tests!Truth(FALSE)}
Nullish(v) == v \in {Tests!Undefined, Tests!Null}
Expressions ==
  [value : Values, boolean : Verdicts, means : [Tests!Environments -> Values],
   exits : BOOLEAN, misread : BOOLEAN, unsound : BOOLEAN]

(* The value that the rule knows stands for what the expression means: it  *)
(* is as true and as null, and is the same number.                         *)
StandsFor(v, meant) ==
  /\ Tests!Truthy(meant) = Tests!Truthy(v)
  /\ Nullish(meant) = Nullish(v)
  /\ v.type = "number" => meant = v

(* Both of an expression's constants are right, where they are not excused.*)
Sound(e) ==
  /\ e.boolean # Tests!Unknown /\ ~ e.unsound =>
       \A x \in Tests!Environments : Tests!Truthy(e.means[x]) = Tests!Truthy(e.boolean)
  /\ e.value # Tests!Unknown /\ ~ e.misread =>
       \A x \in Tests!Environments : StandsFor(e.value, e.means[x])

Judged(e) == e \in Expressions /\ Sound(e)

(* What the rule computes with are values.                                 *)
LEMMA ValuesAreValues ==
  /\ {Tests!Unknown, Tests!Undefined, Tests!Null, Tests!Object, Tests!Truth(TRUE),
       Tests!Truth(FALSE)} \subseteq Values
  /\ Tests!Literals \subseteq Values /\ Tests!Environments \subseteq Values
  /\ Verdicts \subseteq Values
<1>1. /\ Tests!Value("unknown", 0) \in Values /\ Tests!Value("undefined", 0) \in Values
         /\ Tests!Value("null", 0) \in Values
      /\ Tests!Value("object", 1) \in Values /\ Tests!Value("boolean", 1) \in Values
         /\ Tests!Value("boolean", 0) \in Values
      /\ Tests!Value("number", 0) \in Values /\ Tests!Value("number", 1) \in Values
         /\ Tests!Value("text", 0) \in Values
  BY DEF Values, Tests!Value
<1>2. Tests!Truth(TRUE) \in Values /\ Tests!Truth(FALSE) \in Values
  BY <1>1 DEF Tests!Truth
<1>3. /\ Tests!Unknown \in Values /\ Tests!Undefined \in Values /\ Tests!Null \in Values
         /\ Tests!Object \in Values
  BY <1>1 DEF Tests!Unknown, Tests!Undefined, Tests!Null, Tests!Object
<1> QED
  BY <1>1, <1>2, <1>3 DEF Tests!Literals, Tests!Environments, Verdicts

(* getConstantBoolean of a known value is its truth value.                 *)
LEMMA BooleanOfValue ==
  ASSUME NEW v \in Values
  PROVE  /\ Tests!BooleanOf(v) \in Verdicts
         /\ Tests!BooleanOf(v) # Tests!Unknown =>
              v # Tests!Unknown /\ Tests!Truthy(Tests!BooleanOf(v)) = Tests!Truthy(v)
BY DEF Tests!BooleanOf, Verdicts, Tests!Truthy, Tests!Truth, Tests!Value, Tests!Unknown, Values

(* An expression is judged if both of its constants are right.             *)
LEMMA ExpressionIsJudged ==
  ASSUME NEW value \in Values, NEW boolean \in Verdicts, NEW means \in [Tests!Environments -> Values],
         NEW exits \in BOOLEAN, NEW misread \in BOOLEAN, NEW unsound \in BOOLEAN,
         boolean # Tests!Unknown /\ ~ unsound =>
           \A x \in Tests!Environments : Tests!Truthy(means[x]) = Tests!Truthy(boolean),
         value # Tests!Unknown /\ ~ misread => \A x \in Tests!Environments : StandsFor(value, means[x])
  PROVE  Judged(Tests!Expression(value, boolean, means, exits, misread, unsound))
<1> DEFINE e == Tests!Expression(value, boolean, means, exits, misread, unsound)
<1>1. e \in Expressions
  BY DEF Tests!Expression, Expressions
<1>2. /\ e.value = value /\ e.boolean = boolean /\ e.means = means
      /\ e.misread = misread /\ e.unsound = unsound
  BY DEF Tests!Expression
<1>3. Sound(e)
  BY <1>2 DEF Sound
<1> QED
  BY <1>1, <1>3 DEF Judged

(* A value that is known yields what is computed of it. *)
LEMMA SoundByValue ==
  ASSUME NEW value \in Values, NEW means \in [Tests!Environments -> Values], NEW exits \in BOOLEAN,
         NEW misread \in BOOLEAN,
         value # Tests!Unknown /\ ~ misread => \A x \in Tests!Environments : StandsFor(value, means[x])
  PROVE  Judged(Tests!Expression(value, Tests!BooleanOf(value), means, exits, misread, misread))
<1>1. /\ Tests!BooleanOf(value) \in Verdicts
      /\ Tests!BooleanOf(value) # Tests!Unknown /\ ~ misread =>
           \A x \in Tests!Environments : Tests!Truthy(means[x]) = Tests!Truthy(Tests!BooleanOf(value))
  BY BooleanOfValue DEF StandsFor
<1> QED
  BY <1>1, ExpressionIsJudged

(* Every operand, unary, logical and conditional expression is judged.     *)
LEMMA OperandsAreJudged ==
  ASSUME NEW e \in Tests!GetConstantValue
  PROVE  Judged(e)
<1>1. ASSUME NEW value \in Values, NEW means \in [Tests!Environments -> Values], NEW exits \in BOOLEAN,
             value # Tests!Unknown => \A x \in Tests!Environments : StandsFor(value, means[x])
      PROVE  Judged(Tests!Operand(value, means, exits))
  BY <1>1, SoundByValue DEF Tests!Operand
<1>2. \A v \in Values : Tests!Same(v) \in [Tests!Environments -> Values]
                          /\ \A x \in Tests!Environments : Tests!Same(v)[x] = v
  BY DEF Tests!Same
<1>3. \A v \in Values : StandsFor(v, v)
  BY DEF StandsFor
<1>4. CASE e \in { Tests!Operand(v, Tests!Same(v), FALSE) : v \in Tests!Literals }
  BY <1>1, <1>2, <1>3, <1>4, ValuesAreValues
<1>5. CASE e = Tests!Operand(Tests!Object, Tests!Same(Tests!Object), FALSE)
  BY <1>1, <1>2, <1>3, <1>5, ValuesAreValues
<1>6. CASE e = Tests!Operand(Tests!Truth(TRUE), Tests!Same(Tests!Object), FALSE)
  <2>1. StandsFor(Tests!Truth(TRUE), Tests!Object)
    BY DEF StandsFor, Tests!Truth, Tests!Object, Tests!Value, Tests!Truthy, Nullish, Tests!Undefined,
       Tests!Null
  <2> QED
    BY <1>1, <1>2, <1>6, <2>1, ValuesAreValues
<1>7. CASE e \in {Tests!Variable(FALSE), Tests!Variable(TRUE)}
  <2>1. [x \in Tests!Environments |-> x] \in [Tests!Environments -> Values]
    BY ValuesAreValues
  <2> QED
    BY <1>1, <1>7, <2>1, ValuesAreValues DEF Tests!Variable
<1> QED
  BY <1>4, <1>5, <1>6, <1>7 DEF Tests!GetConstantValue

Operators == {"typeof", "void", "!", "-", "~"}

LEMMA ComputedIsValue ==
  ASSUME NEW operator \in Operators, NEW v \in Values
  PROVE  Tests!Computed(operator, v) \in Values
<1>1. /\ v.n \in Int /\ 0 - v.n \in Int /\ 0 - v.n - 1 \in Int
  BY DEF Values
<1>2. /\ Tests!Value("text", 1) \in Values /\ Tests!Value("number", 0 - v.n) \in Values
      /\ Tests!Value("number", 0 - v.n - 1) \in Values
  BY <1>1 DEF Tests!Value, Values
<1>3. Tests!Truth(~ Tests!Truthy(v)) \in Values
  BY DEF Tests!Truth, Tests!Value, Values
<1>4. Tests!Undefined \in Values
  BY ValuesAreValues
<1>5. Tests!Computed(operator, v) \in
        {Tests!Value("text", 1), Tests!Undefined, Tests!Truth(~ Tests!Truthy(v)),
         Tests!Value("number", 0 - v.n), Tests!Value("number", 0 - v.n - 1)}
  BY DEF Tests!Computed, Operators
<1> QED
  BY <1>2, <1>3, <1>4, <1>5

LEMMA UnaryIsJudged ==
  ASSUME NEW operator \in Operators, NEW e, Judged(e), Tests!IsAbout(operator, e)
  PROVE  Judged(Tests!GetUnaryConstantValue(operator, e))
<1> DEFINE asked == operator \notin {"typeof", "void"}
           known == e.value # Tests!Unknown \/ ~ asked
           value == IF known THEN Tests!Computed(operator, e.value) ELSE Tests!Unknown
           means == [x \in Tests!Environments |-> Tests!Computed(operator, e.means[x])]
           misread == asked /\ e.misread
<1>1. /\ e.value \in Values /\ e.means \in [Tests!Environments -> Values]
      /\ e.exits \in BOOLEAN /\ e.misread \in BOOLEAN
  BY DEF Judged, Expressions
<1>2. value \in Values /\ means \in [Tests!Environments -> Values] /\ misread \in BOOLEAN
  BY <1>1, ComputedIsValue, ValuesAreValues
<1>3. ASSUME value # Tests!Unknown, ~ misread, NEW x \in Tests!Environments
      PROVE  StandsFor(value, means[x])
  <2>1. value = Tests!Computed(operator, e.value) /\ means[x] = Tests!Computed(operator, e.means[x])
    BY <1>3
  <2>2. asked => StandsFor(e.value, e.means[x])
    BY <1>3 DEF Judged, Sound
  <2>3. CASE operator \in {"typeof", "void"}
    <3>1. Tests!Computed(operator, e.value) = Tests!Computed(operator, e.means[x])
      BY <2>3 DEF Tests!Computed
    <3> QED
      BY <2>1, <3>1 DEF StandsFor
  <2>4. CASE operator = "!"
    <3>1. Tests!Computed(operator, e.value) = Tests!Computed(operator, e.means[x])
      BY <2>2, <2>4 DEF Tests!Computed, StandsFor
    <3> QED
      BY <2>1, <3>1 DEF StandsFor
  <2>5. CASE operator \in {"-", "~"}
    <3>1. e.value = e.means[x]
      BY <2>2, <2>5 DEF Tests!IsAbout, StandsFor
    <3> QED
      BY <2>1, <3>1 DEF StandsFor
  <2> QED
    BY <2>3, <2>4, <2>5 DEF Operators
<1>4. Tests!GetUnaryConstantValue(operator, e) =
        Tests!Expression(value, Tests!BooleanOf(value), means, e.exits, misread, misread)
  BY DEF Tests!GetUnaryConstantValue
<1> HIDE DEF value, means, misread
<1> QED
  BY <1>1, <1>2, <1>3, <1>4, SoundByValue

LEMMA PartsOfExpression ==
  ASSUME NEW e \in Expressions
  PROVE  /\ e.value \in Values /\ e.boolean \in Verdicts /\ e.means \in [Tests!Environments -> Values]
         /\ e.exits \in BOOLEAN /\ e.misread \in BOOLEAN /\ e.unsound \in BOOLEAN
BY DEF Expressions

LEMMA LogicalIsJudged ==
  ASSUME NEW operator \in {"&&", "||", "??"}, NEW l, NEW r, Judged(l), Judged(r)
  PROVE  Judged(Tests!Logical(operator, l, r))
<1> DEFINE value == Tests!GetLogicalConstantValue(operator, l, r)
           boolean == Tests!GetLogicalConstantBoolean(operator, l, r)
           means == [x \in Tests!Environments |->
                       IF Tests!Takes(operator, l.means[x]) THEN l.means[x] ELSE r.means[x]]
           misread == \/ l.misread \/ r.misread
                      \/ (operator # "??" /\ Tests!Truthy(l.value) /\ l.value # Tests!Truth(TRUE))
                      \/ (operator = "??" /\ l.value = Tests!Null)
           unsound == \/ l.unsound \/ r.unsound
                      \/ (operator = "??" /\ (l.misread \/ l.value = Tests!Null))
<1>1. /\ l \in Expressions /\ Sound(l) /\ r \in Expressions /\ Sound(r)
  BY DEF Judged
<1>2. value \in Values
  BY <1>1, PartsOfExpression DEF Tests!GetLogicalConstantValue
<1>3. boolean \in Verdicts
  <2>1. Tests!Unknown \in Verdicts
    BY DEF Verdicts
  <2> QED
    BY <1>1, <2>1, PartsOfExpression, BooleanOfValue DEF Tests!GetLogicalConstantBoolean
<1>4. means \in [Tests!Environments -> Values]
  BY <1>1, PartsOfExpression
<1>5. misread \in BOOLEAN /\ unsound \in BOOLEAN /\ (l.exits \/ r.exits) \in BOOLEAN
  OBVIOUS
<1>7. ASSUME value # Tests!Unknown, ~ misread, NEW x \in Tests!Environments
      PROVE  StandsFor(value, means[x])
  <2>1. l.value # Tests!Unknown /\ StandsFor(l.value, l.means[x])
    BY <1>1, <1>7 DEF Tests!GetLogicalConstantValue, Sound
  <2>2. r.value # Tests!Unknown => StandsFor(r.value, r.means[x])
    BY <1>1, <1>7 DEF Sound
  <2>3. Tests!Truthy(Tests!Truth(TRUE)) /\ ~ Nullish(Tests!Truth(TRUE)) /\ Nullish(Tests!Undefined)
        /\ ~ Tests!Truthy(Tests!Undefined)
    BY DEF Tests!Truthy, Tests!Truth, Tests!Value, Nullish, Tests!Undefined, Tests!Null
  <2>4. means[x] = IF Tests!Takes(operator, l.means[x]) THEN l.means[x] ELSE r.means[x]
    OBVIOUS
  <2>5. CASE operator = "&&"
    <3>1. value = IF l.value # Tests!Truth(TRUE) THEN l.value ELSE r.value
      BY <2>1, <2>5 DEF Tests!GetLogicalConstantValue
    <3>2. Tests!Takes(operator, l.means[x]) <=> ~ Tests!Truthy(l.value)
      BY <2>1, <2>5 DEF Tests!Takes, StandsFor
    <3>3. l.value # Tests!Truth(TRUE) <=> ~ Tests!Truthy(l.value)
      BY <1>7, <2>3, <2>5
    <3> HIDE DEF value, means, misread
    <3> QED
      BY <1>7, <2>1, <2>2, <2>4, <3>1, <3>2, <3>3
  <2>6. CASE operator = "||"
    <3>1. value = IF l.value = Tests!Truth(TRUE) THEN l.value ELSE r.value
      BY <2>1, <2>6 DEF Tests!GetLogicalConstantValue
    <3>2. Tests!Takes(operator, l.means[x]) <=> Tests!Truthy(l.value)
      BY <2>1, <2>6 DEF Tests!Takes, StandsFor
    <3>3. l.value # Tests!Truth(TRUE) <=> ~ Tests!Truthy(l.value)
      BY <1>7, <2>3, <2>6
    <3> HIDE DEF value, means, misread
    <3> QED
      BY <1>7, <2>1, <2>2, <2>4, <3>1, <3>2, <3>3
  <2>7. CASE operator = "??"
    <3>1. value = IF l.value # Tests!Undefined THEN l.value ELSE r.value
      BY <2>1, <2>7 DEF Tests!GetLogicalConstantValue
    <3>2. Tests!Takes(operator, l.means[x]) <=> ~ Nullish(l.value)
      BY <2>1, <2>7 DEF Tests!Takes, StandsFor, Nullish
    <3>3. l.value # Tests!Undefined <=> ~ Nullish(l.value)
      BY <1>7, <2>7 DEF Nullish
    <3> HIDE DEF value, means, misread
    <3> QED
      BY <1>7, <2>1, <2>2, <2>4, <3>1, <3>2, <3>3
  <2> QED
    BY <2>5, <2>6, <2>7
<1>8. ASSUME boolean # Tests!Unknown, ~ unsound, NEW x \in Tests!Environments
      PROVE  Tests!Truthy(means[x]) = Tests!Truthy(boolean)
  <2>1. l.boolean # Tests!Unknown /\ Tests!Truthy(l.means[x]) = Tests!Truthy(l.boolean)
    BY <1>1, <1>8 DEF Tests!GetLogicalConstantBoolean, Sound
  <2>2. r.boolean # Tests!Unknown => Tests!Truthy(r.means[x]) = Tests!Truthy(r.boolean)
    BY <1>1, <1>8 DEF Sound
  <2>3. means[x] = IF Tests!Takes(operator, l.means[x]) THEN l.means[x] ELSE r.means[x]
    OBVIOUS
  <2>4. CASE operator = "&&"
    <3>1. boolean = IF ~ Tests!Truthy(l.boolean) THEN l.boolean ELSE r.boolean
      BY <2>1, <2>4 DEF Tests!GetLogicalConstantBoolean
    <3>2. Tests!Takes(operator, l.means[x]) <=> ~ Tests!Truthy(l.boolean)
      BY <2>1, <2>4 DEF Tests!Takes
    <3> HIDE DEF boolean, means, unsound
    <3> QED
      BY <1>8, <2>1, <2>2, <2>3, <3>1, <3>2
  <2>5. CASE operator = "||"
    <3>1. boolean = IF Tests!Truthy(l.boolean) THEN l.boolean ELSE r.boolean
      BY <2>1, <2>5 DEF Tests!GetLogicalConstantBoolean
    <3>2. Tests!Takes(operator, l.means[x]) <=> Tests!Truthy(l.boolean)
      BY <2>1, <2>5 DEF Tests!Takes
    <3> HIDE DEF boolean, means, unsound
    <3> QED
      BY <1>8, <2>1, <2>2, <2>3, <3>1, <3>2
  <2>6. CASE operator = "??"
    <3>1. l.value # Tests!Unknown
          /\ boolean = IF l.value # Tests!Undefined THEN Tests!BooleanOf(l.value) ELSE r.boolean
      BY <1>8, <2>1, <2>6 DEF Tests!GetLogicalConstantBoolean
    <3>2. StandsFor(l.value, l.means[x])
      BY <1>1, <1>8, <2>6, <3>1 DEF Sound
    <3>3. Tests!Takes(operator, l.means[x]) <=> ~ Nullish(l.value)
      BY <2>6, <3>2 DEF Tests!Takes, StandsFor, Nullish
    <3>4. l.value # Tests!Undefined <=> ~ Nullish(l.value)
      BY <1>8, <2>6 DEF Nullish
    <3>5. Tests!Truthy(Tests!BooleanOf(l.value)) = Tests!Truthy(l.means[x])
      <4>1. Tests!BooleanOf(l.value) # Tests!Unknown
        BY <3>1 DEF Tests!BooleanOf, Tests!Unknown, Tests!Truth, Tests!Value
      <4> QED
        BY <1>1, <3>2, <4>1, PartsOfExpression, BooleanOfValue DEF StandsFor
    <3> HIDE DEF boolean, means, unsound
    <3> QED
      BY <1>8, <2>2, <2>3, <3>1, <3>3, <3>4, <3>5
  <2> QED
    BY <2>4, <2>5, <2>6
<1>9. Tests!Logical(operator, l, r) =
        Tests!Expression(value, boolean, means, l.exits \/ r.exits, misread, unsound)
  BY DEF Tests!Logical
<1> HIDE DEF value, boolean, means, misread, unsound
<1> QED
  BY <1>2, <1>3, <1>4, <1>5, <1>7, <1>8, <1>9, ExpressionIsJudged

LEMMA ConditionalIsJudged ==
  ASSUME NEW t, NEW c, NEW a, Judged(t), Judged(c), Judged(a)
  PROVE  Judged(Tests!Conditional(t, c, a))
<1> DEFINE boolean == Tests!GetConditionalConstantBoolean(t, c, a)
           means == [x \in Tests!Environments |->
                       IF Tests!Truthy(t.means[x]) THEN c.means[x] ELSE a.means[x]]
           unsound == t.unsound \/ c.unsound \/ a.unsound
<1>1. /\ t \in Expressions /\ Sound(t) /\ c \in Expressions /\ Sound(c) /\ a \in Expressions /\ Sound(a)
  BY DEF Judged
<1>2. boolean \in Verdicts /\ Tests!Unknown \in Values
  <2>1. Tests!Unknown \in Verdicts
    BY DEF Verdicts
  <2> QED
    BY <1>1, <2>1, PartsOfExpression, ValuesAreValues DEF Tests!GetConditionalConstantBoolean
<1>3. means \in [Tests!Environments -> Values]
  BY <1>1, PartsOfExpression
<1>4. unsound \in BOOLEAN /\ (t.exits \/ c.exits \/ a.exits) \in BOOLEAN
  OBVIOUS
<1>6. ASSUME boolean # Tests!Unknown, ~ unsound, NEW x \in Tests!Environments
      PROVE  Tests!Truthy(means[x]) = Tests!Truthy(boolean)
  <2>1. /\ t.boolean # Tests!Unknown => Tests!Truthy(t.means[x]) = Tests!Truthy(t.boolean)
        /\ c.boolean # Tests!Unknown => Tests!Truthy(c.means[x]) = Tests!Truthy(c.boolean)
        /\ a.boolean # Tests!Unknown => Tests!Truthy(a.means[x]) = Tests!Truthy(a.boolean)
    BY <1>1, <1>6 DEF Sound
  <2> QED
    BY <1>6, <2>1 DEF Tests!GetConditionalConstantBoolean
<1>7. Tests!Conditional(t, c, a) =
        Tests!Expression(Tests!Unknown, boolean, means, t.exits \/ c.exits \/ a.exits, FALSE, unsound)
  BY DEF Tests!Conditional
<1> HIDE DEF boolean, means, unsound
<1> QED
  BY <1>2, <1>3, <1>4, <1>6, <1>7, ExpressionIsJudged

-----------------------------------------------------------------------------

(* The open statements p, outermost first, and the jumps that matter.      *)
Places == {"here", "throw", "return", "call", "break", "continue"} \X Nat
Blocks ==
  [id : Nat, kind : {"loop", "if", "block", "switch", "try"},
   part : {"body", "then", "else", "block", "catch", "finally"}, labelled : BOOLEAN, at : Nat,
   saved : SUBSET Places, out : SUBSET Places, catch : BOOLEAN, finally : BOOLEAN]
Passing(s) == s \cap Tests!Exits # {}

(* The loop comes first and is the only statement with its number; only a  *)
(* try statement has a finally block, and no try statement is in one.      *)
Shape(p) ==
  /\ p \in Seq(Blocks)
  /\ p # <<>> => p[1].id = 1 /\ p[1].kind = "loop"
  /\ \A i \in 1..Len(p) :
       /\ i > 1 => p[i].id # 1
       /\ p[i].part = "finally" => p[i].kind = "try"
  /\ \A i, j \in 1..Len(p) : i < j /\ p[i].part = "finally" => p[j].kind # "try"

(* The jumps out of the loop are none of the others.                       *)
LEMMA DifferentJumps ==
  /\ Tests!Here \notin Tests!Exits /\ Tests!Throw \notin Tests!Exits
  /\ \A n : Tests!Break(n) \in Tests!Exits => n = 1
  /\ \A n : Tests!Continue(n) \notin Tests!Exits
  /\ \A m, n : Tests!Break(m) = Tests!Break(n) => m = n
  /\ \A m, n : Tests!Break(m) # Tests!Continue(n)
  /\ {Tests!Here, Tests!Throw, Tests!Return, Tests!Call} \subseteq Places
  /\ \A n \in Nat : Tests!Break(n) \in Places /\ Tests!Continue(n) \in Places
  /\ Tests!Exits \subseteq Places
BY DEF Tests!Here, Tests!Throw, Tests!Break, Tests!Continue, Tests!Exits, Tests!Return, Tests!Call,
   Places

(* A jump is stopped by a statement that stops such jumps.                 *)
LEMMA StopperStops ==
  ASSUME NEW p \in Seq(Blocks), NEW to
  PROVE  \/ Tests!Stopper(p, to) = 0
         \/ /\ Tests!Stopper(p, to) \in 1..Len(p)
            /\ LET b == p[Tests!Stopper(p, to)]
               IN  Tests!Finalizing(b) \/ Tests!Catching(b, to) \/ Tests!Targets(b, to)
<1> DEFINE stops == {i \in DOMAIN p :
                       Tests!Finalizing(p[i]) \/ Tests!Catching(p[i], to) \/ Tests!Targets(p[i], to)}
<1>1. Len(p) \in Nat /\ DOMAIN p = 1..Len(p)
  BY LenProperties
<1>2. Tests!Stopper(p, to) = IF stops = {} THEN 0 ELSE CHOOSE i \in stops : \A j \in stops : j <= i
  BY DEF Tests!Stopper
<1>3. ASSUME stops # {}
      PROVE  \E i \in stops : \A j \in stops : j <= i
  <2> DEFINE S == {n \in Nat : Len(p) - n \in stops}
  <2>1. \A i \in stops : i \in 1..Len(p)
    BY <1>1
  <2>2. S # {}
    <3>1. PICK i \in stops : TRUE
      BY <1>3
    <3>2. Len(p) - i \in Nat /\ Len(p) - (Len(p) - i) = i
      BY <1>1, <2>1
    <3> QED
      BY <3>1, <3>2
  <2>3. PICK n \in S : \A m \in S : n <= m
    <3> HIDE DEF stops
    <3> QED
      BY <2>2, FirstNumber
  <2>4. ASSUME NEW j \in stops
        PROVE  j <= Len(p) - n
    <3>1. Len(p) - j \in Nat /\ Len(p) - (Len(p) - j) = j
      BY <1>1, <2>1
    <3>2. n <= Len(p) - j
      BY <2>3, <3>1
    <3> QED
      BY <1>1, <2>1, <2>3, <3>2
  <2> QED
    BY <2>3, <2>4
<1>4. stops # {} => Tests!Stopper(p, to) \in stops
  BY <1>2, <1>3, Zenon
<1> QED
  BY <1>1, <1>2, <1>4

(* What is delivered to a statement: jumps that it stops.                  *)
Arriving(p, tos, i) ==
  { IF to = Tests!Break(p[i].id) THEN Tests!Here ELSE to :
      to \in {t \in tos : Tests!Stopper(p, t) = i /\ ~ Tests!Catching(p[i], t)
                          /\ (Tests!Finalizing(p[i]) \/ t # Tests!Continue(p[i].id))} }

(* Delivering jumps changes nothing but where executions wait.             *)
LEMMA DeliveredBlocks ==
  ASSUME NEW p \in Seq(Blocks), NEW tos \in SUBSET Places
  PROVE  /\ Tests!Delivered(p, tos) \in Seq(Blocks) /\ Len(Tests!Delivered(p, tos)) = Len(p)
         /\ \A i \in 1..Len(p) :
              Tests!Delivered(p, tos)[i] = [p[i] EXCEPT !.out = p[i].out \cup Arriving(p, tos, i)]
<1> DEFINE q == Tests!Delivered(p, tos)
<1>1. Len(p) \in Nat /\ DOMAIN p = 1..Len(p) /\ \A i \in 1..Len(p) : p[i] \in Blocks
  BY LenProperties, ElementOfSeq
<1>2. q = [i \in 1..Len(p) |-> [p[i] EXCEPT !.out = p[i].out \cup Arriving(p, tos, i)]]
  BY <1>1 DEF Tests!Delivered, Arriving
<1>3. ASSUME NEW i \in 1..Len(p)
      PROVE  [p[i] EXCEPT !.out = p[i].out \cup Arriving(p, tos, i)] \in Blocks
  <2>1. Arriving(p, tos, i) \in SUBSET Places
    BY DifferentJumps DEF Arriving
  <2>2. p[i].out \cup Arriving(p, tos, i) \in SUBSET Places
    BY <1>1, <2>1 DEF Blocks
  <2> QED
    BY <1>1, <2>2 DEF Blocks
<1>4. q \in [1..Len(p) -> Blocks]
  BY <1>2, <1>3
<1>5. q \in Seq(Blocks)
  BY <1>1, <1>4, SeqDef
<1>6. Len(q) = Len(p)
  BY <1>1, <1>4, <1>5, LenProperties
<1> QED
  BY <1>2, <1>5, <1>6

LEMMA DeliveredFields ==
  ASSUME NEW p, Shape(p), NEW tos \in SUBSET Places
  PROVE  LET q == Tests!Delivered(p, tos)
         IN  /\ Shape(q) /\ Len(q) = Len(p)
             /\ \A i \in 1..Len(p) :
                  /\ q[i].id = p[i].id /\ q[i].kind = p[i].kind /\ q[i].part = p[i].part
                  /\ q[i].saved = p[i].saved /\ q[i].finally = p[i].finally
                  /\ q[i].out = p[i].out \cup Arriving(p, tos, i)
<1> DEFINE q == Tests!Delivered(p, tos)
<1>1. p \in Seq(Blocks) /\ Len(p) \in Nat /\ \A i \in 1..Len(p) : p[i] \in Blocks
  BY LenProperties, ElementOfSeq DEF Shape
<1>2. /\ q \in Seq(Blocks) /\ Len(q) = Len(p)
      /\ \A i \in 1..Len(p) : q[i] = [p[i] EXCEPT !.out = p[i].out \cup Arriving(p, tos, i)]
  BY <1>1, DeliveredBlocks
<1> HIDE DEF q
<1>3. \A i \in 1..Len(p) :
        /\ q[i].id = p[i].id /\ q[i].kind = p[i].kind /\ q[i].part = p[i].part
        /\ q[i].saved = p[i].saved /\ q[i].finally = p[i].finally
        /\ q[i].out = p[i].out \cup Arriving(p, tos, i)
  BY <1>1, <1>2 DEF Blocks
<1>4. q # <<>> => p # <<>> /\ 1 \in 1..Len(p)
  BY <1>1, <1>2, EmptySeq
<1>5. q # <<>> => q[1].id = 1 /\ q[1].kind = "loop"
  BY <1>3, <1>4 DEF Shape
<1>6. Shape(q)
  BY <1>2, <1>3, <1>5 DEF Shape
<1> QED
  BY <1>2, <1>3, <1>6 DEF q

(* A jump out of the loop is waiting for a finally block, or has left.     *)
LEMMA ExitIsDelivered ==
  ASSUME NEW p, Shape(p), NEW tos \in SUBSET Places, NEW i \in 1..Len(p)
  PROVE  Passing(Arriving(p, tos, i)) => Tests!Finalizing(p[i]) /\ Passing(tos)
<1>1. p \in Seq(Blocks) /\ Len(p) \in Nat
  BY LenProperties DEF Shape
<1> SUFFICES ASSUME NEW e \in Tests!Exits, e \in Arriving(p, tos, i)
             PROVE  Tests!Finalizing(p[i]) /\ Passing(tos)
  BY DEF Passing
<1>2. PICK to \in tos : /\ e = IF to = Tests!Break(p[i].id) THEN Tests!Here ELSE to
                        /\ Tests!Stopper(p, to) = i /\ ~ Tests!Catching(p[i], to)
  BY DEF Arriving
<1>3. e = to /\ to # Tests!Break(p[i].id)
  BY <1>2, DifferentJumps
<1>4. Tests!Finalizing(p[i]) \/ Tests!Targets(p[i], to)
  BY <1>1, <1>2, StopperStops
<1>5. ~ Tests!Targets(p[i], to)
  BY <1>3, DifferentJumps DEF Tests!Targets
<1> QED
  BY <1>3, <1>4, <1>5 DEF Passing

LEMMA ExitIsKept ==
  ASSUME NEW p, Shape(p), NEW tos \in SUBSET Places, Passing(tos)
  PROVE  Passing(Tests!Leaving(p, tos)) \/ \E i \in 1..Len(p) : Passing(Tests!Delivered(p, tos)[i].out)
<1>1. p \in Seq(Blocks) /\ Len(p) \in Nat
  BY LenProperties DEF Shape
<1>2. PICK to \in tos : to \in Tests!Exits
  BY DEF Passing
<1>3. to # Tests!Throw
  BY <1>2, DifferentJumps
<1> DEFINE s == Tests!Stopper(p, to)
<1>4. CASE s = 0
  BY <1>2, <1>3, <1>4 DEF Tests!Leaving, Passing
<1>5. CASE s # 0
  <2>1. s \in 1..Len(p)
        /\ (Tests!Finalizing(p[s]) \/ Tests!Catching(p[s], to) \/ Tests!Targets(p[s], to))
    BY <1>1, <1>5, StopperStops
  <2>2. ~ Tests!Catching(p[s], to)
    BY <1>3 DEF Tests!Catching
  <2>3. CASE to = Tests!Break(p[s].id)
    <3>1. p[s].id = 1
      BY <1>2, <2>3, DifferentJumps
    <3>2. s = 1
      BY <1>1, <2>1, <3>1 DEF Shape
    <3> QED
      BY <1>2, <1>3, <2>3, <3>1, <3>2 DEF Tests!Leaving, Passing
  <2>4. CASE to # Tests!Break(p[s].id)
    <3>1. Tests!Finalizing(p[s])
      BY <1>2, <2>1, <2>2, <2>4, DifferentJumps DEF Tests!Targets
    <3>2. to \in Arriving(p, tos, s)
      BY <1>2, <2>2, <2>4, <3>1 DEF Arriving
    <3>3. to \in Tests!Delivered(p, tos)[s].out
      BY <2>1, <3>2, DeliveredFields
    <3> QED
      BY <1>2, <2>1, <3>3 DEF Passing
  <2> QED
    BY <2>3, <2>4
<1> QED
  BY <1>4, <1>5

LEMMA OnlyExitsLeave ==
  ASSUME NEW p, NEW tos
  PROVE  Passing(Tests!Leaving(p, tos)) => Passing(tos)
BY DEF Passing, Tests!Leaving

-----------------------------------------------------------------------------
(* A statement is opened, closed, or goes on to its next part.             *)
LEMMA PushedShape ==
  ASSUME NEW p, Shape(p), NEW b \in Blocks, b.part # "finally",
         IF p = <<>> THEN b.id = 1 /\ b.kind = "loop" ELSE b.id # 1,
         b.kind = "try" => \A i \in 1..Len(p) : p[i].part # "finally"
  PROVE  LET q == Append(p, b)
         IN  /\ Shape(q) /\ Len(q) = Len(p) + 1 /\ q[Len(p) + 1] = b
             /\ \A i \in 1..Len(p) : q[i] = p[i]
<1> DEFINE q == Append(p, b)
<1>1. p \in Seq(Blocks) /\ Len(p) \in Nat
  BY LenProperties DEF Shape
<1>2. /\ q \in Seq(Blocks) /\ Len(q) = Len(p) + 1 /\ q[Len(p) + 1] = b
      /\ \A i \in 1..Len(p) : q[i] = p[i]
  BY <1>1
<1> HIDE DEF q
<1>3. q[1].id = 1 /\ q[1].kind = "loop"
  <2>1. CASE p = <<>>
    <3>1. Len(p) = 0
      BY <2>1
    <3> QED
      BY <1>2, <2>1, <3>1
  <2>2. CASE p # <<>>
    <3>1. 1 \in 1..Len(p)
      BY <1>1, <2>2, EmptySeq
    <3> QED
      BY <1>2, <2>2, <3>1 DEF Shape
  <2> QED
    BY <2>1, <2>2
<1>4. \A i \in 1..Len(q) : i > 1 => q[i].id # 1
  <2>1. p = <<>> => Len(p) = 0
    OBVIOUS
  <2> QED
    BY <1>1, <1>2, <2>1 DEF Shape
<1>5. \A i \in 1..Len(q) : q[i].part = "finally" => q[i].kind = "try"
  BY <1>1, <1>2 DEF Shape
<1>6. \A i, j \in 1..Len(q) : i < j /\ q[i].part = "finally" => q[j].kind # "try"
  BY <1>1, <1>2 DEF Shape
<1>7. Shape(q)
  BY <1>2, <1>3, <1>4, <1>5, <1>6 DEF Shape
<1> QED
  BY <1>2, <1>7 DEF q

LEMMA PoppedShape ==
  ASSUME NEW p, Shape(p), Len(p) > 1
  PROVE  LET q == Tests!Front(p)
         IN  /\ Shape(q) /\ Len(q) = Len(p) - 1
             /\ \A i \in 1..Len(p) - 1 : q[i] = p[i]
<1> DEFINE q == Tests!Front(p)
<1>1. p \in Seq(Blocks) /\ Len(p) \in Nat /\ p # <<>> /\ \A i \in 1..Len(p) : p[i] \in Blocks
  BY LenProperties, ElementOfSeq DEF Shape
<1>2. /\ q \in Seq(Blocks) /\ Len(q) = Len(p) - 1
      /\ \A i \in 1..Len(p) - 1 : q[i] = p[i]
  <2>1. q = SubSeq(p, 1, Len(p) - 1)
    BY DEF Tests!Front
  <2>2. 1 \in Int /\ Len(p) - 1 \in Int /\ \A i \in 1..Len(p) - 1 : p[i] \in Blocks
    BY <1>1
  <2>3. /\ SubSeq(p, 1, Len(p) - 1) \in Seq(Blocks)
        /\ Len(SubSeq(p, 1, Len(p) - 1)) = IF 1 <= Len(p) - 1 THEN Len(p) - 1 - 1 + 1 ELSE 0
        /\ \A i \in 1..Len(p) - 1 - 1 + 1 : SubSeq(p, 1, Len(p) - 1)[i] = p[1 + i - 1]
    BY <2>2, SubSeqProperties
  <2> HIDE DEF q
  <2> QED
    BY <1>1, <2>1, <2>3
<1> HIDE DEF q
<1>3. q[1].id = 1 /\ q[1].kind = "loop"
  BY <1>1, <1>2 DEF Shape
<1>4. Shape(q)
  BY <1>1, <1>2, <1>3 DEF Shape
<1> QED
  BY <1>2, <1>4 DEF q

LEMMA ToppedShape ==
  ASSUME NEW p, Shape(p), Len(p) > 1, NEW b \in Blocks,
         b.id = p[Len(p)].id, b.kind = p[Len(p)].kind, b.part = "finally" => b.kind = "try"
  PROVE  LET q == [p EXCEPT ![Len(p)] = b]
         IN  /\ Shape(q) /\ Len(q) = Len(p) /\ q[Len(p)] = b
             /\ \A i \in 1..Len(p) - 1 : q[i] = p[i]
<1> DEFINE q == [p EXCEPT ![Len(p)] = b]
<1>1. p \in Seq(Blocks) /\ Len(p) \in Nat /\ p # <<>>
  BY LenProperties DEF Shape
<1>2. /\ q \in Seq(Blocks) /\ Len(q) = Len(p) /\ q[Len(p)] = b
      /\ \A i \in 1..Len(p) - 1 : q[i] = p[i]
  BY <1>1, ExceptSeq
<1> HIDE DEF q
<1>3. q[1].id = 1 /\ q[1].kind = "loop"
  BY <1>1, <1>2 DEF Shape
<1>4. \A i \in 1..Len(q) : q[i].id = p[i].id /\ q[i].kind = p[i].kind
  BY <1>1, <1>2
<1>5. \A i \in 1..Len(q) : q[i].part = "finally" => q[i].kind = "try"
  BY <1>1, <1>2 DEF Shape
<1>6. \A i, j \in 1..Len(q) : i < j /\ q[i].part = "finally" => q[j].kind # "try"
  BY <1>1, <1>2, <1>4 DEF Shape
<1>7. Shape(q)
  BY <1>1, <1>2, <1>3, <1>4, <1>5, <1>6 DEF Shape
<1> QED
  BY <1>2, <1>7 DEF q

-----------------------------------------------------------------------------
(* What the walk knows. An execution that was bound elsewhere is at a      *)
(* place of the text only within a finally block, or where one waits for   *)
(* it: so every way out of the loop is known to the rule, and what the     *)
(* rule knows has left the loop, or still waits, unless a finally block    *)
(* has stopped it.                                                         *)
Sheltered(p, n) == \E k \in 1..Len(p) : k < n /\ p[k].part = "finally"
Flow(p, r) ==
  /\ Passing(r) => Sheltered(p, Len(p) + 1)
  /\ \A i \in 1..Len(p) :
       /\ Passing(p[i].saved) => Sheltered(p, i)
       /\ Passing(p[i].out) =>
            Tests!Finalizing(p[i]) \/ (p[i].kind = "if" /\ p[i].part = "else" /\ Sheltered(p, i))
Known(p, r, l) ==
  \/ Passing(l) \/ Passing(r)
  \/ \E i \in 1..Len(p) : Passing(p[i].saved) \/ Passing(p[i].out)
Carried(p, r, l) == Passing(l) \/ Passing(r) \/ \E i \in 1..Len(p) : Passing(p[i].out)
Walking(p, r, l, e, o) ==
  /\ Shape(p) /\ r \in SUBSET Places /\ e \in BOOLEAN /\ o \in BOOLEAN
  /\ Flow(p, r)
  /\ Known(p, r, l) => e
  /\ e /\ ~ o => Carried(p, r, l)

LEMMA EnterWalks ==
  ASSUME NEW p, NEW r, NEW l, NEW e, NEW o, Walking(p, r, l, e, o),
         NEW b \in Blocks, p # <<>>, b.part # "finally", b.id # 1, b.saved = r, ~ Passing(b.out),
         b.kind = "try" => \A i \in 1..Len(p) : p[i].part # "finally"
  PROVE  Walking(Append(p, b), r, l, e, o)
<1> DEFINE q == Append(p, b)
<1>1. Shape(p) /\ Len(p) \in Nat /\ Flow(p, r)
  BY LenProperties DEF Walking, Shape
<1>2. /\ Shape(q) /\ Len(q) = Len(p) + 1 /\ q[Len(p) + 1] = b
      /\ \A i \in 1..Len(p) : q[i] = p[i]
  BY <1>1, PushedShape
<1> HIDE DEF q
<1>3. \A n \in 1..Len(p) + 1 : Sheltered(p, n) => Sheltered(q, n) /\ Sheltered(q, n + 1)
  BY <1>1, <1>2 DEF Sheltered
<1>4. Flow(q, r)
  <2>1. Passing(r) => Sheltered(q, Len(p) + 1) /\ Sheltered(q, Len(q) + 1)
    BY <1>1, <1>2, <1>3 DEF Flow
  <2>2. ASSUME NEW i \in 1..Len(p)
        PROVE  /\ Passing(q[i].saved) => Sheltered(q, i)
               /\ Passing(q[i].out) =>
                    \/ Tests!Finalizing(q[i])
                    \/ q[i].kind = "if" /\ q[i].part = "else" /\ Sheltered(q, i)
    BY <1>1, <1>2, <1>3 DEF Flow
  <2>3. \A i \in 1..Len(q) : i \in 1..Len(p) \/ i = Len(p) + 1
    BY <1>1, <1>2
  <2> QED
    BY <1>2, <2>1, <2>2, <2>3 DEF Flow
<1>5. Known(q, r, l) => Known(p, r, l)
  BY <1>1, <1>2 DEF Known
<1>6. Carried(p, r, l) => Carried(q, r, l)
  BY <1>1, <1>2 DEF Carried
<1> QED
  BY <1>2, <1>4, <1>5, <1>6 DEF Walking, q

LEMMA LeaveWalks ==
  ASSUME NEW p, NEW r, NEW l, NEW e, NEW o, Walking(p, r, l, e, o), Len(p) > 1,
         p[Len(p)].kind # "try", NEW s \in SUBSET Places,
         Passing(s) => Passing(r) \/ Passing(p[Len(p)].out) \/ Passing(p[Len(p)].saved),
         Passing(r) \/ Passing(p[Len(p)].out) => Passing(s)
  PROVE  Walking(Tests!Front(p), s, l, e, o)
<1> DEFINE q == Tests!Front(p)
           n == Len(p)
<1>1. Shape(p) /\ n \in Nat /\ Flow(p, r)
  BY LenProperties DEF Walking, Shape
<1>2. Shape(q) /\ Len(q) = n - 1 /\ \A i \in 1..n - 1 : q[i] = p[i]
  BY <1>1, PoppedShape
<1> HIDE DEF q
<1>3. \A i \in 1..n : Sheltered(p, i) => Sheltered(q, i)
  BY <1>1, <1>2 DEF Sheltered
<1>4. Passing(s) => Sheltered(q, n)
  <2>1. n \in 1..n /\ p[n].part # "finally"
    BY <1>1 DEF Shape
  <2>2. Sheltered(p, n + 1) => Sheltered(p, n)
    BY <1>1, <2>1 DEF Sheltered
  <2>3. ~ Tests!Finalizing(p[n])
    BY DEF Tests!Finalizing
  <2> QED
    BY <1>1, <1>3, <2>1, <2>2, <2>3 DEF Flow
<1>5. Flow(q, s)
  BY <1>1, <1>2, <1>3, <1>4 DEF Flow
<1>6. Known(q, s, l) => Known(p, r, l)
  BY <1>1, <1>2 DEF Known
<1>7. Carried(p, r, l) => Carried(q, s, l)
  BY <1>1, <1>2 DEF Carried
<1> QED
  BY <1>2, <1>5, <1>6, <1>7 DEF Walking, q

(* An if statement goes on to its else branch.                             *)
LEMMA ElseWalks ==
  ASSUME NEW p, NEW r, NEW l, NEW e, NEW o, Walking(p, r, l, e, o), Len(p) > 1,
         p[Len(p)].kind = "if", p[Len(p)].part = "then"
  PROVE  Walking([p EXCEPT ![Len(p)] = [p[Len(p)] EXCEPT !.part = "else", !.out = r]],
                 p[Len(p)].saved, l, e, o)
<1> DEFINE n == Len(p)
           b == [p[n] EXCEPT !.part = "else", !.out = r]
           q == [p EXCEPT ![n] = b]
<1>1. Shape(p) /\ n \in Nat /\ Flow(p, r) /\ n \in 1..n /\ p[n] \in Blocks /\ r \in SUBSET Places
  BY LenProperties, ElementOfSeq DEF Walking, Shape
<1>2. /\ b \in Blocks /\ b.id = p[n].id /\ b.kind = "if" /\ b.part = "else" /\ b.out = r
      /\ b.saved = p[n].saved /\ p[n].saved \in SUBSET Places
  BY <1>1 DEF Blocks
<1> HIDE DEF b
<1>3. /\ Shape(q) /\ Len(q) = n /\ q[n] = b
      /\ \A i \in 1..n - 1 : q[i] = p[i]
  BY <1>1, <1>2, ToppedShape
<1> HIDE DEF q
<1>4. \A i \in 1..n : Sheltered(p, i) => Sheltered(q, i) /\ Sheltered(q, n + 1)
  BY <1>1, <1>3 DEF Sheltered
<1>5. Passing(r) => Sheltered(q, n)
  <2>1. Sheltered(p, n + 1) => Sheltered(p, n)
    BY <1>1 DEF Sheltered
  <2> QED
    BY <1>1, <1>4, <2>1 DEF Flow
<1>6. ~ Passing(p[n].out)
  BY <1>1 DEF Flow, Tests!Finalizing
<1>7. Flow(q, p[n].saved)
  <2>1. Passing(p[n].saved) => Sheltered(q, n) /\ Sheltered(q, n + 1)
    BY <1>1, <1>4 DEF Flow
  <2>2. ASSUME NEW i \in 1..n - 1
        PROVE  /\ Passing(q[i].saved) => Sheltered(q, i)
               /\ Passing(q[i].out) =>
                    \/ Tests!Finalizing(q[i])
                    \/ q[i].kind = "if" /\ q[i].part = "else" /\ Sheltered(q, i)
    BY <1>1, <1>3, <1>4 DEF Flow
  <2>3. \A i \in 1..n : i \in 1..n - 1 \/ i = n
    BY <1>1
  <2> QED
    BY <1>2, <1>3, <1>5, <2>1, <2>2, <2>3 DEF Flow
<1>8. Known(q, p[n].saved, l) => Known(p, r, l)
  BY <1>1, <1>2, <1>3 DEF Known
<1>9. Carried(p, r, l) => Carried(q, p[n].saved, l)
  <2>1. \A i \in 1..n : i \in 1..n - 1 \/ i = n
    BY <1>1
  <2> QED
    BY <1>1, <1>2, <1>3, <1>6, <2>1 DEF Carried
<1>10. e \in BOOLEAN /\ o \in BOOLEAN /\ (Known(p, r, l) => e) /\ (e /\ ~ o => Carried(p, r, l))
  BY DEF Walking
<1>11. Walking(q, p[n].saved, l, e, o)
  BY <1>2, <1>3, <1>7, <1>8, <1>9, <1>10 DEF Walking
<1> QED
  BY <1>11 DEF q, b

(* A try statement goes on to its catch or finally block, or ends.         *)
LEMMA TryIsBare ==
  ASSUME NEW p, NEW r, Shape(p), Flow(p, r), p # <<>>, p[Len(p)].kind = "try"
  PROVE  /\ ~ Sheltered(p, Len(p)) /\ ~ Passing(p[Len(p)].saved)
         /\ p[Len(p)].part # "finally" => ~ Passing(r)
         /\ Passing(p[Len(p)].out) => Tests!Finalizing(p[Len(p)])
<1>1. Len(p) \in Nat /\ Len(p) \in 1..Len(p)
  BY LenProperties, EmptySeq DEF Shape
<1>2. ~ Sheltered(p, Len(p))
  BY <1>1 DEF Shape, Sheltered
<1>3. p[Len(p)].part # "finally" => ~ Sheltered(p, Len(p) + 1)
  BY <1>1, <1>2 DEF Sheltered
<1> QED
  BY <1>1, <1>2, <1>3 DEF Flow

LEMMA CatchWalks ==
  ASSUME NEW p, NEW r, NEW l, NEW e, NEW o, Walking(p, r, l, e, o), Len(p) > 1,
         p[Len(p)].kind = "try", p[Len(p)].part = "block"
  PROVE  Walking([p EXCEPT ![Len(p)] =
           [p[Len(p)] EXCEPT !.part = "catch", !.out = p[Len(p)].out \cup r]],
                 p[Len(p)].saved, l, e, o)
<1> DEFINE n == Len(p)
           b == [p[n] EXCEPT !.part = "catch", !.out = p[n].out \cup r]
           q == [p EXCEPT ![n] = b]
<1>1. Shape(p) /\ n \in Nat /\ Flow(p, r) /\ n \in 1..n /\ p[n] \in Blocks /\ r \in SUBSET Places
      /\ p # <<>>
  BY LenProperties, ElementOfSeq DEF Walking, Shape
<1>2. /\ b \in Blocks /\ b.id = p[n].id /\ b.kind = "try" /\ b.part = "catch" /\ b.out = p[n].out \cup r
      /\ b.saved = p[n].saved /\ b.finally = p[n].finally /\ p[n].saved \in SUBSET Places
  BY <1>1 DEF Blocks
<1> HIDE DEF b
<1>3. /\ Shape(q) /\ Len(q) = n /\ q[n] = b
      /\ \A i \in 1..n - 1 : q[i] = p[i]
  BY <1>1, <1>2, ToppedShape
<1> HIDE DEF q
<1>4. ~ Passing(p[n].saved) /\ ~ Passing(r) /\ (Passing(p[n].out) => Tests!Finalizing(p[n]))
  BY <1>1, TryIsBare
<1>5. \A i \in 1..n - 1 : Sheltered(p, i) => Sheltered(q, i)
  BY <1>1, <1>3 DEF Sheltered
<1>6. Passing(b.out) => Passing(p[n].out) /\ Tests!Finalizing(b)
  <2>1. Passing(b.out) => Passing(p[n].out)
    BY <1>2, <1>4 DEF Passing
  <2> QED
    BY <1>2, <1>4, <2>1 DEF Tests!Finalizing
<1>7. \A i \in 1..n : i \in 1..n - 1 \/ i = n
  BY <1>1
<1>8. Flow(q, p[n].saved)
  <2>1. ASSUME NEW i \in 1..n - 1
        PROVE  /\ Passing(q[i].saved) => Sheltered(q, i)
               /\ Passing(q[i].out) =>
                    \/ Tests!Finalizing(q[i])
                    \/ q[i].kind = "if" /\ q[i].part = "else" /\ Sheltered(q, i)
    BY <1>1, <1>3, <1>5 DEF Flow
  <2> QED
    BY <1>2, <1>3, <1>4, <1>6, <1>7, <2>1 DEF Flow
<1>9. Known(q, p[n].saved, l) => Known(p, r, l)
  BY <1>1, <1>2, <1>3, <1>4, <1>6, <1>7 DEF Known
<1>10. Carried(p, r, l) => Carried(q, p[n].saved, l)
  <2>1. Passing(p[n].out) => Passing(b.out)
    BY <1>2 DEF Passing
  <2> QED
    BY <1>1, <1>3, <1>4, <1>7, <2>1 DEF Carried
<1>11. e \in BOOLEAN /\ o \in BOOLEAN /\ (Known(p, r, l) => e) /\ (e /\ ~ o => Carried(p, r, l))
  BY DEF Walking
<1>12. Walking(q, p[n].saved, l, e, o)
  BY <1>2, <1>3, <1>8, <1>9, <1>10, <1>11 DEF Walking
<1> QED
  BY <1>12 DEF q, b

LEMMA FinallyWalks ==
  ASSUME NEW p, NEW r, NEW l, NEW e, NEW o, Walking(p, r, l, e, o), Len(p) > 1,
         p[Len(p)].kind = "try", p[Len(p)].part # "finally"
  PROVE  Walking([p EXCEPT ![Len(p)] = [p[Len(p)] EXCEPT !.part = "finally", !.out = {}]],
                 p[Len(p)].out \cup r, l, e, o)
<1> DEFINE n == Len(p)
           b == [p[n] EXCEPT !.part = "finally", !.out = {}]
           q == [p EXCEPT ![n] = b]
           s == p[n].out \cup r
<1>1. Shape(p) /\ n \in Nat /\ Flow(p, r) /\ n \in 1..n /\ p[n] \in Blocks /\ r \in SUBSET Places
      /\ p # <<>>
  BY LenProperties, ElementOfSeq DEF Walking, Shape
<1>2. /\ b \in Blocks /\ b.id = p[n].id /\ b.kind = "try" /\ b.part = "finally" /\ b.out = {}
      /\ b.saved = p[n].saved /\ s \in SUBSET Places
  BY <1>1 DEF Blocks
<1> HIDE DEF b
<1>3. /\ Shape(q) /\ Len(q) = n /\ q[n] = b
      /\ \A i \in 1..n - 1 : q[i] = p[i]
  BY <1>1, <1>2, ToppedShape
<1> HIDE DEF q
<1>4. ~ Passing(p[n].saved) /\ ~ Passing(r) /\ ~ Passing(b.out)
  <2>1. ~ Passing(p[n].saved) /\ ~ Passing(r)
    BY <1>1, TryIsBare
  <2> QED
    BY <1>2, <2>1 DEF Passing
<1>5. \A i \in 1..n - 1 : Sheltered(p, i) => Sheltered(q, i)
  BY <1>1, <1>3 DEF Sheltered
<1>6. Sheltered(q, n + 1)
  BY <1>1, <1>2, <1>3 DEF Sheltered
<1>7. \A i \in 1..n : i \in 1..n - 1 \/ i = n
  BY <1>1
<1>8. Flow(q, s)
  <2>1. ASSUME NEW i \in 1..n - 1
        PROVE  /\ Passing(q[i].saved) => Sheltered(q, i)
               /\ Passing(q[i].out) =>
                    \/ Tests!Finalizing(q[i])
                    \/ q[i].kind = "if" /\ q[i].part = "else" /\ Sheltered(q, i)
    BY <1>1, <1>3, <1>5 DEF Flow
  <2> QED
    BY <1>2, <1>3, <1>4, <1>6, <1>7, <2>1 DEF Flow
<1>9. Passing(s) <=> Passing(p[n].out) \/ Passing(r)
  BY DEF Passing
<1> HIDE DEF s
<1>10. Known(q, s, l) => Known(p, r, l)
  BY <1>1, <1>2, <1>3, <1>4, <1>7, <1>9 DEF Known
<1>11. Carried(p, r, l) => Carried(q, s, l)
  BY <1>1, <1>3, <1>7, <1>9 DEF Carried
<1>12. e \in BOOLEAN /\ o \in BOOLEAN /\ (Known(p, r, l) => e) /\ (e /\ ~ o => Carried(p, r, l))
  BY DEF Walking
<1>13. Walking(q, s, l, e, o)
  BY <1>2, <1>3, <1>8, <1>10, <1>11, <1>12 DEF Walking
<1> QED
  BY <1>13 DEF q, b, s

(* Jumps are delivered to the statements p, and nothing of them stays.     *)
LEMMA DeliveredFlow ==
  ASSUME NEW p, Shape(p), NEW r, NEW s, NEW tos \in SUBSET Places, ~ Passing(s),
         \A i \in 1..Len(p) :
           /\ Passing(p[i].saved) => Sheltered(p, i)
           /\ Passing(p[i].out) =>
                Tests!Finalizing(p[i]) \/ (p[i].kind = "if" /\ p[i].part = "else" /\ Sheltered(p, i))
  PROVE  Flow(Tests!Delivered(p, tos), s)
<1> DEFINE q == Tests!Delivered(p, tos)
<1>1. /\ Shape(q) /\ Len(q) = Len(p)
      /\ \A i \in 1..Len(p) :
           /\ q[i].id = p[i].id /\ q[i].kind = p[i].kind /\ q[i].part = p[i].part
           /\ q[i].saved = p[i].saved /\ q[i].finally = p[i].finally
           /\ q[i].out = p[i].out \cup Arriving(p, tos, i)
  BY DeliveredFields
<1> HIDE DEF q
<1>2. \A n : Sheltered(p, n) => Sheltered(q, n)
  BY <1>1 DEF Sheltered
<1>3. ASSUME NEW i \in 1..Len(p), Passing(q[i].out)
      PROVE  Tests!Finalizing(q[i]) \/ (q[i].kind = "if" /\ q[i].part = "else" /\ Sheltered(q, i))
  <2>1. Passing(p[i].out) \/ Passing(Arriving(p, tos, i))
    BY <1>1, <1>3 DEF Passing
  <2>2. Tests!Finalizing(p[i]) <=> Tests!Finalizing(q[i])
    BY <1>1 DEF Tests!Finalizing
  <2> QED
    BY <1>1, <1>2, <2>1, <2>2, ExitIsDelivered
<1>4. Flow(q, s)
  BY <1>1, <1>2, <1>3 DEF Flow
<1> QED
  BY <1>4 DEF q

LEMMA DeliveredExits ==
  ASSUME NEW p, Shape(p), NEW tos \in SUBSET Places, NEW l
  PROVE  LET q == Tests!Delivered(p, tos)
             k == l \cup Tests!Leaving(p, tos)
         IN  /\ Passing(l) \/ Passing(tos) => Passing(k) \/ \E i \in 1..Len(p) : Passing(q[i].out)
             /\ \A i \in 1..Len(p) : Passing(p[i].out) => Passing(q[i].out)
             /\ Passing(k) => Passing(l) \/ Passing(tos)
             /\ \A i \in 1..Len(p) : Passing(q[i].out) => Passing(p[i].out) \/ Passing(tos)
<1> DEFINE q == Tests!Delivered(p, tos)
           k == l \cup Tests!Leaving(p, tos)
<1>1. \A i \in 1..Len(p) : q[i].out = p[i].out \cup Arriving(p, tos, i)
  BY DeliveredFields
<1>2. Passing(k) <=> Passing(l) \/ Passing(Tests!Leaving(p, tos))
  BY DEF Passing
<1>3. \A i \in 1..Len(p) : Passing(q[i].out) <=> Passing(p[i].out) \/ Passing(Arriving(p, tos, i))
  BY <1>1 DEF Passing
<1>4. \A i \in 1..Len(p) : Passing(Arriving(p, tos, i)) => Passing(tos)
  BY ExitIsDelivered
<1>5. Passing(tos) => Passing(Tests!Leaving(p, tos)) \/ \E i \in 1..Len(p) : Passing(q[i].out)
  BY ExitIsKept
<1>6. Passing(Tests!Leaving(p, tos)) => Passing(tos)
  BY OnlyExitsLeave
<1> HIDE DEF q, k
<1>7. /\ Passing(l) \/ Passing(tos) => Passing(k) \/ \E i \in 1..Len(p) : Passing(q[i].out)
      /\ \A i \in 1..Len(p) : Passing(p[i].out) => Passing(q[i].out)
      /\ Passing(k) => Passing(l) \/ Passing(tos)
      /\ \A i \in 1..Len(p) : Passing(q[i].out) => Passing(p[i].out) \/ Passing(tos)
  BY <1>2, <1>3, <1>4, <1>5, <1>6
<1> QED
  BY <1>7 DEF q, k

LEMMA EndTryWalks ==
  ASSUME NEW p, NEW r, NEW l, NEW e, NEW o, Walking(p, r, l, e, o), Len(p) > 1,
         p[Len(p)].kind = "try", p[Len(p)].part = (IF p[Len(p)].finally THEN "finally" ELSE "catch"),
         NEW out, out = IF p[Len(p)].finally THEN r ELSE (p[Len(p)].out \cup r) \ {Tests!Throw}
  PROVE  Walking(Tests!Delivered(Tests!Front(p), out \ {Tests!Here}), out \cap {Tests!Here},
                 l \cup Tests!Leaving(Tests!Front(p), out \ {Tests!Here}), e, o)
<1> DEFINE n == Len(p)
           f == Tests!Front(p)
           tos == out \ {Tests!Here}
           q == Tests!Delivered(f, tos)
           k == l \cup Tests!Leaving(f, tos)
           s == out \cap {Tests!Here}
<1>1. Shape(p) /\ n \in Nat /\ Flow(p, r) /\ n \in 1..n /\ p[n] \in Blocks /\ r \in SUBSET Places
      /\ p # <<>>
  BY LenProperties, ElementOfSeq DEF Walking, Shape
<1>2. Shape(f) /\ Len(f) = n - 1 /\ \A i \in 1..n - 1 : f[i] = p[i]
  BY <1>1, PoppedShape
<1>3. tos \in SUBSET Places /\ s \in SUBSET Places /\ ~ Passing(s)
  <2>1. out \in SUBSET Places
    BY <1>1 DEF Blocks
  <2> QED
    BY <2>1, DifferentJumps DEF Passing
<1>4. Passing(tos) <=> Passing(r) \/ Passing(p[n].out)
  <2>1. ~ Tests!Finalizing(p[n]) \/ p[n].part = "catch"
    BY DEF Tests!Finalizing
  <2>2. p[n].finally => ~ Passing(p[n].out)
    BY <1>1, TryIsBare DEF Tests!Finalizing
  <2>3. Passing(tos) <=> Passing(out)
    BY DifferentJumps DEF Passing
  <2>4. CASE p[n].finally
    BY <2>2, <2>3, <2>4
  <2>5. CASE ~ p[n].finally
    <3>1. Passing(out) <=> Passing(r) \/ Passing(p[n].out)
      BY <2>5, DifferentJumps DEF Passing
    <3> QED
      BY <2>3, <3>1
  <2> QED
    BY <2>4, <2>5
<1>5. /\ Shape(q) /\ Len(q) = n - 1
      /\ \A i \in 1..n - 1 : q[i].saved = p[i].saved
  BY <1>2, <1>3, DeliveredFields
<1>6. Flow(q, s)
  <2>1. \A i \in 1..n - 1 : Sheltered(p, i) => Sheltered(f, i)
    BY <1>1, <1>2 DEF Sheltered
  <2>2. \A i \in 1..Len(f) :
           /\ Passing(f[i].saved) => Sheltered(f, i)
           /\ Passing(f[i].out) =>
                Tests!Finalizing(f[i]) \/ (f[i].kind = "if" /\ f[i].part = "else" /\ Sheltered(f, i))
    <3> HIDE DEF f
    <3> QED
      BY <1>1, <1>2, <2>1 DEF Flow
  <2> HIDE DEF f, tos, s
  <2> QED
    BY <1>2, <1>3, <2>2, DeliveredFlow
<1>7. /\ Passing(l) \/ Passing(tos) => Passing(k) \/ \E i \in 1..n - 1 : Passing(q[i].out)
      /\ \A i \in 1..n - 1 : Passing(p[i].out) => Passing(q[i].out)
      /\ Passing(k) => Passing(l) \/ Passing(tos)
      /\ \A i \in 1..n - 1 : Passing(q[i].out) => Passing(p[i].out) \/ Passing(tos)
  <2> HIDE DEF f, tos, q, k
  <2>1. /\ Passing(l) \/ Passing(tos) => Passing(k) \/ \E i \in 1..Len(f) : Passing(q[i].out)
        /\ \A i \in 1..Len(f) : Passing(f[i].out) => Passing(q[i].out)
        /\ Passing(k) => Passing(l) \/ Passing(tos)
        /\ \A i \in 1..Len(f) : Passing(q[i].out) => Passing(f[i].out) \/ Passing(tos)
    BY <1>2, <1>3, DeliveredExits DEF q, k
  <2>2. 1..Len(f) = 1..n - 1 /\ \A i \in 1..n - 1 : f[i] = p[i]
    BY <1>2
  <2> QED
    BY <2>1, <2>2
<1> HIDE DEF f, tos, s, q, k
<1>8. Known(q, s, k) => Known(p, r, l)
  BY <1>1, <1>3, <1>4, <1>5, <1>7 DEF Known
<1>9. Carried(p, r, l) => Carried(q, s, k)
  BY <1>1, <1>4, <1>5, <1>7 DEF Carried
<1>10. e \in BOOLEAN /\ o \in BOOLEAN /\ (Known(p, r, l) => e) /\ (e /\ ~ o => Carried(p, r, l))
  BY DEF Walking
<1>11. Walking(q, s, k, e, o)
  BY <1>3, <1>5, <1>6, <1>8, <1>9, <1>10 DEF Walking
<1> QED
  BY <1>11 DEF q, s, k, f, tos

(* A jump, of which the rule knows whether it leaves the loop.             *)
LEMMA JumpWalks ==
  ASSUME NEW p, NEW r, NEW l, NEW e, NEW o, Walking(p, r, l, e, o), NEW to \in Places,
         NEW e2 \in BOOLEAN, e2 <=> e \/ to \in Tests!Exits,
         NEW o2 \in BOOLEAN, o2 <=> o \/ r \cap {Tests!Here, Tests!Throw} # r
  PROVE  Walking(Tests!Delivered(p, {to}), {}, l \cup Tests!Leaving(p, {to}), e2, o2)
<1> DEFINE tos == {to}
           q == Tests!Delivered(p, tos)
           k == l \cup Tests!Leaving(p, tos)
<1>1. Shape(p) /\ Flow(p, r) /\ tos \in SUBSET Places /\ (Passing(tos) <=> to \in Tests!Exits)
      /\ ~ Passing({})
  BY DEF Walking, Passing
<1>2. Shape(q) /\ Len(q) = Len(p) /\ \A i \in 1..Len(p) : q[i].saved = p[i].saved
  BY <1>1, DeliveredFields
<1>3. Flow(q, {})
  <2> HIDE DEF tos
  <2> QED
    BY <1>1, DeliveredFlow DEF Flow
<1>4. /\ Passing(l) \/ Passing(tos) => Passing(k) \/ \E i \in 1..Len(p) : Passing(q[i].out)
      /\ \A i \in 1..Len(p) : Passing(p[i].out) => Passing(q[i].out)
      /\ Passing(k) => Passing(l) \/ Passing(tos)
      /\ \A i \in 1..Len(p) : Passing(q[i].out) => Passing(p[i].out) \/ Passing(tos)
  <2> HIDE DEF tos
  <2> QED
    BY <1>1, DeliveredExits
<1>5. ~ o2 => ~ o /\ ~ Passing(r)
  <2>1. r = r \cap {Tests!Here, Tests!Throw} => ~ Passing(r)
    BY DifferentJumps DEF Passing
  <2> QED
    BY <2>1
<1>6. e \in BOOLEAN /\ o \in BOOLEAN /\ (Known(p, r, l) => e) /\ (e /\ ~ o => Carried(p, r, l))
  BY DEF Walking
<1> HIDE DEF tos, q, k
<1>8. Known(q, {}, k) => e2
  BY <1>1, <1>2, <1>4, <1>6 DEF Known
<1>9. e2 /\ ~ o2 => Carried(q, {}, k)
  BY <1>1, <1>2, <1>4, <1>5, <1>6 DEF Carried
<1>10. Walking(q, {}, k, e2, o2)
  BY <1>2, <1>3, <1>8, <1>9 DEF Walking
<1> QED
  BY <1>10 DEF q, k, tos

(* A configured call leaves the loop at once.                              *)
LEMMA CallWalks ==
  ASSUME NEW p, NEW r, NEW l, NEW e, NEW o, Walking(p, r, l, e, o)
  PROVE  Walking(p, r, l \cup {Tests!Call}, TRUE, o)
<1>1. Passing(l \cup {Tests!Call})
  BY DEF Passing, Tests!Exits
<1> QED
  BY <1>1 DEF Walking, Carried

-----------------------------------------------------------------------------
(* The invariant: every expression is judged; a loop that has not begun    *)
(* has nothing; the walk knows what it knows, and at its end nothing is    *)
(* open but the loop.                                                      *)
JudgedOnes == {e \in Expressions : Sound(e)}
ConditionsInv ==
  /\ operands \in Seq(JudgedOnes)
  /\ conditionVerdict \in {"none", "silent", "reported"}
  /\ entered \in Nat /\ jumps \in Nat
  /\ IF blocks = <<>> THEN ~ exit /\ left = {} /\ reach = {Tests!Here} /\ entered = 0 ELSE entered >= 1
  /\ Walking(blocks, reach, left, exit, overridden)
  /\ conditionVerdict # "none" /\ blocks # <<>> =>
       Len(blocks) = 1 /\ (conditionVerdict = "silent" <=> exit)

LEMMA NothingWalks ==
  ASSUME NEW o \in BOOLEAN
  PROVE  Walking(<<>>, {Tests!Here}, {}, FALSE, o)
<1>1. <<>> \in Seq(Blocks) /\ Len(<<>>) = 0 /\ 1..0 = {}
  BY EmptySeq
<1>2. ~ Passing({Tests!Here}) /\ ~ Passing({}) /\ {Tests!Here} \in SUBSET Places
  BY DifferentJumps DEF Passing
<1>3. Shape(<<>>)
  BY <1>1 DEF Shape
<1>4. Flow(<<>>, {Tests!Here})
  BY <1>1, <1>2 DEF Flow
<1>5. ~ Known(<<>>, {Tests!Here}, {})
  BY <1>1, <1>2 DEF Known
<1> QED
  BY <1>2, <1>3, <1>4, <1>5 DEF Walking

LEMMA ConditionsInitInv == Tests!Init => ConditionsInv
<1> SUFFICES ASSUME Tests!Init PROVE ConditionsInv
  OBVIOUS
<1>1. <<>> \in Seq(JudgedOnes)
  BY EmptySeq
<1>2. Walking(blocks, reach, left, exit, overridden)
  BY NothingWalks DEF Tests!Init
<1> QED
  BY <1>1, <1>2 DEF ConditionsInv, Tests!Init

(* Before a loop is walked only the expressions and the verdict change.    *)
LEMMA JudgingInv ==
  ASSUME ConditionsInv, Tests!Building, UNCHANGED Tests!body, operands' \in Seq(JudgedOnes),
         conditionVerdict' \in {"none", "silent", "reported"}
  PROVE  ConditionsInv'
BY DEF ConditionsInv, Tests!Building, Tests!body

LEMMA SettledVerdict ==
  ASSUME NEW reported, Tests!Settle(reported)
  PROVE  conditionVerdict' \in {"none", "silent", "reported"}
BY DEF Tests!Settle

LEMMA JudgeKeepsInv == ConditionsInv /\ Tests!Judge => ConditionsInv'
<1> SUFFICES ASSUME ConditionsInv, Tests!Judge PROVE ConditionsInv'
  OBVIOUS
<1>1. /\ operands \in Seq(JudgedOnes) /\ conditionVerdict \in {"none", "silent", "reported"}
      /\ Len(operands) \in Nat /\ \A i \in 1..Len(operands) : operands[i] \in JudgedOnes
  BY LenProperties, ElementOfSeq DEF ConditionsInv
<1>2. \A e : e \in JudgedOnes <=> Judged(e)
  BY DEF JudgedOnes, Judged
<1>3. ASSUME NEW n \in 1..3, NEW result \in JudgedOnes, Tests!Build(n, result)
      PROVE  ConditionsInv'
  <2>1. SubSeq(operands, 1, Len(operands) - n) \in Seq(JudgedOnes)
    <3>1. /\ 1 \in Int /\ Len(operands) - n \in Int
          /\ \A i \in 1..Len(operands) - n : operands[i] \in JudgedOnes
      BY <1>1
    <3> QED
      BY <3>1, SubSeqProperties
  <2>2. operands' \in Seq(JudgedOnes)
    BY <1>3, <2>1 DEF Tests!Build
  <2>3. Tests!Building /\ UNCHANGED Tests!body /\ conditionVerdict' = conditionVerdict
    BY <1>3 DEF Tests!Build
  <2> QED
    BY <1>1, <2>2, <2>3, JudgingInv
<1>4. \A k \in 0..2 : k < Len(operands) => Judged(Tests!FromLast(k))
  BY <1>1, <1>2 DEF Tests!FromLast
<1>5. CASE Tests!Begin
  <2>1. PICK e \in Tests!GetConstantValue : operands' = Append(operands, e)
    BY <1>5 DEF Tests!Begin
  <2>2. e \in JudgedOnes
    BY <1>2, OperandsAreJudged
  <2>3. operands' \in Seq(JudgedOnes)
    BY <1>1, <2>1, <2>2
  <2>4. Tests!Building /\ UNCHANGED Tests!body /\ conditionVerdict' = conditionVerdict
    BY <1>5 DEF Tests!Begin
  <2> QED
    BY <1>1, <2>3, <2>4, JudgingInv
<1>6. CASE Tests!Unary
  <2>1. PICK operator \in Operators :
          /\ operands # <<>> /\ Tests!IsAbout(operator, Tests!FromLast(0))
          /\ Tests!Build(1, Tests!GetUnaryConstantValue(operator, Tests!FromLast(0)))
    BY <1>6 DEF Tests!Unary, Operators
  <2>2. 0 < Len(operands)
    BY <1>1, <2>1, EmptySeq
  <2>3. Tests!GetUnaryConstantValue(operator, Tests!FromLast(0)) \in JudgedOnes
    BY <1>2, <1>4, <2>1, <2>2, UnaryIsJudged
  <2> QED
    BY <1>3, <2>1, <2>3
<1>7. CASE Tests!Binary
  <2>1. PICK operator \in {"&&", "||", "??"} :
               Tests!Build(2, Tests!Logical(operator, Tests!FromLast(1), Tests!FromLast(0)))
    BY <1>7 DEF Tests!Binary
  <2>2. 2 <= Len(operands)
    BY <2>1 DEF Tests!Build
  <2>3. Judged(Tests!FromLast(1)) /\ Judged(Tests!FromLast(0))
    BY <1>1, <1>4, <2>2
  <2>4. Tests!Logical(operator, Tests!FromLast(1), Tests!FromLast(0)) \in JudgedOnes
    BY <1>2, <2>3, LogicalIsJudged
  <2> QED
    BY <1>3, <2>1, <2>4
<1>8. CASE Tests!Sequence
  <2> DEFINE l == Tests!FromLast(1)
             r == Tests!FromLast(0)
             e == [r EXCEPT !.exits = @ \/ l.exits]
  <2>1. Tests!Build(2, e)
    BY <1>8 DEF Tests!Sequence
  <2>2. 2 <= Len(operands)
    BY <2>1 DEF Tests!Build
  <2>3. Judged(r)
    BY <1>1, <1>4, <2>2
  <2> HIDE DEF r, l
  <2>4. r \in Expressions /\ Sound(r)
    BY <2>3 DEF Judged
  <2>5. e \in Expressions
    BY <2>4 DEF Expressions
  <2>6. e.value = r.value /\ e.boolean = r.boolean /\ e.means = r.means /\ e.misread = r.misread
        /\ e.unsound = r.unsound
    BY <2>4 DEF Expressions
  <2>7. Sound(e)
    BY <2>4, <2>6 DEF Sound
  <2>8. e \in JudgedOnes
    BY <2>5, <2>7 DEF JudgedOnes
  <2> HIDE DEF e
  <2> QED
    BY <1>3, <2>1, <2>8
<1>9. CASE Tests!Choice
  <2>1. Tests!Build(3, Tests!Conditional(Tests!FromLast(2), Tests!FromLast(1), Tests!FromLast(0)))
    BY <1>9 DEF Tests!Choice
  <2>2. 3 <= Len(operands)
    BY <2>1 DEF Tests!Build
  <2>3. Judged(Tests!FromLast(2)) /\ Judged(Tests!FromLast(1)) /\ Judged(Tests!FromLast(0))
    BY <1>1, <1>4, <2>2
  <2>4. Tests!Conditional(Tests!FromLast(2), Tests!FromLast(1), Tests!FromLast(0)) \in JudgedOnes
    BY <1>2, <2>3, ConditionalIsJudged
  <2> QED
    BY <1>3, <2>1, <2>4
<1>10. ASSUME Tests!Tested, UNCHANGED Tests!body, NEW reported, Tests!Settle(reported)
       PROVE  ConditionsInv'
  <2>1. Tests!Building /\ operands' = operands
    BY <1>10 DEF Tests!Tested, Tests!building
  <2> QED
    BY <1>1, <1>10, <2>1, SettledVerdict, JudgingInv
<1>11. CASE Tests!ReportConstantCondition
  BY <1>10, <1>11 DEF Tests!ReportConstantCondition
<1>12. CASE Tests!ReportLoop
  BY <1>10, <1>12 DEF Tests!ReportLoop
<1> QED
  BY <1>5, <1>6, <1>7, <1>8, <1>9, <1>11, <1>12 DEF Tests!Judge

(* A step of the walk: the expressions and the verdict stay.               *)
LEMMA WalkingInv ==
  ASSUME ConditionsInv, conditionVerdict = "none", conditionVerdict' = "none", operands' = operands,
         entered' \in Nat, entered' >= 1, jumps' \in Nat, blocks' # <<>>,
         Walking(blocks', reach', left', exit', overridden')
  PROVE  ConditionsInv'
BY DEF ConditionsInv

LEMMA NewBlock ==
  ASSUME ConditionsInv, NEW kind \in {"loop", "if", "block", "switch", "try"},
         NEW part \in {"body", "then", "block"}, NEW labelled \in BOOLEAN
  PROVE  LET b == Tests!Block(kind, part, labelled)
         IN  /\ b \in Blocks /\ b.id = entered + 1 /\ b.kind = kind /\ b.part = part
             /\ b.saved = reach /\ b.out = {}
<1>1. entered \in Nat /\ jumps \in Nat /\ reach \in SUBSET Places
  BY DEF ConditionsInv, Walking
<1> QED
  BY <1>1 DEF Tests!Block, Blocks

LEMMA EnterKeepsInv ==
  ASSUME ConditionsInv, NEW b \in Blocks, Tests!Enter(b), b.id = entered + 1, b.part # "finally",
         b.saved = reach, ~ Passing(b.out),
         b.kind = "try" => \A i \in DOMAIN blocks : blocks[i].part # "finally"
  PROVE  ConditionsInv'
<1>1. /\ conditionVerdict = "none" /\ blocks # <<>> /\ blocks' = Append(blocks, b)
      /\ entered' = entered + 1 /\ operands' = operands /\ conditionVerdict' = conditionVerdict
      /\ jumps' = jumps /\ reach' = reach /\ exit' = exit /\ left' = left /\ overridden' = overridden
  BY DEF Tests!Enter, Tests!InCode, Tests!building
<1>2. /\ Walking(blocks, reach, left, exit, overridden) /\ entered \in Nat /\ entered >= 1
         /\ jumps \in Nat
      /\ Shape(blocks)
  BY <1>1 DEF ConditionsInv, Walking
<1>3. b.id # 1
  BY <1>2
<1>4. DOMAIN blocks = 1..Len(blocks) /\ blocks \in Seq(Blocks)
  BY <1>2, LenProperties DEF Shape
<1>5. Walking(blocks', reach', left', exit', overridden')
  BY <1>1, <1>2, <1>3, <1>4, EnterWalks
<1>6. blocks' # <<>>
  BY <1>1, <1>4
<1> QED
  BY <1>1, <1>2, <1>5, <1>6, WalkingInv

LEMMA EnterLoopKeepsInv ==
  ASSUME ConditionsInv, NEW labelled \in BOOLEAN, Tests!EnterLoop(labelled)
  PROVE  ConditionsInv'
<1> DEFINE b == Tests!Block("loop", "body", labelled)
<1>1. /\ conditionVerdict = "none" /\ blocks = <<>> /\ blocks' = <<b>> /\ entered' = 1
         /\ operands' = <<>>
      /\ conditionVerdict' = conditionVerdict
      /\ jumps' = jumps /\ reach' = reach /\ exit' = exit /\ left' = left /\ overridden' = overridden
  BY DEF Tests!EnterLoop, Tests!Building
<1>2. /\ ~ exit /\ left = {} /\ reach = {Tests!Here} /\ entered = 0 /\ jumps \in Nat /\ Shape(<<>>)
      /\ overridden \in BOOLEAN /\ exit \in BOOLEAN
  BY <1>1 DEF ConditionsInv, Walking
<1>3. b \in Blocks /\ b.id = 1 /\ b.kind = "loop" /\ b.part = "body" /\ b.saved = {Tests!Here}
      /\ b.out = {}
  BY <1>2, NewBlock
<1> HIDE DEF b
<1>4. Len(<<>>) = 0 /\ Append(<<>>, b) = <<b>>
  OBVIOUS
<1>5. Shape(<<b>>) /\ Len(<<b>>) = 1 /\ <<b>>[1] = b
  <2>1. /\ Shape(Append(<<>>, b)) /\ Len(Append(<<>>, b)) = Len(<<>>) + 1
        /\ Append(<<>>, b)[Len(<<>>) + 1] = b
    BY <1>2, <1>3, PushedShape
  <2> QED
    BY <1>4, <2>1
<1>6. ~ Passing({Tests!Here}) /\ ~ Passing({}) /\ {Tests!Here} \in SUBSET Places
  BY DifferentJumps DEF Passing
<1>7. Walking(<<b>>, {Tests!Here}, {}, exit, overridden)
  <2>1. Flow(<<b>>, {Tests!Here}) /\ ~ Known(<<b>>, {Tests!Here}, {})
    BY <1>3, <1>5, <1>6 DEF Flow, Known
  <2> QED
    BY <1>2, <1>5, <1>6, <2>1 DEF Walking
<1>8. <<>> \in Seq(JudgedOnes)
  BY EmptySeq
<1>9. <<b>> # <<>>
  OBVIOUS
<1> QED
  BY <1>1, <1>2, <1>7, <1>8, <1>9 DEF ConditionsInv

(* A statement that is left or goes on: what all of these steps share.     *)
LEMMA LeavesInv ==
  ASSUME ConditionsInv, NEW kind, Tests!Leaves(kind)
  PROVE  /\ conditionVerdict = "none" /\ Len(blocks) > 1 /\ blocks # <<>>
            /\ Tests!Top = blocks[Len(blocks)]
         /\ Tests!Top.kind = kind /\ Walking(blocks, reach, left, exit, overridden) /\ Shape(blocks)
         /\ entered \in Nat /\ entered >= 1 /\ jumps \in Nat /\ Len(blocks) \in Nat
         /\ Tests!Top \in Blocks /\ reach \in SUBSET Places
<1>1. conditionVerdict = "none" /\ Len(blocks) > 1 /\ Tests!Top.kind = kind
  BY DEF Tests!Leaves
<1>2. Walking(blocks, reach, left, exit, overridden) /\ Shape(blocks) /\ reach \in SUBSET Places
  BY DEF ConditionsInv, Walking
<1>3. Len(blocks) \in Nat /\ blocks # <<>> /\ Tests!Top \in Blocks
  BY <1>1, <1>2, LenProperties, ElementOfSeq DEF Shape, Tests!Top
<1> QED
  BY <1>1, <1>2, <1>3 DEF ConditionsInv, Tests!Top

LEMMA EndKeepsInv ==
  ASSUME ConditionsInv, NEW kind, kind # "try", Tests!Leaves(kind), blocks' = Tests!Outer, Tests!Inside,
         reach' \in {Tests!Top.out \cup reach, Tests!Top.saved \cup Tests!Top.out \cup reach}
  PROVE  ConditionsInv'
<1>1. /\ conditionVerdict = "none" /\ Len(blocks) > 1 /\ Tests!Top = blocks[Len(blocks)]
      /\ Tests!Top.kind = kind /\ Walking(blocks, reach, left, exit, overridden) /\ Shape(blocks)
      /\ entered \in Nat /\ entered >= 1 /\ jumps \in Nat /\ Len(blocks) \in Nat
      /\ Tests!Top \in Blocks /\ reach \in SUBSET Places
  BY LeavesInv
<1>2. /\ operands' = operands /\ conditionVerdict' = conditionVerdict /\ entered' = entered
      /\ jumps' = jumps /\ exit' = exit /\ left' = left /\ overridden' = overridden
  BY DEF Tests!Inside, Tests!building
<1>3. reach' \in SUBSET Places
  BY <1>1 DEF Blocks
<1>4. /\ Passing(reach') => Passing(reach) \/ Passing(Tests!Top.out) \/ Passing(Tests!Top.saved)
      /\ Passing(reach) \/ Passing(Tests!Top.out) => Passing(reach')
  BY DEF Passing
<1>5. Walking(blocks', reach', left', exit', overridden')
  BY <1>1, <1>2, <1>3, <1>4, LeaveWalks DEF Tests!Outer
<1>6. blocks' # <<>>
  <2>1. Len(blocks') = Len(blocks) - 1
    BY <1>1, PoppedShape DEF Tests!Outer
  <2>2. Len(<<>>) = 0
    OBVIOUS
  <2> QED
    BY <1>1, <2>1, <2>2
<1> QED
  BY <1>1, <1>2, <1>5, <1>6, WalkingInv

LEMMA TopKeepsInv ==
  ASSUME ConditionsInv, NEW kind, Tests!Leaves(kind), NEW b, blocks' = Tests!WithTop(b), Tests!Inside,
         Walking(Tests!WithTop(b), reach', left, exit, overridden)
  PROVE  ConditionsInv'
<1>1. /\ conditionVerdict = "none" /\ Len(blocks) > 1
      /\ entered \in Nat /\ entered >= 1 /\ jumps \in Nat /\ Len(blocks) \in Nat /\ Shape(blocks)
  BY LeavesInv
<1>2. /\ operands' = operands /\ conditionVerdict' = conditionVerdict /\ entered' = entered
      /\ jumps' = jumps /\ exit' = exit /\ left' = left /\ overridden' = overridden
  BY DEF Tests!Inside, Tests!building
<1>3. blocks' # <<>>
  <2>1. DOMAIN blocks' = DOMAIN blocks
    BY DEF Tests!WithTop
  <2>2. 1 \in DOMAIN blocks /\ DOMAIN <<>> = {}
    BY <1>1, LenProperties DEF Shape
  <2> QED
    BY <2>1, <2>2
<1> QED
  BY <1>1, <1>2, <1>3, WalkingInv

LEMMA EndTryKeepsInv == ConditionsInv /\ Tests!EndTry => ConditionsInv'
<1> SUFFICES ASSUME ConditionsInv, Tests!EndTry PROVE ConditionsInv'
  OBVIOUS
<1> DEFINE out == IF Tests!Top.finally THEN reach ELSE (Tests!Top.out \cup reach) \ {Tests!Throw}
           bound == out \ {Tests!Here}
<1>1. /\ Tests!Leaves("try") /\ Tests!Top.part = (IF Tests!Top.finally THEN "finally" ELSE "catch")
      /\ blocks' = Tests!Delivered(Tests!Outer, bound)
         /\ left' = left \cup Tests!Leaving(Tests!Outer, bound)
      /\ reach' = out \cap {Tests!Here}
      /\ operands' = operands /\ conditionVerdict' = conditionVerdict /\ entered' = entered
      /\ jumps' = jumps /\ exit' = exit /\ overridden' = overridden
  BY DEF Tests!EndTry, Tests!building
<1>2. /\ conditionVerdict = "none" /\ Len(blocks) > 1 /\ Tests!Top = blocks[Len(blocks)]
      /\ Tests!Top.kind = "try" /\ Walking(blocks, reach, left, exit, overridden) /\ Shape(blocks)
      /\ entered \in Nat /\ entered >= 1 /\ jumps \in Nat /\ Len(blocks) \in Nat
      /\ Tests!Top \in Blocks /\ reach \in SUBSET Places
  BY <1>1, LeavesInv
<1>3. bound \in SUBSET Places
  BY <1>2, DifferentJumps DEF Blocks
<1> HIDE DEF bound
<1>4. blocks' # <<>>
  <2>1. Shape(Tests!Outer) /\ Len(Tests!Outer) = Len(blocks) - 1
    BY <1>2, PoppedShape DEF Tests!Outer
  <2>2. Len(blocks') = Len(Tests!Outer)
    BY <1>1, <1>3, <2>1, DeliveredFields
  <2>3. Len(<<>>) = 0
    OBVIOUS
  <2> QED
    BY <1>2, <2>1, <2>2, <2>3
<1>5. Walking(blocks', reach', left', exit', overridden')
  BY <1>1, <1>2, EndTryWalks DEF Tests!Outer, bound
<1> QED
  BY <1>1, <1>2, <1>4, <1>5, WalkingInv

LEMMA JumpKeepsInv ==
  ASSUME ConditionsInv, NEW to \in Places, NEW i, NEW exits \in BOOLEAN, Tests!Jump(to, i, exits),
         exits <=> to \in Tests!Exits
  PROVE  ConditionsInv'
<1>1. /\ conditionVerdict = "none" /\ blocks # <<>> /\ jumps' = jumps + 1
      /\ exit' = (exit \/ exits) /\ blocks' = Tests!Delivered(blocks, {to})
      /\ left' = left \cup Tests!Leaving(blocks, {to})
      /\ overridden' = (overridden \/ reach \cap {Tests!Here, Tests!Throw} # reach) /\ reach' = {}
      /\ operands' = operands /\ conditionVerdict' = conditionVerdict /\ entered' = entered
  BY DEF Tests!Jump, Tests!InCode, Tests!building
<1>2. /\ Walking(blocks, reach, left, exit, overridden) /\ entered \in Nat /\ entered >= 1
         /\ jumps \in Nat
      /\ Shape(blocks)
  BY <1>1 DEF ConditionsInv, Walking
<1>3. Walking(blocks', reach', left', exit', overridden')
  <2>1. /\ exit' \in BOOLEAN /\ (exit' <=> exit \/ to \in Tests!Exits)
        /\ overridden' \in BOOLEAN
           /\ (overridden' <=> overridden \/ reach \cap {Tests!Here, Tests!Throw} # reach)
    BY <1>1
  <2>2. Walking(Tests!Delivered(blocks, {to}), {}, left \cup Tests!Leaving(blocks, {to}), exit',
          overridden')
    BY <1>2, <2>1, JumpWalks
  <2> QED
    BY <1>1, <2>2
<1>4. blocks' # <<>>
  <2>1. Len(blocks') = Len(blocks)
    BY <1>1, <1>2, DeliveredFields
  <2>2. Len(<<>>) = 0 /\ Len(blocks) # 0
    BY <1>1, <1>2, EmptySeq DEF Shape
  <2> QED
    BY <2>1, <2>2
<1> QED
  BY <1>1, <1>2, <1>3, <1>4, WalkingInv

(* breaksTargetLoop is right: the loop is the target exactly if its label  *)
(* is named or nothing within it that a break ends is open.                *)
LEMMA BreakKeepsInv == ConditionsInv /\ Tests!BreakStatement => ConditionsInv'
<1> SUFFICES ASSUME ConditionsInv, Tests!BreakStatement PROVE ConditionsInv'
  OBVIOUS
<1>1. Shape(blocks) /\ blocks \in Seq(Blocks) /\ DOMAIN blocks = 1..Len(blocks) /\ Len(blocks) \in Nat
      /\ \A i \in 1..Len(blocks) : blocks[i] \in Blocks
  BY LenProperties, ElementOfSeq DEF ConditionsInv, Walking, Shape
<1>2. ASSUME NEW i \in 1..Len(blocks)
      PROVE  Tests!Break(blocks[i].id) \in Places
             /\ (Tests!Break(blocks[i].id) \in Tests!Exits <=> i = 1)
  <2>1. blocks[i].id \in Nat /\ (blocks[i].id = 1 <=> i = 1)
    BY <1>1 DEF Shape, Blocks
  <2>2. Tests!Break(1) \in Tests!Exits
    BY DEF Tests!Exits
  <2> QED
    BY <2>1, <2>2, DifferentJumps
<1>3. \A l, i : Tests!BreaksTargetLoop(l, i) \in BOOLEAN
  BY DEF Tests!BreaksTargetLoop
<1>4. CASE \E i \in DOMAIN blocks :
             Tests!Unlabelled(i, {"loop", "switch"})
             /\ Tests!Jump(Tests!Break(blocks[i].id), i, Tests!BreaksTargetLoop(FALSE, i))
  <2>1. PICK i \in 1..Len(blocks) :
          Tests!Unlabelled(i, {"loop", "switch"})
          /\ Tests!Jump(Tests!Break(blocks[i].id), i, Tests!BreaksTargetLoop(FALSE, i))
    BY <1>1, <1>4
  <2>2. Tests!BreaksTargetLoop(FALSE, i) <=> i = 1
    BY <1>1, <2>1 DEF Tests!BreaksTargetLoop, Tests!Unlabelled
  <2> QED
    BY <1>2, <1>3, <2>1, <2>2, JumpKeepsInv
<1>5. CASE \E i \in DOMAIN blocks :
             blocks[i].labelled
             /\ Tests!Jump(Tests!Break(blocks[i].id), i, Tests!BreaksTargetLoop(TRUE, i))
  <2>1. PICK i \in 1..Len(blocks) :
               Tests!Jump(Tests!Break(blocks[i].id), i, Tests!BreaksTargetLoop(TRUE, i))
    BY <1>1, <1>5
  <2>2. Tests!BreaksTargetLoop(TRUE, i) <=> i = 1
    BY DEF Tests!BreaksTargetLoop
  <2> QED
    BY <1>2, <1>3, <2>1, <2>2, JumpKeepsInv
<1>6. CASE Tests!Jump(Tests!Break(0), 0, Tests!BreaksTargetLoop(TRUE, 0))
  <2>1. ~ Tests!BreaksTargetLoop(TRUE, 0)
    BY DEF Tests!BreaksTargetLoop
  <2>2. Tests!Break(0) \in Places /\ Tests!Break(0) \notin Tests!Exits
    BY DifferentJumps
  <2> QED
    BY <1>3, <1>6, <2>1, <2>2, JumpKeepsInv
<1> QED
  BY <1>4, <1>5, <1>6 DEF Tests!BreakStatement

LEMMA WalkKeepsInv == ConditionsInv /\ Tests!Walk => ConditionsInv'
<1> SUFFICES ASSUME ConditionsInv, Tests!Walk PROVE ConditionsInv'
  OBVIOUS
<1>1. ASSUME NEW kind \in {"loop", "if", "block", "switch"}, NEW part \in {"body", "then"},
             NEW labelled \in BOOLEAN, Tests!Enter(Tests!Block(kind, part, labelled))
      PROVE  ConditionsInv'
  <2> DEFINE b == Tests!Block(kind, part, labelled)
  <2>1. /\ b \in Blocks /\ b.id = entered + 1 /\ b.kind = kind /\ b.part = part
        /\ b.saved = reach /\ b.out = {}
    BY NewBlock
  <2>2. ~ Passing(b.out)
    BY <2>1 DEF Passing
  <2> HIDE DEF b
  <2>3. Tests!Enter(b)
    BY <1>1 DEF b
  <2> QED
    BY <2>1, <2>2, <2>3, EnterKeepsInv
<1>2. CASE \E labelled \in BOOLEAN : Tests!EnterLoop(labelled)
  BY <1>2, EnterLoopKeepsInv
<1>3. CASE Tests!If
  BY <1>1, <1>3 DEF Tests!If
<1>4. CASE Tests!Else
  <2> DEFINE b == [Tests!Top EXCEPT !.part = "else", !.out = reach]
  <2>1. /\ Tests!Leaves("if") /\ Tests!Top.part = "then" /\ blocks' = Tests!WithTop(b)
        /\ reach' = Tests!Top.saved /\ Tests!Inside
    BY <1>4 DEF Tests!Else
  <2>2. /\ Len(blocks) > 1 /\ Tests!Top = blocks[Len(blocks)] /\ Tests!Top.kind = "if"
        /\ Walking(blocks, reach, left, exit, overridden)
    BY <2>1, LeavesInv
  <2>3. Walking(Tests!WithTop(b), reach', left, exit, overridden)
    BY <2>1, <2>2, ElseWalks DEF Tests!WithTop
  <2> HIDE DEF b
  <2> QED
    BY <2>1, <2>3, TopKeepsInv
<1>5. CASE Tests!EndIf
  <2>1. Tests!Leaves("if") /\ blocks' = Tests!Outer /\ Tests!Inside
    BY <1>5 DEF Tests!EndIf
  <2>2. reach' \in {Tests!Top.out \cup reach, Tests!Top.saved \cup Tests!Top.out \cup reach}
    BY <1>5 DEF Tests!EndIf
  <2> QED
    BY <2>1, <2>2, EndKeepsInv
<1>6. CASE Tests!InnerLoop
  BY <1>1, <1>6 DEF Tests!InnerLoop
<1>7. CASE Tests!EndInnerLoop
  BY <1>7, EndKeepsInv DEF Tests!EndInnerLoop
<1>8. CASE Tests!Labelled
  BY <1>1, <1>8 DEF Tests!Labelled
<1>9. CASE Tests!EndLabelled
  BY <1>9, EndKeepsInv DEF Tests!EndLabelled
<1>10. CASE Tests!Switch
  BY <1>1, <1>10 DEF Tests!Switch
<1>11. CASE Tests!EndSwitch
  BY <1>11, EndKeepsInv DEF Tests!EndSwitch
<1>12. CASE \E catch, finally \in BOOLEAN : Tests!Try(catch, finally)
  <2>1. PICK catch, finally \in BOOLEAN : Tests!Try(catch, finally)
    BY <1>12
  <2> DEFINE d == Tests!Block("try", "block", FALSE)
             b == [d EXCEPT !.catch = catch, !.finally = finally, !.out = {Tests!Throw}]
  <2>2. Tests!Enter(b) /\ \A k \in DOMAIN blocks : blocks[k].part # "finally"
    BY <2>1 DEF Tests!Try
  <2>3. d \in Blocks /\ d.id = entered + 1 /\ d.kind = "try" /\ d.part = "block" /\ d.saved = reach
    BY NewBlock
  <2> HIDE DEF d
  <2>4. b \in Blocks /\ b.id = entered + 1 /\ b.kind = "try" /\ b.part = "block" /\ b.saved = reach
        /\ b.out = {Tests!Throw}
    BY <2>1, <2>3, DifferentJumps DEF Blocks
  <2>5. ~ Passing({Tests!Throw})
    BY DifferentJumps DEF Passing
  <2> HIDE DEF b
  <2> QED
    BY <2>2, <2>4, <2>5, EnterKeepsInv
<1>13. CASE Tests!Catch
  <2> DEFINE b == [Tests!Top EXCEPT !.part = "catch", !.out = Tests!Top.out \cup reach]
  <2>1. /\ Tests!Leaves("try") /\ Tests!Top.part = "block" /\ blocks' = Tests!WithTop(b)
        /\ reach' = Tests!Top.saved /\ Tests!Inside
    BY <1>13 DEF Tests!Catch
  <2>2. /\ Len(blocks) > 1 /\ Tests!Top = blocks[Len(blocks)] /\ Tests!Top.kind = "try"
        /\ Walking(blocks, reach, left, exit, overridden)
    BY <2>1, LeavesInv
  <2>3. Walking(Tests!WithTop(b), reach', left, exit, overridden)
    BY <2>1, <2>2, CatchWalks DEF Tests!WithTop
  <2> HIDE DEF b
  <2> QED
    BY <2>1, <2>3, TopKeepsInv
<1>14. CASE Tests!Finally
  <2> DEFINE b == [Tests!Top EXCEPT !.part = "finally", !.out = {}]
  <2>1. /\ Tests!Leaves("try") /\ Tests!Top.part # "finally" /\ blocks' = Tests!WithTop(b)
        /\ reach' = Tests!Top.out \cup reach /\ Tests!Inside
    BY <1>14 DEF Tests!Finally
  <2>2. /\ Len(blocks) > 1 /\ Tests!Top = blocks[Len(blocks)] /\ Tests!Top.kind = "try"
        /\ Walking(blocks, reach, left, exit, overridden)
    BY <2>1, LeavesInv
  <2>3. Walking(Tests!WithTop(b), reach', left, exit, overridden)
    BY <2>1, <2>2, FinallyWalks DEF Tests!WithTop
  <2> HIDE DEF b
  <2> QED
    BY <2>1, <2>3, TopKeepsInv
<1>15. CASE Tests!EndTry
  BY <1>15, EndTryKeepsInv
<1>16. CASE Tests!BreakStatement
  BY <1>16, BreakKeepsInv
<1>17. CASE Tests!ContinueStatement
  <2>1. PICK i \in DOMAIN blocks : Tests!Jump(Tests!Continue(blocks[i].id), i, FALSE)
    BY <1>17 DEF Tests!ContinueStatement
  <2>2. blocks[i].id \in Nat
    <3>1. blocks \in Seq(Blocks)
      BY DEF ConditionsInv, Walking, Shape
    <3>2. blocks[i] \in Blocks
      BY <2>1, <3>1, LenProperties, ElementOfSeq
    <3> QED
      BY <3>2 DEF Blocks
  <2> QED
    BY <2>1, <2>2, DifferentJumps, JumpKeepsInv
<1>18. CASE Tests!ReturnStatement
  <2>1. Tests!Return \in Places /\ Tests!Return \in Tests!Exits
    BY DifferentJumps DEF Tests!Exits
  <2> QED
    BY <1>18, <2>1, JumpKeepsInv DEF Tests!ReturnStatement
<1>19. CASE Tests!ThrowStatement
  BY <1>19, DifferentJumps, JumpKeepsInv DEF Tests!ThrowStatement
<1>20. CASE Tests!ExitCall
  <2>1. /\ conditionVerdict = "none" /\ blocks # <<>> /\ jumps' = jumps + 1 /\ exit' = TRUE
        /\ left' = left \cup {Tests!Call} /\ blocks' = blocks /\ entered' = entered /\ reach' = reach
        /\ operands' = operands /\ conditionVerdict' = conditionVerdict /\ overridden' = overridden
    BY <1>20 DEF Tests!ExitCall, Tests!InCode, Tests!building
  <2>2. Walking(blocks', reach', left', exit', overridden')
    BY <2>1, CallWalks DEF ConditionsInv
  <2>3. entered \in Nat /\ entered >= 1 /\ jumps \in Nat
    BY <2>1 DEF ConditionsInv
  <2> QED
    BY <2>1, <2>2, <2>3, WalkingInv
<1>21. CASE Tests!EndLoop
  <2>1. /\ Len(blocks) = 1 /\ conditionVerdict' = (IF ~ exit THEN "reported" ELSE "silent")
        /\ UNCHANGED <<operands, operators, blocks, entered, jumps, reach, exit, left, overridden>>
    BY <1>21 DEF Tests!EndLoop, Tests!Settle, Tests!building, Tests!body
  <2> QED
    BY <2>1 DEF ConditionsInv
<1> QED
  BY <1>2, <1>3, <1>4, <1>5, <1>6, <1>7, <1>8, <1>9, <1>10, <1>11, <1>12, <1>13, <1>14, <1>15, <1>16,
     <1>17, <1>18, <1>19, <1>20, <1>21 DEF Tests!Walk

LEMMA ConditionsNextInv == ConditionsInv /\ [Tests!Next]_(Tests!vars) => ConditionsInv'
<1>1. ConditionsInv /\ UNCHANGED Tests!vars => ConditionsInv'
  BY DEF ConditionsInv, Tests!vars, Tests!building, Tests!body
<1> QED
  BY <1>1, JudgeKeepsInv, WalkKeepsInv DEF Tests!Next

LEMMA ConditionsInvIsRight == ConditionsInv => Tests!TestsAreJudged
<1> SUFFICES ASSUME ConditionsInv PROVE Tests!TestsAreJudged
  OBVIOUS
<1>1. Tests!ConstantsAreConstant
  BY LenProperties, ElementOfSeq DEF ConditionsInv, Tests!ConstantsAreConstant, JudgedOnes, Sound
<1>2. Tests!EndlessLoopsReported
  <2> SUFFICES ASSUME conditionVerdict # "none", blocks # <<>>
               PROVE  /\ left \cap Tests!Exits # {} => conditionVerdict = "silent"
                      /\ conditionVerdict = "silent" /\ ~ overridden => left \cap Tests!Exits # {}
    BY DEF Tests!EndlessLoopsReported
  <2>1. /\ Len(blocks) = 1 /\ (conditionVerdict = "silent" <=> exit)
        /\ Walking(blocks, reach, left, exit, overridden)
    BY DEF ConditionsInv
  <2>2. Shape(blocks) /\ Flow(blocks, reach) /\ blocks[1].kind = "loop"
    BY <2>1 DEF Walking, Shape
  <2>3. ~ Sheltered(blocks, 1) /\ ~ Sheltered(blocks, 2)
    BY <2>1, <2>2 DEF Sheltered, Shape
  <2>4. ~ Passing(reach) /\ ~ Passing(blocks[1].out)
    BY <2>1, <2>2, <2>3 DEF Flow, Tests!Finalizing
  <2>5. /\ Passing(left) => exit
        /\ exit /\ ~ overridden => Passing(left)
    BY <2>1, <2>4 DEF Walking, Known, Carried
  <2> QED
    BY <2>1, <2>5 DEF Passing
<1> QED
  BY <1>1, <1>2 DEF Tests!TestsAreJudged

(* ConstantTests.tla by itself and as a part of the instance say the same. *)
LEMMA SameTests == Tests!TestsAreJudged => TestsAreJudged
BY DEF Tests!TestsAreJudged, TestsAreJudged, Tests!ConstantsAreConstant, ConstantsAreConstant,
       Tests!EndlessLoopsReported, EndlessLoopsReported, Tests!Exits, Exits,
       Tests!Environments, Environments, Tests!Unknown, Unknown, Tests!Truthy, Truthy,
       Tests!Truth, Truth, Tests!Undefined, Undefined, Tests!Null, Null,
       Tests!Value, Value, Tests!Break, Break, Tests!Return, Return, Tests!Call, Call

(* Of expressions of any size and loops whose statements are nested to any *)
(* depth: a test that no-constant-condition-with-break calls constant has  *)
(* one truth value, but for the two operators it misreads, and a constant  *)
(* loop is reported exactly if no execution leaves it, unless a finally    *)
(* block stops a jump.                                                     *)
THEOREM TestsAreRight == Tests!Spec => []TestsAreJudged
<1>1. ConditionsInv => TestsAreJudged
  BY ConditionsInvIsRight, SameTests
<1> QED
  BY <1>1, ConditionsInitInv, ConditionsNextInv, PTL DEF Tests!Spec

-----------------------------------------------------------------------------
(* The scopes of the rule harness.                                         *)
CONSTANTS Names, Kinds, MaxNodes                                 \* of HarnessScopes
VARIABLES scopes, nodeToScope
Scopes == INSTANCE HarnessScopes

(* What follows for a number from all smaller ones holds of all.           *)
LEMMA Descent ==
  ASSUME NEW D \in SUBSET Nat, NEW T, \A i \in D : (\A j \in D : j < i => j \in T) => i \in T
  PROVE  D \subseteq T
<1> SUFFICES ASSUME D \ T # {} PROVE FALSE
  OBVIOUS
<1>1. D \ T \in SUBSET Nat
  OBVIOUS
<1>2. PICK n \in D \ T : \A m \in D \ T : n <= m
  BY <1>1, FirstNumber
<1>3. \A j \in D : j < n => j \in T
  <2> SUFFICES ASSUME NEW j \in D, j < n, j \notin T PROVE FALSE
    OBVIOUS
  <2>1. n <= j /\ j \in Nat /\ n \in Nat
    BY <1>2
  <2> QED
    BY <2>1
<1> QED
  BY <1>2, <1>3

(* A function of numbers may take its values from smaller numbers.         *)
WalkTurn(f, stop, base, next, i) == IF i \in stop THEN base[i] ELSE f[next[i]]
Walks(f, D, stop, base, next) ==
  f = [i \in D |-> f[i]] /\ \A i \in D : f[i] = WalkTurn(f, stop, base, next, i)
LEMMA WalkExists ==
  ASSUME NEW D \in SUBSET Nat, NEW N \in Nat, \A i \in D : i <= N, NEW stop, NEW base, NEW next,
         \A i \in D \ stop : next[i] \in D /\ next[i] < i
  PROVE  \E f : Walks(f, D, stop, base, next)
<1> DEFINE Right(g, n) == \A i \in D : i <= n => g[i] = WalkTurn(g, stop, base, next, i)
           T == {n \in Nat : \E g : Right(g, n)}
<1>1. ASSUME NEW n \in Nat, \A j \in Nat : j < n => j \in T
      PROVE  n \in T
  <2>1. \E g : \A i \in D : i < n => g[i] = WalkTurn(g, stop, base, next, i)
    <3>1. CASE n = 0
      <4>1. \A i \in D : ~ i < n
        BY <3>1
      <4> QED
        BY <4>1
    <3>2. CASE n # 0
      <4>1. n - 1 \in Nat /\ n - 1 < n
        BY <3>2
      <4>2. n - 1 \in T
        BY <1>1, <4>1
      <4>3. \A i \in D : i < n => i <= n - 1
        OBVIOUS
      <4> QED
        BY <4>2, <4>3
    <3> QED
      BY <3>1, <3>2
  <2>2. PICK g : \A i \in D : i < n => g[i] = WalkTurn(g, stop, base, next, i)
    BY <2>1
  <2> DEFINE h == [i \in D |-> IF i < n THEN g[i] ELSE WalkTurn(g, stop, base, next, i)]
  <2>3. ASSUME NEW i \in D, i <= n PROVE h[i] = WalkTurn(h, stop, base, next, i)
    <3>1. CASE i \in stop
      BY <2>2, <3>1 DEF WalkTurn
    <3>2. CASE i \notin stop
      <4>1. next[i] \in D /\ next[i] < i /\ next[i] \in Nat /\ i \in Nat
        BY <3>2
      <4>2. next[i] < n
        BY <2>3, <4>1
      <4>3. h[next[i]] = g[next[i]]
        BY <4>1, <4>2
      <4>4. h[i] = WalkTurn(g, stop, base, next, i)
        BY <2>2
      <4> QED
        BY <3>2, <4>3, <4>4 DEF WalkTurn
    <3> QED
      BY <3>1, <3>2
  <2> HIDE DEF h
  <2>4. Right(h, n)
    BY <2>3
  <2> HIDE DEF Right
  <2> QED
    BY <2>4
<1>2. N \in T
  <2> HIDE DEF T
  <2>1. \A i \in Nat : (\A j \in Nat : j < i => j \in T) => i \in T
    BY <1>1
  <2>2. Nat \subseteq T
    BY <2>1, Descent
  <2> QED
    BY <2>2
<1>3. PICK g : Right(g, N)
  BY <1>2
<1> DEFINE f == [i \in D |-> g[i]]
<1>4. ASSUME NEW i \in D PROVE g[i] = WalkTurn(f, stop, base, next, i)
  <2>1. g[i] = WalkTurn(g, stop, base, next, i)
    BY <1>3
  <2>2. i \notin stop => f[next[i]] = g[next[i]]
    OBVIOUS
  <2> QED
    BY <2>1, <2>2 DEF WalkTurn
<1>5. f = [i \in D |-> f[i]] /\ \A i \in D : f[i] = WalkTurn(f, stop, base, next, i)
  BY <1>4
<1> HIDE DEF f
<1> QED
  BY <1>5 DEF Walks

-----------------------------------------------------------------------------
(* The trees of nodes of kinds the harness has scopes for.                 *)
OpenKinds == {"program", "function", "functionExpression", "arrow", "block", "switch", "catch"}
HereKinds == OpenKinds \cup {"class", "let", "var", "param", "use"}
KindsAssumption == Kinds \subseteq HereKinds \ {"program"}
ScopeTypes == {"module", "function", "block", "class"}

Tree(ns) ==
  /\ ns \in Seq([kind : HereKinds, name : Names \cup {Scopes!NoName}, parent : Nat]) /\ Len(ns) > 0
  /\ \A n \in DOMAIN ns :
       /\ ns[n].kind = "program" <=> n = 1
       /\ ns[n].parent = 0 <=> n = 1
       /\ ns[n].parent < n
       /\ n # 1 => ns[ns[n].parent].kind \in OpenKinds

(* The scope of an extent.                                                 *)
Place(ns, to, e) == IF e[2] = 0 /\ ns[e[1]].kind = "catch" THEN to[e[1]] - 1 ELSE to[e[1]]

Scoped(ns, ss, to) ==
  /\ ss \in Seq([type : ScopeTypes, upper : Nat]) /\ Len(ss) > 0
  /\ \A s \in DOMAIN ss : ss[s].upper < s
  /\ \A s \in DOMAIN ss : Scopes!Hoists(ss[s].type) => ss[s].upper # 0
  /\ to \in [DOMAIN ns -> DOMAIN ss]
  /\ to[1] = 1 /\ ss[1].upper = 0
  /\ \A n \in DOMAIN ns \ {1} :
       IF ns[n].kind \in Scopes!Containers
       THEN /\ ss[Place(ns, to, <<n, 0>>)].upper = to[ns[n].parent]
            /\ ns[n].kind = "catch" =>
                 ss[to[n]].upper = to[n] - 1 /\ ss[to[n] - 1].type = "block"
            /\ \A m \in 1..n - 1 : to[m] < Place(ns, to, <<n, 0>>)
       ELSE to[n] = to[ns[n].parent]
  /\ \A n \in DOMAIN ns : ns[n].kind \in Scopes!Containers =>
       (Scopes!Hoists(ss[to[n]].type) <=> ns[n].kind \notin Scopes!Functions \cup {"program"})

(* The extents of a tree, as in the module.                                *)
NearestIn(ns, n, kinds) ==
  LET up[m \in DOMAIN ns] == IF ns[m].kind \in kinds THEN m ELSE up[ns[m].parent]
  IN  up[ns[n].parent]
ExtentsIn(ns, d) ==
  LET kind == ns[d].kind
      own == {<<d, 0>>}
  IN  CASE kind = "var" -> {<<NearestIn(ns, d, Scopes!Functions \cup {"program", "static"}), 1>>}
        [] kind \in {"let", "param"} -> {<<NearestIn(ns, d, Scopes!Containers), 1>>}
        [] kind = "function" -> {<<NearestIn(ns, d, Scopes!Containers), 1>>}
        [] kind = "class" -> {<<NearestIn(ns, d, Scopes!Containers), 1>>} \cup own
        [] kind \in {"functionExpression", "catch"} -> own
        [] OTHER -> {}

Defined(ns, to, ds) ==
  \A D : D \in ds <=> \E d \in DOMAIN ns : \E e \in ExtentsIn(ns, d) :
                         D = Scopes!Definition(Place(ns, to, e), ns[d].name, d)

ScopesInv ==
  /\ Tree(nodes)
  /\ Scoped(nodes, scopes, nodeToScope) /\ Len(nodeToScope) = Len(nodes)
  /\ nodeToScope \in Seq(Nat)
  /\ Defined(nodes, nodeToScope, definitions)
  /\ resolved # <<>> =>
       \A r \in DOMAIN nodes : nodes[r].kind \in Scopes!References =>
         resolved[r] = Scopes!VariableByName(nodeToScope[r], nodes[r].name)

LEMMA SameNearest ==
  \A n, kinds : /\ Scopes!Nearest(n, kinds) = NearestIn(nodes, n, kinds)
                /\ (Scopes!Nearest(n, kinds))' = NearestIn(nodes', n, kinds)
BY DEF Scopes!Nearest, NearestIn

LEMMA SameExtents == \A d : Scopes!Extents(d) = ExtentsIn(nodes, d)
BY SameNearest DEF Scopes!Extents, ExtentsIn

LEMMA TreeNodes ==
  ASSUME NEW ns, Tree(ns)
  PROVE  /\ DOMAIN ns = 1..Len(ns) /\ Len(ns) \in Nat /\ 1 \in DOMAIN ns
         /\ \A n \in DOMAIN ns :
              /\ ns[n].kind \in HereKinds /\ ns[n].parent \in Nat /\ n \in Nat
              /\ n # 1 => /\ ns[n].parent \in DOMAIN ns /\ ns[n].parent < n
                          /\ ns[ns[n].parent].kind \in OpenKinds
<1>1. DOMAIN ns = 1..Len(ns) /\ Len(ns) \in Nat /\ 1 \in DOMAIN ns
  BY DEF Tree
<1>2. \A n \in DOMAIN ns : ns[n] \in [kind : HereKinds, name : Names \cup {Scopes!NoName}, parent : Nat]
  <2>1. ns \in Seq([kind : HereKinds, name : Names \cup {Scopes!NoName}, parent : Nat])
    BY DEF Tree
  <2> DEFINE Nodes == [kind : HereKinds, name : Names \cup {Scopes!NoName}, parent : Nat]
  <2> HIDE DEF Nodes
  <2>2. ns \in Seq(Nodes)
    BY <2>1 DEF Nodes
  <2>3. \A n \in DOMAIN ns : ns[n] \in Nodes
    BY <1>1, <2>2
  <2> QED
    BY <2>3 DEF Nodes
<1>3. ASSUME NEW n \in DOMAIN ns, n # 1
      PROVE  ns[n].parent \in DOMAIN ns
  <2>1. ns[n].parent \in Nat /\ ns[n].parent # 0 /\ ns[n].parent < n
    BY <1>2, <1>3 DEF Tree
  <2> QED
    BY <1>1, <2>1
<1> QED
  BY <1>1, <1>2, <1>3 DEF Tree

LEMMA ScopesFit ==
  ASSUME NEW ns, NEW ss, NEW to, Scoped(ns, ss, to)
  PROVE  /\ DOMAIN ss = 1..Len(ss) /\ Len(ss) \in Nat /\ 1 \in DOMAIN ss
         /\ \A s \in DOMAIN ss : ss[s].type \in ScopeTypes /\ ss[s].upper \in Nat /\ ss[s].upper < s
<1> DEFINE Scope == [type : ScopeTypes, upper : Nat]
<1> HIDE DEF Scope
<1>1. ss \in Seq(Scope) /\ Len(ss) > 0
  BY DEF Scoped, Scope
<1>2. DOMAIN ss = 1..Len(ss) /\ Len(ss) \in Nat /\ 1 \in DOMAIN ss
  BY <1>1
<1>3. \A s \in DOMAIN ss : ss[s] \in Scope
  BY <1>1, <1>2
<1>4. \A s \in DOMAIN ss : ss[s].upper < s
  BY DEF Scoped
<1> QED
  BY <1>2, <1>3, <1>4 DEF Scope

(* The nearest node of some kinds, where the program is of one of them.    *)
NearestFrom(ns, kinds) ==
  CHOOSE up : up = [m \in DOMAIN ns |-> IF ns[m].kind \in kinds THEN m ELSE up[ns[m].parent]]
LEMMA NearestIs ==
  ASSUME NEW ns, Tree(ns), NEW kinds, "program" \in kinds
  PROVE  /\ \A n : NearestIn(ns, n, kinds) = NearestFrom(ns, kinds)[ns[n].parent]
         /\ \A m \in DOMAIN ns : NearestFrom(ns, kinds)[m] =
              IF ns[m].kind \in kinds THEN m ELSE NearestFrom(ns, kinds)[ns[m].parent]
<1> DEFINE Is(up) == up = [m \in DOMAIN ns |-> IF ns[m].kind \in kinds THEN m ELSE up[ns[m].parent]]
           stop == {m \in DOMAIN ns : ns[m].kind \in kinds}
           base == [m \in DOMAIN ns |-> m]
           next == [m \in DOMAIN ns |-> ns[m].parent]
<1>1. \E up : /\ up = [m \in DOMAIN ns |-> up[m]]
              /\ \A m \in DOMAIN ns : up[m] = WalkTurn(up, stop, base, next, m)
  <2>1. /\ DOMAIN ns \in SUBSET Nat /\ Len(ns) \in Nat
        /\ \A i \in DOMAIN ns : i <= Len(ns)
    BY TreeNodes
  <2>2. \A m \in DOMAIN ns \ stop : next[m] \in DOMAIN ns /\ next[m] < m
    <3>1. \A m \in DOMAIN ns \ stop : m # 1
      BY DEF Tree
    <3> QED
      BY <3>1, TreeNodes
  <2> HIDE DEF stop, base, next
  <2> DEFINE D == DOMAIN ns
             N == Len(ns)
  <2>3. D \in SUBSET Nat /\ N \in Nat /\ (\A i \in D : i <= N)
        /\ \A i \in D \ stop : next[i] \in D /\ next[i] < i
    BY <2>1, <2>2
  <2> HIDE DEF D, N
  <2>4. \E f : Walks(f, D, stop, base, next)
    BY <2>3, WalkExists
  <2> QED
    BY <2>4 DEF D, Walks
<1>2. \E up : Is(up)
  <2>1. \A up : \A m \in DOMAIN ns : WalkTurn(up, stop, base, next, m) =
          IF ns[m].kind \in kinds THEN m ELSE up[ns[m].parent]
    BY DEF WalkTurn
  <2>2. PICK up : /\ up = [m \in DOMAIN ns |-> up[m]]
                  /\ \A m \in DOMAIN ns : up[m] = WalkTurn(up, stop, base, next, m)
    BY <1>1
  <2>3. Is(up)
    BY <2>1, <2>2
  <2> QED
    BY <2>3
<1>3. NearestFrom(ns, kinds) = CHOOSE up : Is(up)
  BY DEF NearestFrom
<1>4. Is(NearestFrom(ns, kinds))
  <2> HIDE DEF Is
  <2> QED
    BY <1>2, <1>3
<1>5. \A n : NearestIn(ns, n, kinds) = NearestFrom(ns, kinds)[ns[n].parent]
  BY DEF NearestIn, NearestFrom
<1> QED
  BY <1>4, <1>5

(* What lies below a node.                                                 *)
LEMMA BelowIs ==
  ASSUME Tree(nodes), NEW n
  PROVE  /\ Scopes!Below(n) \subseteq DOMAIN nodes
         /\ \A m \in DOMAIN nodes :
              m \in Scopes!Below(n) <=> m = n \/ (m # 1 /\ nodes[m].parent \in Scopes!Below(n))
<1> DEFINE Is(in) == in = [m \in DOMAIN nodes |-> m = n \/ (nodes[m].parent # 0 /\ in[nodes[m].parent])]
           stop == {m \in DOMAIN nodes : m = n \/ nodes[m].parent = 0}
           base == [m \in DOMAIN nodes |-> m = n]
           next == [m \in DOMAIN nodes |-> nodes[m].parent]
           D == DOMAIN nodes
<1>1. D \in SUBSET Nat /\ Len(nodes) \in Nat /\ \A i \in D : i <= Len(nodes)
  BY TreeNodes
<1>2. \A m \in D : nodes[m].parent = 0 <=> m = 1
  BY DEF Tree
<1>3. \A m \in D : m # 1 => nodes[m].parent \in D /\ nodes[m].parent < m
  BY TreeNodes
<1>4. \A m \in D \ stop : next[m] \in D /\ next[m] < m
  BY <1>2, <1>3
<1>5. \E f : Walks(f, D, stop, base, next)
  <2> HIDE DEF D, stop, base, next
  <2> DEFINE N == Len(nodes)
  <2>1. D \in SUBSET Nat /\ N \in Nat /\ \A i \in D : i <= N
    BY <1>1
  <2> HIDE DEF N
  <2> QED
    BY <1>4, <2>1, WalkExists
<1>6. PICK f : Walks(f, D, stop, base, next)
  BY <1>5
<1>7. D \subseteq {m \in D : f[m] \in BOOLEAN}
  <2> DEFINE T == {m \in D : f[m] \in BOOLEAN}
  <2>1. ASSUME NEW m \in D, \A j \in D : j < m => j \in T PROVE m \in T
    <3>1. f[m] = IF m \in stop THEN base[m] ELSE f[next[m]]
      BY <1>6 DEF Walks, WalkTurn
    <3>2. m \in stop => f[m] \in BOOLEAN
      BY <3>1
    <3>3. m \notin stop => f[m] \in BOOLEAN
      BY <1>4, <2>1, <3>1
    <3> QED
      BY <3>2, <3>3
  <2> HIDE DEF D, T
  <2>2. \A m \in D : (\A j \in D : j < m => j \in T) => m \in T
    BY <2>1
  <2>3. D \subseteq T
    BY <1>1, <2>2, Descent
  <2> QED
    BY <2>3 DEF T
<1>8. ASSUME NEW m \in D
      PROVE  f[m] = (m = n \/ (nodes[m].parent # 0 /\ f[nodes[m].parent]))
  <2>1. f[m] = IF m \in stop THEN base[m] ELSE f[next[m]]
    BY <1>6 DEF Walks, WalkTurn
  <2>2. CASE m \in stop
    BY <2>1, <2>2
  <2>3. CASE m \notin stop
    <3>1. f[m] = f[nodes[m].parent] /\ nodes[m].parent # 0 /\ m # n
      BY <2>1, <2>3
    <3>2. f[nodes[m].parent] \in BOOLEAN
      BY <1>2, <1>3, <1>7, <2>3
    <3> QED
      BY <3>1, <3>2
  <2> QED
    BY <2>2, <2>3
<1>9. Is(f)
  BY <1>6, <1>8 DEF Walks
<1> DEFINE in == CHOOSE g : Is(g)
<1>10. Is(in)
  <2> HIDE DEF Is
  <2> QED
    BY <1>9
<1>11. Scopes!Below(n) = {m \in DOMAIN nodes : in[m]}
  BY DEF Scopes!Below
<1> HIDE DEF in
<1> QED
  BY <1>2, <1>3, <1>10, <1>11

(* A node below another comes after it.                                    *)
LEMMA BelowIsLater ==
  ASSUME Tree(nodes), NEW n, NEW m \in Scopes!Below(n)
  PROVE  n \in DOMAIN nodes /\ n <= m
<1> DEFINE D == DOMAIN nodes
           T == {j \in D : j \in Scopes!Below(n) => n \in D /\ n <= j}
<1>1. ASSUME NEW j \in D, \A i \in D : i < j => i \in T
      PROVE  j \in T
  <2>1. j \in Scopes!Below(n) => j = n \/ (j # 1 /\ nodes[j].parent \in Scopes!Below(n))
    BY BelowIs
  <2>2. j # 1 => nodes[j].parent \in D /\ nodes[j].parent < j
    BY TreeNodes
  <2>3. \A i \in D : i \in Nat
    BY TreeNodes
  <2> QED
    BY <1>1, <2>1, <2>2, <2>3
<1>2. D \in SUBSET Nat
  BY TreeNodes
<1>3. D \subseteq T
  <2> HIDE DEF D, T
  <2> QED
    BY <1>1, <1>2, Descent
<1> QED
  BY <1>3, BelowIs

(* Where a name is looked up.                                              *)
Has(ds, s, x) == \E d \in ds : d.scope = s /\ d.name = x
LEMMA NameIs ==
  ASSUME Scoped(nodes, scopes, nodeToScope), NEW x
  PROVE  \A s \in 0..Len(scopes) : Scopes!VariableByName(s, x) =
           IF s = 0 \/ Has(definitions, s, x) THEN s ELSE Scopes!VariableByName(scopes[s].upper, x)
<1> DEFINE D == 0..Len(scopes)
           Stops(s) == s = 0 \/ \E d \in definitions : d.scope = s /\ d.name = x
           Is(up) == up = [s \in D |-> IF Stops(s) THEN s ELSE up[scopes[s].upper]]
           stop == {s \in D : Stops(s)}
           base == [s \in D |-> s]
           next == [s \in D |-> scopes[s].upper]
<1>1. Len(scopes) \in Nat /\ D \in SUBSET Nat /\ \A s \in D : s <= Len(scopes)
  BY DEF Scoped
<1>2. \A s \in D \ {0} : scopes[s].upper \in D /\ scopes[s].upper < s
  <2>1. \A s \in D \ {0} : s \in DOMAIN scopes /\ s \in 1..Len(scopes)
    BY DEF Scoped
  <2>2. \A s \in DOMAIN scopes : scopes[s].upper \in Nat /\ scopes[s].upper < s
    BY ScopesFit
  <2> QED
    BY <1>1, <2>1, <2>2
<1>3. \A s \in D \ stop : next[s] \in D /\ next[s] < s
  BY <1>2
<1>4. \E f : Walks(f, D, stop, base, next)
  <2> HIDE DEF D, stop, base, next
  <2> DEFINE N == Len(scopes)
  <2>1. D \in SUBSET Nat /\ N \in Nat /\ \A i \in D : i <= N
    BY <1>1
  <2> HIDE DEF N
  <2> QED
    BY <1>3, <2>1, WalkExists
<1>5. PICK f : Walks(f, D, stop, base, next)
  BY <1>4
<1>6. Is(f)
  <2>1. \A s \in D : f[s] = IF Stops(s) THEN s ELSE f[scopes[s].upper]
    BY <1>5 DEF Walks, WalkTurn
  <2>2. f = [s \in D |-> f[s]]
    BY <1>5 DEF Walks
  <2> HIDE DEF D, Stops
  <2> QED
    BY <2>1, <2>2
<1> DEFINE up == CHOOSE g : Is(g)
<1>7. Is(up)
  <2> HIDE DEF Is
  <2> QED
    BY <1>6
<1>8. \A s : Scopes!VariableByName(s, x) = up[s]
  BY DEF Scopes!VariableByName
<1>9. \A s \in D : Stops(s) <=> s = 0 \/ Has(definitions, s, x)
  BY DEF Has
<1>10. \A s \in D : up[s] = IF Stops(s) THEN s ELSE up[scopes[s].upper]
  <2> HIDE DEF up, D, Stops
  <2> QED
    BY <1>7
<1> HIDE DEF up, D, Stops
<1>11. \A s \in D : Scopes!VariableByName(s, x) =
         IF s = 0 \/ Has(definitions, s, x) THEN s ELSE Scopes!VariableByName(scopes[s].upper, x)
  BY <1>8, <1>9, <1>10
<1> QED
  BY <1>11 DEF D

(* Where var goes.                                                         *)
LEMMA VariableScopeIs ==
  ASSUME Scoped(nodes, scopes, nodeToScope)
  PROVE  \A s \in DOMAIN scopes : Scopes!VariableScope(s) =
           IF Scopes!Hoists(scopes[s].type) THEN Scopes!VariableScope(scopes[s].upper) ELSE s
<1> DEFINE D == 1..Len(scopes)
           Is(up) == up = [s \in D |-> IF Scopes!Hoists(scopes[s].type) THEN up[scopes[s].upper] ELSE s]
           stop == {s \in D : ~ Scopes!Hoists(scopes[s].type)}
           base == [s \in D |-> s]
           next == [s \in D |-> scopes[s].upper]
<1>1. Len(scopes) \in Nat /\ D \in SUBSET Nat /\ D = DOMAIN scopes /\ \A s \in D : s <= Len(scopes)
  BY DEF Scoped
<1>2. \A s \in D \ stop : next[s] \in D /\ next[s] < s
  <2>1. \A s \in DOMAIN scopes : scopes[s].upper \in Nat /\ scopes[s].upper < s
    BY ScopesFit
  <2>2. \A s \in D \ stop : scopes[s].upper # 0
    BY <1>1 DEF Scoped
  <2> QED
    BY <1>1, <2>1, <2>2
<1>3. \E f : Walks(f, D, stop, base, next)
  <2> HIDE DEF D, stop, base, next
  <2> DEFINE N == Len(scopes)
  <2>1. D \in SUBSET Nat /\ N \in Nat /\ \A i \in D : i <= N
    BY <1>1
  <2> HIDE DEF N
  <2> QED
    BY <1>2, <2>1, WalkExists
<1>4. PICK f : Walks(f, D, stop, base, next)
  BY <1>3
<1>5. Is(f)
  <2>1. \A s \in D : f[s] = IF Scopes!Hoists(scopes[s].type) THEN f[scopes[s].upper] ELSE s
    BY <1>4 DEF Walks, WalkTurn
  <2>2. f = [s \in D |-> f[s]]
    BY <1>4 DEF Walks
  <2> HIDE DEF D
  <2> QED
    BY <2>1, <2>2
<1> DEFINE up == CHOOSE g : Is(g)
<1>6. Is(up)
  <2> HIDE DEF Is
  <2> QED
    BY <1>5
<1>7. \A s : Scopes!VariableScope(s) = up[s]
  BY DEF Scopes!VariableScope
<1> HIDE DEF up
<1> QED
  BY <1>1, <1>6, <1>7

HomeKinds == Scopes!Functions \cup {"program", "static"}
LEMMA VarHome ==
  ASSUME Tree(nodes), Scoped(nodes, scopes, nodeToScope)
  PROVE  \A m \in DOMAIN nodes :
           /\ NearestFrom(nodes, HomeKinds)[m] \in DOMAIN nodes
           /\ Scopes!VariableScope(nodeToScope[m]) = nodeToScope[NearestFrom(nodes, HomeKinds)[m]]
<1> DEFINE Home == NearestFrom(nodes, HomeKinds)
           Right(m) == /\ Home[m] \in DOMAIN nodes
                       /\ Scopes!VariableScope(nodeToScope[m]) = nodeToScope[Home[m]]
           D == DOMAIN nodes
           T == {m \in D : Right(m)}
<1>1. \A m \in D : Home[m] = IF nodes[m].kind \in HomeKinds THEN m ELSE Home[nodes[m].parent]
  BY NearestIs DEF HomeKinds
<1> HIDE DEF Home
<1>2. ASSUME NEW m \in D, \A j \in D : j < m => j \in T
      PROVE  Right(m)
  <2>1. m # 1 => nodes[m].parent \in D /\ nodes[m].parent \in T
    BY <1>2, TreeNodes
  <2>2. nodeToScope[m] \in DOMAIN scopes
    BY DEF Scoped
  <2>3. nodes[m].kind = "program" <=> m = 1
    BY DEF Tree
  <2>4. nodes[m].kind \in HereKinds
    BY TreeNodes
  <2>5. CASE nodes[m].kind \in HomeKinds
    <3>1. nodes[m].kind \in Scopes!Functions \cup {"program"}
      BY <2>4, <2>5 DEF HomeKinds, HereKinds, OpenKinds
    <3>2. nodes[m].kind \in Scopes!Containers
      BY <3>1 DEF Scopes!Containers
    <3>3. ~ Scopes!Hoists(scopes[nodeToScope[m]].type)
      BY <3>1, <3>2 DEF Scoped
    <3> QED
      BY <1>1, <2>2, <2>5, <3>3, VariableScopeIs
  <2>6. CASE nodes[m].kind \notin HomeKinds
    <3> DEFINE p == nodes[m].parent
    <3>1. m # 1 /\ p \in D /\ Right(p) /\ Home[m] = Home[p]
      BY <1>1, <2>1, <2>3, <2>6 DEF HomeKinds
    <3>2. m \in D \ {1}
      BY <3>1
    <3>3. CASE nodes[m].kind \notin Scopes!Containers
      <4>1. nodeToScope[m] = nodeToScope[p]
        BY <3>2, <3>3 DEF Scoped
      <4> QED
        BY <3>1, <4>1
    <3>4. CASE nodes[m].kind \in Scopes!Containers
      <4>1. Scopes!Hoists(scopes[nodeToScope[m]].type)
        BY <2>6, <3>4 DEF Scoped, HomeKinds
      <4>2. Scopes!VariableScope(nodeToScope[m]) = Scopes!VariableScope(scopes[nodeToScope[m]].upper)
        BY <2>2, <4>1, VariableScopeIs
      <4>3. CASE nodes[m].kind # "catch"
        <5>1. scopes[nodeToScope[m]].upper = nodeToScope[p]
          BY <3>2, <3>4, <4>3 DEF Scoped, Place
        <5> QED
          BY <3>1, <4>2, <5>1
      <4>4. CASE nodes[m].kind = "catch"
        <5> DEFINE o == nodeToScope[m] - 1
        <5>1. /\ scopes[nodeToScope[m]].upper = o /\ scopes[o].type = "block"
              /\ scopes[o].upper = nodeToScope[p]
          BY <3>2, <3>4, <4>4 DEF Scoped, Place
        <5>2. o \in DOMAIN scopes
          <6>1. DOMAIN scopes = 1..Len(scopes) /\ Len(scopes) \in Nat
            BY DEF Scoped
          <6>2. scopes[nodeToScope[m]].upper # 0
            BY <2>2, <4>1 DEF Scoped
          <6> QED
            BY <2>2, <5>1, <6>1, <6>2
        <5>3. Scopes!VariableScope(o) = Scopes!VariableScope(nodeToScope[p])
          BY <5>1, <5>2, VariableScopeIs DEF Scopes!Hoists
        <5> QED
          BY <3>1, <4>2, <5>1, <5>3
      <4> QED
        BY <4>3, <4>4
    <3> QED
      BY <3>3, <3>4
  <2> QED
    BY <2>5, <2>6
<1>3. D \in SUBSET Nat
  BY TreeNodes
<1>4. \A m \in D : (\A j \in D : j < m => j \in T) => m \in T
  BY <1>2
<1>5. D \subseteq T
  <2> HIDE DEF D, T
  <2> QED
    BY <1>3, <1>4, Descent
<1> QED
  BY <1>5 DEF Home

LEMMA NearestFits ==
  ASSUME NEW ns, Tree(ns), NEW kinds, "program" \in kinds
  PROVE  \A m \in DOMAIN ns :
           NearestFrom(ns, kinds)[m] \in DOMAIN ns /\ ns[NearestFrom(ns, kinds)[m]].kind \in kinds
<1> DEFINE near == NearestFrom(ns, kinds)
           D == DOMAIN ns
           T == {m \in D : near[m] \in D /\ ns[near[m]].kind \in kinds}
<1>1. \A m \in D : near[m] = IF ns[m].kind \in kinds THEN m ELSE near[ns[m].parent]
  BY NearestIs
<1> HIDE DEF near
<1>2. ASSUME NEW m \in D, \A j \in D : j < m => j \in T
      PROVE  m \in T
  <2>1. m # 1 => ns[m].parent \in T
    BY <1>2, TreeNodes
  <2>2. m = 1 => ns[m].kind \in kinds
    BY DEF Tree
  <2> QED
    BY <1>1, <2>1, <2>2
<1>3. D \in SUBSET Nat
  BY TreeNodes
<1>4. D \subseteq T
  <2> HIDE DEF D, T
  <2> QED
    BY <1>2, <1>3, Descent
<1> QED
  BY <1>4 DEF near

(* The extents of a declaration: around it, or its own.                    *)
IsExtent(ns, d, n, i) ==
  /\ n \in DOMAIN ns /\ i \in {0, 1} /\ ns[n].kind \in Scopes!Containers
  /\ i = 0 => n = d /\ ns[d].kind \in {"class", "functionExpression", "catch"}
  /\ i = 1 => ns[n].kind \in OpenKinds
LEMMA ExtentsAre ==
  ASSUME NEW ns, Tree(ns), NEW d \in DOMAIN ns, NEW e \in ExtentsIn(ns, d)
  PROVE  \E n, i : e = <<n, i>> /\ IsExtent(ns, d, n, i)
<1>1. ns[d].kind \in HereKinds /\ (ns[d].kind = "program" <=> d = 1)
  BY TreeNodes DEF Tree
<1>2. CASE e = <<d, 0>> /\ ns[d].kind \in {"class", "functionExpression", "catch"}
  <2>1. ns[d].kind \in Scopes!Containers
    BY <1>2 DEF Scopes!Containers, Scopes!Functions
  <2>2. IsExtent(ns, d, d, 0)
    BY <1>2, <2>1 DEF IsExtent
  <2> QED
    BY <1>2, <2>2
<1>3. CASE e = <<NearestIn(ns, d, Scopes!Containers), 1>> /\ ns[d].kind # "program"
  <2>1. ns[d].parent \in DOMAIN ns /\ ns[ns[d].parent].kind \in OpenKinds
    BY <1>1, <1>3, TreeNodes
  <2>2. OpenKinds \subseteq Scopes!Containers /\ "program" \in Scopes!Containers
    BY DEF OpenKinds, Scopes!Containers, Scopes!Functions
  <2> DEFINE near == NearestFrom(ns, Scopes!Containers)
             p == ns[d].parent
  <2>3. /\ NearestIn(ns, d, Scopes!Containers) = near[p]
        /\ near[p] = IF ns[p].kind \in Scopes!Containers THEN p ELSE near[ns[p].parent]
    BY <2>1, <2>2, NearestIs
  <2>4. NearestIn(ns, d, Scopes!Containers) = p /\ IsExtent(ns, d, p, 1)
    BY <2>1, <2>2, <2>3 DEF IsExtent
  <2> QED
    BY <1>3, <2>4
<1>4. CASE e = <<NearestIn(ns, d, HomeKinds), 1>> /\ ns[d].kind # "program"
  <2>1. ns[d].parent \in DOMAIN ns
    BY <1>1, <1>4, TreeNodes
  <2>2. "program" \in HomeKinds
    BY DEF HomeKinds
  <2> DEFINE h == NearestIn(ns, d, HomeKinds)
  <2>3. h = NearestFrom(ns, HomeKinds)[ns[d].parent]
    BY <2>2, NearestIs
  <2>4. h \in DOMAIN ns /\ ns[h].kind \in HomeKinds
    BY <2>1, <2>2, <2>3, NearestFits
  <2>5. ns[h].kind \in HereKinds
    BY <2>4, TreeNodes
  <2>6. ns[h].kind \in OpenKinds /\ ns[h].kind \in Scopes!Containers
    BY <2>4, <2>5 DEF HomeKinds, HereKinds, OpenKinds, Scopes!Containers, Scopes!Functions
  <2>7. IsExtent(ns, d, h, 1)
    BY <2>4, <2>6 DEF IsExtent
  <2> HIDE DEF h
  <2> QED
    BY <1>4, <2>7 DEF h
<1> QED
  BY <1>1, <1>2, <1>3, <1>4 DEF ExtentsIn, HereKinds, OpenKinds, HomeKinds

(* Different extents that something is declared in have different scopes,  *)
(* but for the two of a function expression.                               *)
LEMMA PlaceIs ==
  \A ns, to, n : /\ Place(ns, to, <<n, 1>>) = to[n]
                 /\ Place(ns, to, <<n, 0>>) = IF ns[n].kind = "catch" THEN to[n] - 1 ELSE to[n]
BY DEF Place

LEMMA PlacesAre ==
  ASSUME Tree(nodes), Scoped(nodes, scopes, nodeToScope),
         NEW k \in DOMAIN nodes, nodes[k].kind \in Scopes!Containers,
         NEW n \in DOMAIN nodes, nodes[n].kind \in Scopes!Containers, NEW i \in {0, 1}
  PROVE  /\ Place(nodes, nodeToScope, <<n, i>>) \in DOMAIN scopes
         /\ Place(nodes, nodeToScope, <<n, i>>) = nodeToScope[k] <=>
              n = k /\ (i = 1 \/ nodes[k].kind # "catch")
         /\ nodes[k].kind = "catch" =>
              (Place(nodes, nodeToScope, <<n, i>>) = nodeToScope[k] - 1 <=> n = k /\ i = 0)
<1> DEFINE P(m, j) == Place(nodes, nodeToScope, <<m, j>>)
<1>1. DOMAIN scopes = 1..Len(scopes) /\ Len(scopes) \in Nat
  BY ScopesFit
<1>2. \A m \in DOMAIN nodes : m \in Nat /\ nodeToScope[m] \in Nat /\ nodeToScope[m] \in DOMAIN scopes
  BY <1>1, TreeNodes DEF Scoped
<1>3. \A m \in DOMAIN nodes :
        /\ P(m, 1) = nodeToScope[m]
        /\ P(m, 0) = IF nodes[m].kind = "catch" THEN nodeToScope[m] - 1 ELSE nodeToScope[m]
  <2> SUFFICES ASSUME NEW m \in DOMAIN nodes
               PROVE  /\ P(m, 1) = nodeToScope[m]
                      /\ P(m, 0) = IF nodes[m].kind = "catch" THEN nodeToScope[m] - 1 ELSE nodeToScope[m]
    OBVIOUS
  <2> QED
    BY DEF Place
<1>4. \A a, b \in DOMAIN nodes :
        a < b /\ nodes[b].kind \in Scopes!Containers => nodeToScope[a] < P(b, 0)
  <2> SUFFICES ASSUME NEW a \in DOMAIN nodes, NEW b \in DOMAIN nodes, a < b,
                      nodes[b].kind \in Scopes!Containers
               PROVE  nodeToScope[a] < P(b, 0)
    OBVIOUS
  <2>1. a \in 1..b - 1 /\ b \in DOMAIN nodes \ {1}
    BY TreeNodes
  <2> QED
    BY <2>1 DEF Scoped
<1>5. nodes[1].kind = "program" /\ 1 \in DOMAIN nodes
  BY TreeNodes DEF Tree
<1>a. \A m \in DOMAIN nodes : 1 <= m
  BY TreeNodes
<1> HIDE DEF P
<1>6. P(n, i) \in DOMAIN scopes
  <2>1. CASE i = 1 \/ nodes[n].kind # "catch"
    BY <1>2, <1>3, <2>1
  <2>2. CASE i = 0 /\ nodes[n].kind = "catch"
    <3>1. 1 < n
      BY <1>2, <1>5, <1>a, <2>2
    <3>2. nodeToScope[1] < P(n, 0)
      BY <1>4, <1>5, <3>1
    <3>3. P(n, 0) = nodeToScope[n] - 1
      BY <1>3, <2>2
    <3> QED
      BY <1>1, <1>2, <1>5, <2>2, <3>2, <3>3
  <2> QED
    BY <2>1, <2>2
<1>b. P(n, 0) = nodeToScope[n] \/ P(n, 0) = nodeToScope[n] - 1
  BY <1>3
<1>c. P(n, i) = nodeToScope[n] \/ P(n, i) = nodeToScope[n] - 1
  BY <1>3, <1>b
<1>d. P(k, 0) = IF nodes[k].kind = "catch" THEN nodeToScope[k] - 1 ELSE nodeToScope[k]
  BY <1>3
<1>e. i = 1 => P(n, i) = nodeToScope[n]
  BY <1>3
<1>7. CASE n < k
  <2>1. nodeToScope[n] < P(k, 0)
    BY <1>4, <1>7
  <2> QED
    BY <1>2, <1>6, <1>7, <1>c, <1>d, <2>1 DEF P
<1>8. CASE k < n
  <2>1. nodeToScope[k] < P(n, 0)
    BY <1>4, <1>8
  <2>2. P(n, 0) <= P(n, i)
    BY <1>2, <1>b, <1>3
  <2>3. nodeToScope[k] < P(n, i) /\ nodeToScope[k] \in Nat
    BY <1>1, <1>2, <1>6, <1>b, <2>1, <2>2
  <2> QED
    BY <1>2, <1>6, <1>8, <2>3 DEF P
<1>9. CASE k = n
  <2>1. CASE i = 1
    BY <1>2, <1>6, <1>9, <1>e, <2>1 DEF P
  <2>2. CASE i = 0
    BY <1>2, <1>6, <1>9, <1>d, <2>2 DEF P
  <2> QED
    BY <2>1, <2>2
<1> QED
  BY <1>2, <1>7, <1>8, <1>9

-----------------------------------------------------------------------------
(* The declarations of a name in an extent, and what the harness has for   *)
(* it in a scope.                                                          *)
DeclaredIn(k, i, x) == {d \in DOMAIN nodes : nodes[d].name = x /\ <<k, i>> \in ExtentsIn(nodes, d)}
At(s, x) == {D.node : D \in {y \in definitions : y.scope = s /\ y.name = x}}

LEMMA HasAt == \A s, x : Has(definitions, s, x) <=> At(s, x) # {}
BY DEF Has, At

LEMMA AtPlace ==
  ASSUME Defined(nodes, nodeToScope, definitions), NEW s, NEW x
  PROVE  At(s, x) = {d \in DOMAIN nodes : nodes[d].name = x /\
                       \E e \in ExtentsIn(nodes, d) : Place(nodes, nodeToScope, e) = s}
<1> DEFINE R == {d \in DOMAIN nodes : nodes[d].name = x /\
                       \E e \in ExtentsIn(nodes, d) : Place(nodes, nodeToScope, e) = s}
<1>1. ASSUME NEW d \in At(s, x) PROVE d \in R
  <2>1. PICK D \in definitions : D.scope = s /\ D.name = x /\ D.node = d
    BY <1>1 DEF At
  <2>2. PICK c \in DOMAIN nodes : \E e \in ExtentsIn(nodes, c) :
                D = Scopes!Definition(Place(nodes, nodeToScope, e), nodes[c].name, c)
    BY <2>1 DEF Defined
  <2> QED
    BY <2>1, <2>2 DEF Scopes!Definition
<1>2. ASSUME NEW d \in R PROVE d \in At(s, x)
  <2>1. PICK e \in ExtentsIn(nodes, d) : Place(nodes, nodeToScope, e) = s
    BY <1>2
  <2> DEFINE D == Scopes!Definition(s, x, d)
  <2>2. D = Scopes!Definition(Place(nodes, nodeToScope, e), nodes[d].name, d)
    BY <1>2, <2>1
  <2>3. D \in definitions
    BY <1>2, <2>2 DEF Defined
  <2>4. D.scope = s /\ D.name = x /\ D.node = d
    BY DEF Scopes!Definition
  <2> HIDE DEF D
  <2> QED
    BY <2>3, <2>4 DEF At
<1> QED
  BY <1>1, <1>2

LEMMA AtIs ==
  ASSUME ScopesInv, NEW k \in DOMAIN nodes, nodes[k].kind \in Scopes!Containers, NEW x
  PROVE  /\ At(nodeToScope[k], x) =
              DeclaredIn(k, 1, x) \cup (IF nodes[k].kind = "catch" THEN {} ELSE DeclaredIn(k, 0, x))
         /\ nodes[k].kind = "catch" => At(nodeToScope[k] - 1, x) = DeclaredIn(k, 0, x)
         /\ At(0, x) = {}
<1> DEFINE P(e) == Place(nodes, nodeToScope, e)
<1>1. /\ Tree(nodes) /\ Scoped(nodes, scopes, nodeToScope) /\ Defined(nodes, nodeToScope, definitions)
  BY DEF ScopesInv
<1>2. ASSUME NEW d \in DOMAIN nodes, NEW e \in ExtentsIn(nodes, d)
      PROVE  /\ P(e) # 0
             /\ P(e) = nodeToScope[k] <=> e = <<k, 1>> \/ (nodes[k].kind # "catch" /\ e = <<k, 0>>)
             /\ nodes[k].kind = "catch" => (P(e) = nodeToScope[k] - 1 <=> e = <<k, 0>>)
  <2>1. PICK n, i : e = <<n, i>> /\ IsExtent(nodes, d, n, i)
    BY <1>1, ExtentsAre
  <2>2. n \in DOMAIN nodes /\ i \in {0, 1} /\ nodes[n].kind \in Scopes!Containers
    BY <2>1 DEF IsExtent
  <2>3. 0 \notin DOMAIN scopes
    BY <1>1, ScopesFit
  <2>4. /\ P(<<n, i>>) \in DOMAIN scopes
        /\ P(<<n, i>>) = nodeToScope[k] <=> n = k /\ (i = 1 \/ nodes[k].kind # "catch")
        /\ nodes[k].kind = "catch" => (P(<<n, i>>) = nodeToScope[k] - 1 <=> n = k /\ i = 0)
    BY <1>1, <2>2, PlacesAre
  <2>5. \A j : <<n, i>> = <<k, j>> <=> n = k /\ i = j
    OBVIOUS
  <2> HIDE DEF P
  <2> QED
    BY <2>1, <2>2, <2>3, <2>4, <2>5
<1>3. \A s : At(s, x) = {d \in DOMAIN nodes : nodes[d].name = x /\ \E e \in ExtentsIn(nodes, d) : P(e) = s}
  BY <1>1, AtPlace
<1> HIDE DEF P
<1>4. \A d \in DOMAIN nodes :
        (\E e \in ExtentsIn(nodes, d) : P(e) = nodeToScope[k]) <=>
          <<k, 1>> \in ExtentsIn(nodes, d) \/ (nodes[k].kind # "catch" /\ <<k, 0>> \in ExtentsIn(nodes, d))
  BY <1>2
<1>5. At(nodeToScope[k], x) =
              DeclaredIn(k, 1, x) \cup (IF nodes[k].kind = "catch" THEN {} ELSE DeclaredIn(k, 0, x))
  BY <1>3, <1>4 DEF DeclaredIn
<1>6. nodes[k].kind = "catch" => At(nodeToScope[k] - 1, x) = DeclaredIn(k, 0, x)
  <2>1. nodes[k].kind = "catch" => \A d \in DOMAIN nodes :
          (\E e \in ExtentsIn(nodes, d) : P(e) = nodeToScope[k] - 1) <=> <<k, 0>> \in ExtentsIn(nodes, d)
    BY <1>2
  <2> QED
    BY <1>3, <2>1 DEF DeclaredIn
<1>7. At(0, x) = {}
  BY <1>2, <1>3
<1> QED
  BY <1>5, <1>6, <1>7

LEMMA OwnOnly ==
  ASSUME Tree(nodes), NEW k, NEW x, NEW d \in DeclaredIn(k, 0, x)
  PROVE  d = k /\ k \in DOMAIN nodes /\ nodes[k].kind \in {"class", "functionExpression", "catch"}
<1>1. d \in DOMAIN nodes /\ <<k, 0>> \in ExtentsIn(nodes, d)
  BY DEF DeclaredIn
<1>2. PICK n, i : <<k, 0>> = <<n, i>> /\ IsExtent(nodes, d, n, i)
  BY <1>1, ExtentsAre
<1>3. n = k /\ i = 0
  BY <1>2
<1> QED
  BY <1>1, <1>2, <1>3 DEF IsExtent

(* What the language finds, for a use right under the container m.         *)
Found(m, x) ==
  {p \in ((DOMAIN nodes) \X {0, 1}) \X DOMAIN nodes :
     nodes[p[2]].name = x /\ p[1] \in ExtentsIn(nodes, p[2]) /\ m \in Scopes!Below(p[1][1])}
Inner(e, f) == e[1] > f[1] \/ (e[1] = f[1] /\ e[2] >= f[2])
Innermost(F) == {p[2] : p \in {q \in F : \A other \in F : Inner(q[1], other[1])}}

LEMMA BindingIs ==
  ASSUME Tree(nodes), NEW r \in DOMAIN nodes, nodes[r].kind = "use"
  PROVE  Scopes!Binding(r) = Innermost(Found(nodes[r].parent, nodes[r].name))
<1> DEFINE All == ((DOMAIN nodes) \X {0, 1}) \X DOMAIN nodes
           m == nodes[r].parent
<1>1. r # 1 /\ m \in DOMAIN nodes /\ m < r
  <2>1. nodes[1].kind = "program"
    BY TreeNodes DEF Tree
  <2> QED
    BY <2>1, TreeNodes
<1>2. \A e : Scopes!Reaches(e, r) <=> m \in Scopes!Below(e[1])
  <2> SUFFICES ASSUME NEW n PROVE r \in Scopes!Below(n) \ {n} <=> m \in Scopes!Below(n)
    BY DEF Scopes!Reaches
  <2>1. r \in Scopes!Below(n) <=> r = n \/ m \in Scopes!Below(n)
    BY <1>1, BelowIs
  <2>2. m \in Scopes!Below(n) => n <= m /\ n \in DOMAIN nodes
    BY BelowIsLater
  <2>3. \A j \in DOMAIN nodes : j \in Nat
    BY TreeNodes
  <2> QED
    BY <1>1, <2>1, <2>2, <2>3
<1> DEFINE found == {p \in All : nodes[p[2]].name = nodes[r].name /\ p[1] \in Scopes!Extents(p[2])
                                   /\ Scopes!Reaches(p[1], r)}
<1>3. Scopes!Binding(r) = Innermost(found)
  BY DEF Scopes!Binding, Innermost, Inner
<1>4. found = Found(m, nodes[r].name)
  BY <1>2, SameExtents DEF Found
<1> QED
  BY <1>3, <1>4

(* What is found is a declaration and its extent, given by its node n.     *)
LEMMA FoundIs ==
  ASSUME Tree(nodes), NEW m, NEW x
  PROVE  /\ \A p \in Found(m, x) : \E n, i, d :
              /\ p = <<<<n, i>>, d>> /\ d \in DeclaredIn(n, i, x) /\ IsExtent(nodes, d, n, i)
              /\ m \in Scopes!Below(n)
         /\ \A n, i, d : d \in DeclaredIn(n, i, x) /\ m \in Scopes!Below(n) => <<<<n, i>>, d>> \in Found(m, x)
<1>1. ASSUME NEW p \in Found(m, x)
      PROVE  \E n, i, d : /\ p = <<<<n, i>>, d>> /\ d \in DeclaredIn(n, i, x) /\ IsExtent(nodes, d, n, i)
                          /\ m \in Scopes!Below(n)
  <2>1. p \in ((DOMAIN nodes) \X {0, 1}) \X DOMAIN nodes
    BY DEF Found
  <2>2. PICK e \in (DOMAIN nodes) \X {0, 1}, d \in DOMAIN nodes : p = <<e, d>>
    BY <2>1
  <2>3. p[1] = e /\ p[2] = d
    BY <2>2
  <2>4. nodes[d].name = x /\ e \in ExtentsIn(nodes, d) /\ m \in Scopes!Below(e[1])
    BY <2>3 DEF Found
  <2>5. PICK n, i : e = <<n, i>> /\ IsExtent(nodes, d, n, i)
    BY <2>4, ExtentsAre
  <2>6. e[1] = n
    BY <2>5
  <2>7. d \in DeclaredIn(n, i, x)
    BY <2>4, <2>5 DEF DeclaredIn
  <2> QED
    BY <2>2, <2>4, <2>5, <2>6, <2>7
<1>2. ASSUME NEW n, NEW i, NEW d, d \in DeclaredIn(n, i, x), m \in Scopes!Below(n)
      PROVE  <<<<n, i>>, d>> \in Found(m, x)
  <2>1. d \in DOMAIN nodes /\ nodes[d].name = x /\ <<n, i>> \in ExtentsIn(nodes, d)
    BY <1>2 DEF DeclaredIn
  <2>2. PICK n2, i2 : <<n, i>> = <<n2, i2>> /\ IsExtent(nodes, d, n2, i2)
    BY <2>1, ExtentsAre
  <2>3. n \in DOMAIN nodes /\ i \in {0, 1}
    BY <2>2 DEF IsExtent
  <2>4. <<<<n, i>>, d>> \in ((DOMAIN nodes) \X {0, 1}) \X DOMAIN nodes
    BY <2>1, <2>3
  <2> QED
    BY <1>2, <2>1, <2>4 DEF Found
<1> QED
  BY <1>1, <1>2

(* The declarations of the innermost extent.                               *)
LEMMA InnermostIs ==
  ASSUME Tree(nodes), NEW m \in DOMAIN nodes, NEW x, NEW i \in {0, 1}, DeclaredIn(m, i, x) # {},
         i = 0 => DeclaredIn(m, 1, x) = {}
  PROVE  Innermost(Found(m, x)) = DeclaredIn(m, i, x)
<1> DEFINE F == Found(m, x)
<1>1. \A j \in DOMAIN nodes : j \in Nat
  BY TreeNodes
<1>2. ASSUME NEW p \in F
      PROVE  \E n, j, d : /\ n \in Nat /\ j \in {0, 1}
                          /\ p = <<<<n, j>>, d>> /\ d \in DeclaredIn(n, j, x)
                          /\ n <= m /\ (n = m => j <= i)
  <2>1. PICK n, j, d : /\ p = <<<<n, j>>, d>> /\ d \in DeclaredIn(n, j, x) /\ IsExtent(nodes, d, n, j)
                       /\ m \in Scopes!Below(n)
    BY FoundIs
  <2>2. n \in Nat /\ j \in {0, 1} /\ n <= m
    BY <1>1, <2>1, BelowIsLater DEF IsExtent
  <2>3. n = m => j <= i
    BY <2>1, <2>2
  <2> QED
    BY <2>1, <2>2, <2>3
<1>3. \A d \in DeclaredIn(m, i, x) : <<<<m, i>>, d>> \in F
  <2>1. m \in Scopes!Below(m)
    BY BelowIs
  <2> QED
    BY <2>1, FoundIs
<1>4. \A n, j, d, n2, j2, d2 : Inner(<<<<n, j>>, d>>[1], <<<<n2, j2>>, d2>>[1]) <=>
                                 n > n2 \/ (n = n2 /\ j >= j2)
  BY DEF Inner
<1> HIDE DEF F
<1>5. ASSUME NEW d \in DeclaredIn(m, i, x) PROVE d \in Innermost(F)
  <2> DEFINE q == <<<<m, i>>, d>>
  <2>1. ASSUME NEW other \in F PROVE Inner(q[1], other[1])
    <3>1. PICK n, j, c : /\ n \in Nat /\ j \in {0, 1}
                         /\ other = <<<<n, j>>, c>> /\ n <= m /\ (n = m => j <= i)
      BY <1>2
    <3>2. m > n \/ (m = n /\ i >= j)
      BY <1>1, <3>1
    <3> QED
      BY <1>4, <3>1, <3>2
  <2>2. q \in F /\ q[2] = d
    BY <1>3
  <2> HIDE DEF q
  <2> QED
    BY <2>1, <2>2 DEF Innermost
<1>6. ASSUME NEW d \in Innermost(F) PROVE d \in DeclaredIn(m, i, x)
  <2>1. PICK q \in F : q[2] = d /\ \A other \in F : Inner(q[1], other[1])
    BY <1>6 DEF Innermost
  <2>2. PICK n, j, c : /\ n \in Nat /\ j \in {0, 1}
                       /\ q = <<<<n, j>>, c>> /\ c \in DeclaredIn(n, j, x)
                       /\ n <= m /\ (n = m => j <= i)
    BY <1>2
  <2>3. c = d
    BY <2>1, <2>2
  <2>4. PICK b \in DeclaredIn(m, i, x) : TRUE
    OBVIOUS
  <2>5. n > m \/ (n = m /\ j >= i)
    <3>1. Inner(q[1], <<<<m, i>>, b>>[1])
      BY <1>3, <2>1
    <3> QED
      BY <1>4, <2>2, <3>1
  <2>6. n = m /\ j = i
    BY <1>1, <2>2, <2>5
  <2> QED
    BY <2>2, <2>3, <2>6
<1> QED
  BY <1>5, <1>6 DEF F

(* A container that declares nothing of the name passes the question on.   *)
LEMMA FoundAbove ==
  ASSUME Tree(nodes), NEW m \in DOMAIN nodes, NEW x, DeclaredIn(m, 1, x) = {}, DeclaredIn(m, 0, x) = {}
  PROVE  Found(m, x) = IF m = 1 THEN {} ELSE Found(nodes[m].parent, x)
<1>1. ASSUME NEW p \in Found(m, x) PROVE m # 1 /\ p \in Found(nodes[m].parent, x)
  <2>1. PICK n, i, d : /\ p = <<<<n, i>>, d>> /\ d \in DeclaredIn(n, i, x) /\ IsExtent(nodes, d, n, i)
                       /\ m \in Scopes!Below(n)
    BY FoundIs
  <2>2. n # m
    BY <2>1 DEF IsExtent
  <2>3. m # 1 /\ nodes[m].parent \in Scopes!Below(n)
    BY <2>1, <2>2, BelowIs
  <2> QED
    BY <2>1, <2>3, FoundIs
<1>2. ASSUME m # 1, NEW p \in Found(nodes[m].parent, x) PROVE p \in Found(m, x)
  <2>1. PICK n, i, d : /\ p = <<<<n, i>>, d>> /\ d \in DeclaredIn(n, i, x) /\ IsExtent(nodes, d, n, i)
                       /\ nodes[m].parent \in Scopes!Below(n)
    BY FoundIs
  <2>2. m \in Scopes!Below(n)
    BY <1>2, <2>1, BelowIs
  <2> QED
    BY <2>1, <2>2, FoundIs
<1> QED
  BY <1>1, <1>2

(* What a lookup from a container finds is what the language finds.        *)
Agree(D, B) == D = B \/ D = B \cup {f \in D : nodes[f].kind = "functionExpression"}
LEMMA LooksUp ==
  ASSUME ScopesInv, NEW x
  PROVE  \A m \in DOMAIN nodes : nodes[m].kind \in OpenKinds =>
           Agree(At(Scopes!VariableByName(nodeToScope[m], x), x), Innermost(Found(m, x)))
<1> DEFINE V(s) == Scopes!VariableByName(s, x)
           Right(m) == Agree(At(V(nodeToScope[m]), x), Innermost(Found(m, x)))
           D == DOMAIN nodes
           T == {m \in D : nodes[m].kind \in OpenKinds => Right(m)}
<1>1. Tree(nodes) /\ Scoped(nodes, scopes, nodeToScope)
  BY DEF ScopesInv
<1>2. \A s \in DOMAIN scopes : V(s) = IF At(s, x) # {} THEN s ELSE V(scopes[s].upper)
  <2>1. \A s \in DOMAIN scopes : s \in 0..Len(scopes) /\ s # 0
    BY <1>1, ScopesFit
  <2> QED
    BY <1>1, <2>1, NameIs, HasAt
<1>3. V(0) = 0
  <2>1. 0 \in 0..Len(scopes)
    BY <1>1, ScopesFit
  <2> QED
    BY <1>1, <2>1, NameIs
<1> HIDE DEF V
<1>4. ASSUME NEW m \in D, nodes[m].kind \in OpenKinds, \A j \in D : j < m => j \in T
      PROVE  Right(m)
  <2>1. nodes[m].kind \in Scopes!Containers /\ nodes[m].kind # "class"
    BY <1>4 DEF OpenKinds, Scopes!Containers, Scopes!Functions
  <2> DEFINE s == nodeToScope[m]
  <2>2. /\ At(s, x) =
             DeclaredIn(m, 1, x) \cup (IF nodes[m].kind = "catch" THEN {} ELSE DeclaredIn(m, 0, x))
        /\ nodes[m].kind = "catch" => At(s - 1, x) = DeclaredIn(m, 0, x)
        /\ At(0, x) = {}
    BY <2>1, AtIs
  <2>3. s \in DOMAIN scopes
    BY <1>1 DEF Scoped
  <2>4. DeclaredIn(m, 0, x) # {} =>
          DeclaredIn(m, 0, x) = {m} /\ nodes[m].kind \in {"functionExpression", "catch"}
    BY <1>1, <2>1, OwnOnly
  <2>5. nodes[m].kind = "catch" => s - 1 \in DOMAIN scopes /\ scopes[s].upper = s - 1
    <3> SUFFICES ASSUME nodes[m].kind = "catch" PROVE s - 1 \in DOMAIN scopes /\ scopes[s].upper = s - 1
      OBVIOUS
    <3>1. m # 1
      BY <1>1 DEF Tree
    <3>2. Place(nodes, nodeToScope, <<m, 0>>) \in DOMAIN scopes
      BY <1>1, <2>1, PlacesAre
    <3>3. Place(nodes, nodeToScope, <<m, 0>>) = s - 1
      BY DEF Place
    <3>4. scopes[s].upper = s - 1
      BY <1>1, <2>1, <3>1 DEF Scoped
    <3> QED
      BY <3>2, <3>3, <3>4
  <2> HIDE DEF s
  <2>6. CASE DeclaredIn(m, 1, x) # {}
    <3>1. V(s) = s
      BY <1>2, <2>2, <2>3, <2>6
    <3>2. Innermost(Found(m, x)) = DeclaredIn(m, 1, x)
      BY <1>1, <2>6, InnermostIs
    <3>3. CASE DeclaredIn(m, 0, x) = {} \/ nodes[m].kind = "catch"
      BY <2>2, <3>1, <3>2, <3>3 DEF Agree, s
    <3>4. CASE DeclaredIn(m, 0, x) # {} /\ nodes[m].kind # "catch"
      <4>1. At(s, x) = DeclaredIn(m, 1, x) \cup {m} /\ nodes[m].kind = "functionExpression"
        BY <2>2, <2>4, <3>4
      <4>2. At(s, x) = DeclaredIn(m, 1, x) \cup {f \in At(s, x) : nodes[f].kind = "functionExpression"}
        BY <2>2, <4>1
      <4> QED
        BY <3>1, <3>2, <4>2 DEF Agree, s
    <3> QED
      BY <3>3, <3>4
  <2>7. CASE DeclaredIn(m, 1, x) = {} /\ DeclaredIn(m, 0, x) # {}
    <3>1. Innermost(Found(m, x)) = DeclaredIn(m, 0, x)
      BY <1>1, <2>7, InnermostIs
    <3>2. At(V(s), x) = DeclaredIn(m, 0, x)
      <4>1. CASE nodes[m].kind # "catch"
        BY <1>2, <2>2, <2>3, <2>7, <4>1
      <4>2. CASE nodes[m].kind = "catch"
        <5>1. V(s) = V(s - 1)
          BY <1>2, <2>2, <2>3, <2>5, <2>7, <4>2
        <5>2. V(s - 1) = s - 1
          BY <1>2, <2>2, <2>5, <2>7, <4>2
        <5> QED
          BY <2>2, <4>2, <5>1, <5>2
      <4> QED
        BY <4>1, <4>2
    <3> QED
      BY <3>1, <3>2 DEF Agree, s
  <2>8. CASE DeclaredIn(m, 1, x) = {} /\ DeclaredIn(m, 0, x) = {}
    <3>1. V(s) = V(scopes[s].upper)
      BY <1>2, <2>2, <2>3, <2>8
    <3>2. CASE m = 1
      <4>1. V(s) = 0
        BY <1>1, <1>3, <3>1, <3>2 DEF Scoped, s
      <4>2. Innermost(Found(m, x)) = {}
        BY <1>1, <2>8, <3>2, FoundAbove DEF Innermost
      <4> QED
        BY <2>2, <4>1, <4>2 DEF Agree, s
    <3>3. CASE m # 1
      <4> DEFINE p == nodes[m].parent
      <4>1. p \in D /\ Right(p)
        BY <1>1, <1>4, <3>3, TreeNodes
      <4>2. Found(m, x) = Found(p, x)
        BY <1>1, <2>8, <3>3, FoundAbove
      <4>3. V(s) = V(nodeToScope[p])
        <5>1. m \in DOMAIN nodes \ {1}
          BY <3>3
        <5>2. CASE nodes[m].kind # "catch"
          <6>1. scopes[s].upper = nodeToScope[p]
            BY <1>1, <2>1, <5>1, <5>2 DEF Scoped, Place, s
          <6> QED
            BY <3>1, <6>1
        <5>3. CASE nodes[m].kind = "catch"
          <6>1. scopes[s - 1].upper = nodeToScope[p]
            BY <1>1, <2>1, <5>1, <5>3 DEF Scoped, Place, s
          <6>2. V(s) = V(s - 1)
            BY <2>5, <3>1, <5>3
          <6>3. V(s - 1) = V(scopes[s - 1].upper)
            BY <1>2, <2>2, <2>5, <2>8, <5>3
          <6> QED
            BY <6>1, <6>2, <6>3
        <5> QED
          BY <5>2, <5>3
      <4> QED
        BY <4>1, <4>2, <4>3 DEF s
    <3> QED
      BY <3>2, <3>3
  <2> QED
    BY <2>6, <2>7, <2>8
<1>5. D \in SUBSET Nat
  BY <1>1, TreeNodes
<1>6. \A m \in D : (\A j \in D : j < m => j \in T) => m \in T
  BY <1>4
<1>7. D \subseteq T
  <2> HIDE DEF D, T
  <2> QED
    BY <1>5, <1>6, Descent
<1> QED
  BY <1>7 DEF V

LEMMA ScopesInvIsRight == ScopesInv => Scopes!BindsLikeTheLanguageHere
<1> SUFFICES ASSUME ScopesInv, resolved # <<>>, NEW r \in DOMAIN nodes, nodes[r].kind \in Scopes!References
             PROVE  LET named == {f \in Scopes!Definitions(r) : nodes[f].kind = "functionExpression"}
                    IN  \/ Scopes!Definitions(r) = Scopes!Binding(r)
                        \/ Scopes!Definitions(r) = Scopes!Binding(r) \cup named
  BY DEF Scopes!BindsLikeTheLanguageHere
<1> DEFINE x == nodes[r].name
           m == nodes[r].parent
<1>1. Tree(nodes) /\ Scoped(nodes, scopes, nodeToScope)
  BY DEF ScopesInv
<1>2. nodes[r].kind = "use"
  <2>1. nodes[r].kind \in HereKinds
    BY <1>1, TreeNodes
  <2> QED
    BY <2>1 DEF HereKinds, OpenKinds, Scopes!References
<1>3. r # 1
  BY <1>1, <1>2 DEF Tree
<1>4. m \in DOMAIN nodes /\ nodes[m].kind \in OpenKinds
  BY <1>1, <1>3, TreeNodes
<1>5. nodeToScope[r] = nodeToScope[m]
  BY <1>1, <1>2, <1>3 DEF Scoped, Scopes!Containers, Scopes!Functions
<1>6. resolved[r] = Scopes!VariableByName(nodeToScope[m], x)
  BY <1>5 DEF ScopesInv
<1>7. Scopes!Definitions(r) = At(resolved[r], x)
  BY DEF Scopes!Definitions, At
<1>8. Scopes!Binding(r) = Innermost(Found(m, x))
  BY <1>1, <1>2, BindingIs
<1>9. Agree(At(resolved[r], x), Innermost(Found(m, x)))
  BY <1>4, <1>6, LooksUp
<1> QED
  BY <1>7, <1>8, <1>9 DEF Agree

-----------------------------------------------------------------------------
LEMMA ScopesInitInv == Scopes!Init => ScopesInv
<1> SUFFICES ASSUME Scopes!Init PROVE ScopesInv
  OBVIOUS
<1> DEFINE root == [kind |-> "program", name |-> Scopes!NoName, parent |-> 0]
           scope == [type |-> "module", upper |-> 0]
<1>1. nodes = <<root>> /\ scopes = <<scope>> /\ nodeToScope = <<1>> /\ definitions = {} /\ resolved = <<>>
  BY DEF Scopes!Init
<1>2. /\ DOMAIN nodes = {1} /\ Len(nodes) = 1 /\ nodes[1] = root
      /\ DOMAIN scopes = {1} /\ Len(scopes) = 1 /\ scopes[1] = scope
      /\ DOMAIN nodeToScope = {1} /\ Len(nodeToScope) = 1 /\ nodeToScope[1] = 1
  BY <1>1
<1>3. root \in [kind : HereKinds, name : Names \cup {Scopes!NoName}, parent : Nat]
  BY DEF HereKinds, OpenKinds
<1>4. scope \in [type : ScopeTypes, upper : Nat]
  BY DEF ScopeTypes
<1>5. Tree(nodes)
  <2>1. nodes \in Seq([kind : HereKinds, name : Names \cup {Scopes!NoName}, parent : Nat])
    BY <1>1, <1>3
  <2> QED
    BY <1>2, <2>1 DEF Tree
<1>6. Scoped(nodes, scopes, nodeToScope)
  <2>1. scopes \in Seq([type : ScopeTypes, upper : Nat])
    BY <1>1, <1>4
  <2>2. ~ Scopes!Hoists("module")
    BY DEF Scopes!Hoists
  <2>3. nodeToScope \in [DOMAIN nodes -> DOMAIN scopes]
    BY <1>1, <1>2
  <2> QED
    BY <1>2, <2>1, <2>2, <2>3 DEF Scoped
<1>7. Defined(nodes, nodeToScope, definitions)
  <2>1. ExtentsIn(nodes, 1) = {}
    BY <1>2 DEF ExtentsIn
  <2> QED
    BY <1>1, <1>2, <2>1 DEF Defined
<1> QED
  BY <1>1, <1>2, <1>5, <1>6, <1>7 DEF ScopesInv

-----------------------------------------------------------------------------
(* Visiting one more node.                                                 *)
LEMMA Appended ==
  ASSUME NEW S, NEW s \in Seq(S), NEW v, NEW t, t = Append(s, v)
  PROVE  /\ Len(t) = Len(s) + 1 /\ DOMAIN s = 1..Len(s) /\ DOMAIN t = DOMAIN s \cup {Len(s) + 1}
         /\ \A i \in DOMAIN s : t[i] = s[i]
         /\ t[Len(s) + 1] = v
         /\ v \in S => t \in Seq(S)
OBVIOUS

LEMMA TreeGrows ==
  ASSUME NEW ns, Tree(ns), NEW kind \in HereKinds \ {"program"}, NEW name \in Names \cup {Scopes!NoName},
         NEW parent \in DOMAIN ns, ns[parent].kind \in OpenKinds,
         NEW ns2, ns2 = Append(ns, [kind |-> kind, name |-> name, parent |-> parent])
  PROVE  Tree(ns2)
<1> DEFINE Node == [kind : HereKinds, name : Names \cup {Scopes!NoName}, parent : Nat]
           new == [kind |-> kind, name |-> name, parent |-> parent]
           N == Len(ns) + 1
<1>1. ns \in Seq(Node) /\ Len(ns) > 0
  BY DEF Tree
<1>2. parent \in Nat /\ parent # 0 /\ parent < N /\ N # 1 /\ N \in Nat
  BY <1>1, TreeNodes
<1>3. new \in Node
  BY <1>2
<1>a. new.kind = kind /\ new.parent = parent
  OBVIOUS
<1> HIDE DEF Node, new
<1>4. /\ Len(ns2) = N /\ DOMAIN ns2 = DOMAIN ns \cup {N} /\ (\A i \in DOMAIN ns : ns2[i] = ns[i])
      /\ ns2[N] = new /\ ns2 \in Seq(Node)
  <2>1. ns2 = Append(ns, new)
    BY DEF new
  <2> QED
    BY <1>1, <1>3, <2>1, Appended
<1>5. \A n \in DOMAIN ns :
        /\ ns2[n].kind = "program" <=> n = 1
        /\ ns2[n].parent = 0 <=> n = 1
        /\ ns2[n].parent < n
        /\ n # 1 => ns2[ns2[n].parent].kind \in OpenKinds
  <2> SUFFICES ASSUME NEW n \in DOMAIN ns
               PROVE  /\ ns2[n].kind = "program" <=> n = 1
                      /\ ns2[n].parent = 0 <=> n = 1
                      /\ ns2[n].parent < n
                      /\ n # 1 => ns2[ns2[n].parent].kind \in OpenKinds
    OBVIOUS
  <2>1. ns2[n] = ns[n] /\ (n # 1 => ns2[ns[n].parent] = ns[ns[n].parent])
    BY <1>4, TreeNodes
  <2> QED
    BY <2>1 DEF Tree
<1>6. /\ ns2[N].kind # "program" /\ ns2[N].parent # 0 /\ ns2[N].parent < N
      /\ ns2[ns2[N].parent].kind \in OpenKinds
  BY <1>2, <1>4, <1>a
<1>7. Len(ns2) > 0
  BY <1>2, <1>4
<1>8. ns2 \in Seq([kind : HereKinds, name : Names \cup {Scopes!NoName}, parent : Nat])
  BY <1>4 DEF Node
<1> QED
  BY <1>2, <1>4, <1>5, <1>6, <1>7, <1>8 DEF Tree

LEMMA NearestKept ==
  ASSUME NEW ns, Tree(ns), NEW ns2, Tree(ns2), DOMAIN ns \subseteq DOMAIN ns2,
         \A n \in DOMAIN ns : ns2[n] = ns[n], NEW kinds, "program" \in kinds
  PROVE  \A m \in DOMAIN ns : NearestFrom(ns2, kinds)[m] = NearestFrom(ns, kinds)[m]
<1> DEFINE near == NearestFrom(ns, kinds)
           near2 == NearestFrom(ns2, kinds)
           D == DOMAIN ns
           T == {m \in D : near2[m] = near[m]}
<1>1. /\ \A m \in DOMAIN ns : near[m] = IF ns[m].kind \in kinds THEN m ELSE near[ns[m].parent]
      /\ \A m \in DOMAIN ns2 : near2[m] = IF ns2[m].kind \in kinds THEN m ELSE near2[ns2[m].parent]
  BY NearestIs
<1> HIDE DEF near, near2
<1>2. ASSUME NEW m \in D, \A j \in D : j < m => j \in T
      PROVE  m \in T
  <2>1. m # 1 => ns[m].parent \in T
    BY <1>2, TreeNodes
  <2>2. m = 1 => ns[m].kind \in kinds
    BY DEF Tree
  <2> QED
    BY <1>1, <2>1, <2>2
<1>3. D \in SUBSET Nat
  BY TreeNodes
<1>4. D \subseteq T
  <2> HIDE DEF D, T
  <2> QED
    BY <1>2, <1>3, Descent
<1> QED
  BY <1>4 DEF near, near2

LEMMA ExtentsKept ==
  ASSUME NEW ns, Tree(ns), NEW ns2, Tree(ns2), DOMAIN ns \subseteq DOMAIN ns2,
         \A n \in DOMAIN ns : ns2[n] = ns[n], NEW d \in DOMAIN ns
  PROVE  ExtentsIn(ns2, d) = ExtentsIn(ns, d)
<1>1. CASE d = 1
  <2>1. ns[d].kind = "program" /\ ns2[d].kind = "program"
    BY <1>1 DEF Tree
  <2> QED
    BY <2>1 DEF ExtentsIn
<1>2. CASE d # 1
  <2>1. ns[d].parent \in DOMAIN ns /\ ns2[d] = ns[d]
    BY <1>2, TreeNodes
  <2>2. ASSUME NEW kinds, "program" \in kinds PROVE NearestIn(ns2, d, kinds) = NearestIn(ns, d, kinds)
    <3>1. NearestFrom(ns2, kinds)[ns[d].parent] = NearestFrom(ns, kinds)[ns[d].parent]
      BY <2>1, <2>2, NearestKept
    <3>2. NearestIn(ns2, d, kinds) = NearestFrom(ns2, kinds)[ns2[d].parent]
      BY <2>2, NearestIs
    <3>3. NearestIn(ns, d, kinds) = NearestFrom(ns, kinds)[ns[d].parent]
      BY <2>2, NearestIs
    <3> QED
      BY <2>1, <3>1, <3>2, <3>3
  <2>3. /\ NearestIn(ns2, d, Scopes!Containers) = NearestIn(ns, d, Scopes!Containers)
        /\ NearestIn(ns2, d, Scopes!Functions \cup {"program", "static"}) =
             NearestIn(ns, d, Scopes!Functions \cup {"program", "static"})
    <3>1. "program" \in Scopes!Containers /\ "program" \in Scopes!Functions \cup {"program", "static"}
      BY DEF Scopes!Containers
    <3> QED
      BY <2>2, <3>1
  <2> QED
    BY <2>1, <2>3 DEF ExtentsIn
<1> QED
  BY <1>1, <1>2

(* The scopes that a visit opens: none, one, or two for a catch clause.    *)
Opened(kind) ==
  IF kind \notin Scopes!Containers THEN 0 ELSE IF kind = "catch" THEN 2 ELSE 1
Grown(ss, kind, around, ss2) ==
  /\ ss2 \in Seq([type : ScopeTypes, upper : Nat]) /\ Len(ss2) = Len(ss) + Opened(kind)
  /\ \A s \in DOMAIN ss : ss2[s] = ss[s]
  /\ kind \in Scopes!Containers =>
       /\ ss2[Len(ss) + 1].upper = around
       /\ Scopes!Hoists(ss2[Len(ss) + 1].type) <=> kind \notin Scopes!Functions
       /\ ss2[Len(ss) + 1].type = IF kind \in Scopes!Functions THEN "function"
                                  ELSE IF kind = "class" THEN "class" ELSE "block"
  /\ kind = "catch" => ss2[Len(ss) + 2] = [type |-> "block", upper |-> Len(ss) + 1]

OpenedScopes(kind, around, opened) ==
  [i \in DOMAIN Scopes!Opens(kind) |->
     [type |-> Scopes!Opens(kind)[i], upper |-> IF i = 1 THEN around ELSE opened]]

LEMMA OneMore ==
  ASSUME NEW S, NEW s \in Seq(S), NEW a \in S
  PROVE  /\ s \o <<a>> \in Seq(S) /\ Len(s \o <<a>>) = Len(s) + 1 /\ <<a>> # <<>>
         /\ \A i \in DOMAIN s : (s \o <<a>>)[i] = s[i]
         /\ (s \o <<a>>)[Len(s) + 1] = a
OBVIOUS

LEMMA TwoMore ==
  ASSUME NEW S, NEW s \in Seq(S), NEW a \in S, NEW b \in S
  PROVE  /\ s \o <<a, b>> \in Seq(S) /\ Len(s \o <<a, b>>) = Len(s) + 2 /\ <<a, b>> # <<>>
         /\ \A i \in DOMAIN s : (s \o <<a, b>>)[i] = s[i]
         /\ (s \o <<a, b>>)[Len(s) + 1] = a /\ (s \o <<a, b>>)[Len(s) + 2] = b
OBVIOUS

LEMMA ScopesGrow ==
  ASSUME NEW kind \in HereKinds \ {"program"}, NEW around \in Nat,
         NEW ss \in Seq([type : ScopeTypes, upper : Nat])
  PROVE  /\ Grown(ss, kind, around, ss \o OpenedScopes(kind, around, Len(ss) + 1))
         /\ OpenedScopes(kind, around, Len(ss) + 1) = <<>> <=> kind \notin Scopes!Containers
<1> DEFINE Scope == [type : ScopeTypes, upper : Nat]
           new == OpenedScopes(kind, around, Len(ss) + 1)
           types == Scopes!Opens(kind)
           outer(type) == [type |-> type, upper |-> around]
           inner == [type |-> "block", upper |-> Len(ss) + 1]
<1>1. ss \in Seq(Scope) /\ Len(ss) \in Nat /\ DOMAIN ss = 1..Len(ss) /\ ss \o <<>> = ss
  OBVIOUS
<1>2. \A type \in ScopeTypes : outer(type) \in Scope
  OBVIOUS
<1>3. /\ Scopes!Hoists("class") /\ Scopes!Hoists("block") /\ ~ Scopes!Hoists("function")
  BY DEF Scopes!Hoists
<1>4. \A type : outer(type).type = type /\ outer(type).upper = around
  OBVIOUS
<1>5. CASE kind \notin Scopes!Containers
  <2>1. types = <<>>
    BY <1>5 DEF Scopes!Opens, Scopes!Containers
  <2>2. new = <<>>
    BY <2>1 DEF OpenedScopes
  <2>4. kind # "catch"
    BY <1>5 DEF Scopes!Containers
  <2> HIDE DEF new, types
  <2>5. Grown(ss, kind, around, ss)
    BY <1>1, <1>5, <2>4 DEF Grown, Opened
  <2> QED
    BY <1>1, <1>5, <2>2, <2>5 DEF new
<1>6. ASSUME NEW type, types = <<type>>, type \in ScopeTypes, kind \in Scopes!Containers, kind # "catch"
      PROVE  /\ new # <<>> /\ ss \o new \in Seq(Scope) /\ Len(ss \o new) = Len(ss) + 1
             /\ \A s \in DOMAIN ss : (ss \o new)[s] = ss[s]
             /\ (ss \o new)[Len(ss) + 1] = outer(type)
  <2>1. new = <<outer(type)>>
    BY <1>6 DEF OpenedScopes
  <2>2. outer(type) \in Scope
    BY <1>2, <1>6
  <2> HIDE DEF new, outer, Scope
  <2> QED
    BY <1>1, <2>1, <2>2, OneMore
<1>a. ASSUME NEW type, types = <<type>>, type \in ScopeTypes, kind \in Scopes!Containers, kind # "catch",
             Scopes!Hoists(type) <=> kind \notin Scopes!Functions,
             type = IF kind \in Scopes!Functions THEN "function"
                    ELSE IF kind = "class" THEN "class" ELSE "block"
      PROVE  Grown(ss, kind, around, ss \o new) /\ new # <<>>
  <2> HIDE DEF new, outer, types
  <2> QED
    BY <1>4, <1>6, <1>a DEF Grown, Opened
<1>7. CASE kind \in Scopes!Functions
  <2>1. types = <<"function">> /\ kind \in Scopes!Containers /\ kind # "catch"
    BY <1>7 DEF Scopes!Opens, Scopes!Containers, Scopes!Functions
  <2> HIDE DEF new, types
  <2> QED
    BY <1>3, <1>7, <1>a, <2>1 DEF ScopeTypes, new
<1>8. CASE kind \in {"block", "switch"}
  <2>1. types = <<"block">> /\ kind \in Scopes!Containers /\ kind \notin Scopes!Functions
    BY <1>8 DEF Scopes!Opens, Scopes!Containers, Scopes!Functions
  <2> HIDE DEF new, types
  <2> QED
    BY <1>3, <1>8, <1>a, <2>1 DEF ScopeTypes, new
<1>9. CASE kind = "class"
  <2>1. types = <<"class">> /\ kind \in Scopes!Containers /\ kind \notin Scopes!Functions
    BY <1>9 DEF Scopes!Opens, Scopes!Containers, Scopes!Functions
  <2> HIDE DEF new, types
  <2> QED
    BY <1>3, <1>9, <1>a, <2>1 DEF ScopeTypes, new
<1>10. CASE kind = "catch"
  <2>1. types = <<"block", "block">> /\ kind \in Scopes!Containers /\ kind \notin Scopes!Functions
    BY <1>10 DEF Scopes!Opens, Scopes!Containers, Scopes!Functions
  <2>2. new = <<outer("block"), inner>>
    BY <2>1 DEF OpenedScopes
  <2> DEFINE o == outer("block")
  <2>3. o.upper = around /\ o.type = "block" /\ o \in Scope /\ inner \in Scope
    BY <1>1 DEF ScopeTypes
  <2>4. new = <<o, inner>>
    BY <2>2
  <2> HIDE DEF new, Scope, o
  <2>5. /\ ss \o <<o, inner>> \in Seq(Scope) /\ Len(ss \o <<o, inner>>) = Len(ss) + 2
        /\ <<o, inner>> # <<>> /\ \A s \in DOMAIN ss : (ss \o <<o, inner>>)[s] = ss[s]
        /\ (ss \o <<o, inner>>)[Len(ss) + 1] = o /\ (ss \o <<o, inner>>)[Len(ss) + 2] = inner
    <3> HIDE DEF inner
    <3> QED
      BY <1>1, <2>3, TwoMore
  <2> DEFINE ss2 == ss \o new
  <2>6. /\ ss2 \in Seq(Scope) /\ Len(ss2) = Len(ss) + 2 /\ new # <<>>
        /\ \A s \in DOMAIN ss : ss2[s] = ss[s]
        /\ ss2[Len(ss) + 1] = o /\ ss2[Len(ss) + 2] = [type |-> "block", upper |-> Len(ss) + 1]
    BY <2>4, <2>5
  <2> HIDE DEF ss2
  <2>7. Grown(ss, kind, around, ss2)
    BY <1>3, <1>10, <2>1, <2>3, <2>6 DEF Grown, Opened, Scope
  <2> QED
    BY <2>1, <2>6, <2>7 DEF ss2, new
<1> QED
  BY <1>5, <1>7, <1>8, <1>9, <1>10 DEF HereKinds, OpenKinds, Scopes!Functions, Scopes!Containers

(* The tree ns and its scopes before a visit, ns2 and its scopes after it. *)
Visits(ns, ss, to, kind, name, parent, ns2, ss2, to2) ==
  /\ Tree(ns) /\ Scoped(ns, ss, to) /\ Tree(ns2)
  /\ kind \in HereKinds \ {"program"} /\ parent \in DOMAIN ns
  /\ DOMAIN ns2 = DOMAIN ns \cup {Len(ns) + 1} /\ \A n \in DOMAIN ns : ns2[n] = ns[n]
  /\ ns2[Len(ns) + 1] = [kind |-> kind, name |-> name, parent |-> parent]
  /\ Grown(ss, kind, to[parent], ss2)
  /\ to2 \in Seq(Nat) /\ DOMAIN to2 = DOMAIN ns2 /\ \A n \in DOMAIN ns : to2[n] = to[n]
  /\ to2[Len(ns) + 1] = IF kind \notin Scopes!Containers THEN to[parent] ELSE Len(ss2)

LEMMA ScopedGrows ==
  ASSUME NEW ns, NEW ss, NEW to, NEW kind, NEW name, NEW parent, NEW ns2, NEW ss2, NEW to2,
         Visits(ns, ss, to, kind, name, parent, ns2, ss2, to2)
  PROVE  Scoped(ns2, ss2, to2)
<1> DEFINE N == Len(ns) + 1
           L == Len(ss)
           around == to[parent]
<1>1. /\ Tree(ns) /\ Scoped(ns, ss, to) /\ Tree(ns2)
      /\ kind \in HereKinds \ {"program"} /\ parent \in DOMAIN ns
      /\ DOMAIN ns2 = DOMAIN ns \cup {N} /\ (\A n \in DOMAIN ns : ns2[n] = ns[n])
      /\ ns2[N].kind = kind /\ ns2[N].parent = parent
      /\ Grown(ss, kind, around, ss2)
      /\ to2 \in Seq(Nat) /\ DOMAIN to2 = DOMAIN ns2 /\ (\A n \in DOMAIN ns : to2[n] = to[n])
      /\ to2[N] = IF kind \notin Scopes!Containers THEN around ELSE Len(ss2)
  BY DEF Visits
<1>2. /\ DOMAIN ns = 1..Len(ns) /\ Len(ns) \in Nat /\ N \in Nat /\ N # 1
      /\ \A n \in DOMAIN ns : n \in Nat /\ n < N
  BY <1>1, TreeNodes
<1>3. /\ DOMAIN ss = 1..L /\ L \in Nat /\ 1 \in DOMAIN ss
      /\ \A s \in DOMAIN ss : ss[s].type \in ScopeTypes /\ ss[s].upper \in Nat /\ ss[s].upper < s
  BY <1>1, ScopesFit
<1>4. \A n \in DOMAIN ns : to[n] \in DOMAIN ss
  BY <1>1 DEF Scoped
<1>5. /\ ss2 \in Seq([type : ScopeTypes, upper : Nat]) /\ Len(ss2) = L + Opened(kind)
      /\ \A s \in DOMAIN ss : ss2[s] = ss[s]
  BY <1>1 DEF Grown
<1>6. Opened(kind) \in 0..2
  BY DEF Opened
<1>7. DOMAIN ss2 = 1..L + Opened(kind) /\ Len(ss2) > 0
  BY <1>3, <1>5, <1>6
<1>8. ASSUME NEW s \in DOMAIN ss2, s \notin DOMAIN ss
      PROVE  /\ kind \in Scopes!Containers
             /\ s = L + 1 \/ (s = L + 2 /\ kind = "catch")
  BY <1>3, <1>7, <1>8 DEF Opened
<1>9. kind \in Scopes!Containers =>
        /\ L + 1 \in DOMAIN ss2 /\ ss2[L + 1].upper = around
        /\ Scopes!Hoists(ss2[L + 1].type) <=> kind \notin Scopes!Functions
  BY <1>1, <1>3, <1>7 DEF Grown, Opened
<1>10. kind = "catch" => /\ L + 2 \in DOMAIN ss2 /\ ss2[L + 2].upper = L + 1 /\ ss2[L + 2].type = "block"
                         /\ ss2[L + 1].type = "block" /\ kind \in Scopes!Containers
                         /\ kind \notin Scopes!Functions
  <2>1. kind = "catch" => kind \in Scopes!Containers /\ kind \notin Scopes!Functions
    BY DEF Scopes!Containers, Scopes!Functions
  <2> QED
    BY <1>1, <1>3, <1>7, <2>1 DEF Grown, Opened
<1>11. around \in DOMAIN ss /\ around # 0 /\ around < L + 1 /\ around \in Nat
  BY <1>1, <1>3, <1>4
<1>12. \A s \in DOMAIN ss2 : /\ ss2[s].upper < s
                             /\ Scopes!Hoists(ss2[s].type) => ss2[s].upper # 0
  <2> SUFFICES ASSUME NEW s \in DOMAIN ss2
               PROVE  /\ ss2[s].upper < s
                      /\ Scopes!Hoists(ss2[s].type) => ss2[s].upper # 0
    OBVIOUS
  <2>1. CASE s \in DOMAIN ss
    BY <1>1, <1>3, <1>5, <2>1 DEF Scoped
  <2>2. CASE s = L + 1 /\ kind \in Scopes!Containers
    BY <1>9, <1>11, <2>2
  <2>3. CASE s = L + 2 /\ kind = "catch"
    BY <1>3, <1>10, <2>3
  <2> QED
    BY <1>8, <2>1, <2>2, <2>3
<1>13. to2[N] \in DOMAIN ss2 /\ (kind \in Scopes!Containers => to2[N] = L + Opened(kind))
  BY <1>1, <1>3, <1>5, <1>6, <1>7, <1>11 DEF Opened
<1>14. to2 \in [DOMAIN ns2 -> DOMAIN ss2]
  <2>1. to2 = [n \in DOMAIN to2 |-> to2[n]]
    BY <1>1
  <2>2. \A n \in DOMAIN ns2 : to2[n] \in DOMAIN ss2
    <3>1. DOMAIN ss \subseteq DOMAIN ss2
      BY <1>3, <1>6, <1>7
    <3> HIDE DEF N
    <3> QED
      BY <1>1, <1>4, <1>13, <3>1
  <2> QED
    BY <1>1, <2>1, <2>2
<1>15. to2[1] = 1 /\ ss2[1].upper = 0
  <2>1. 1 \in DOMAIN ns /\ to[1] = 1 /\ ss[1].upper = 0
    BY <1>1, TreeNodes DEF Scoped
  <2> QED
    BY <1>1, <1>3, <1>5, <2>1
<1>16. \A n \in DOMAIN ns : Place(ns2, to2, <<n, 0>>) = Place(ns, to, <<n, 0>>)
  <2> SUFFICES ASSUME NEW n \in DOMAIN ns PROVE Place(ns2, to2, <<n, 0>>) = Place(ns, to, <<n, 0>>)
    OBVIOUS
  <2> QED
    BY <1>1 DEF Place
<1>17. kind \in Scopes!Containers => Place(ns2, to2, <<N, 0>>) = L + 1
  <2>1. Place(ns2, to2, <<N, 0>>) = IF kind = "catch" THEN to2[N] - 1 ELSE to2[N]
    BY <1>1 DEF Place
  <2> QED
    BY <1>3, <1>13, <2>1 DEF Opened
<1>18. ASSUME NEW n \in DOMAIN ns2 \ {1}
       PROVE  IF ns2[n].kind \in Scopes!Containers
              THEN /\ ss2[Place(ns2, to2, <<n, 0>>)].upper = to2[ns2[n].parent]
                   /\ ns2[n].kind = "catch" =>
                        ss2[to2[n]].upper = to2[n] - 1 /\ ss2[to2[n] - 1].type = "block"
                   /\ \A m \in 1..n - 1 : to2[m] < Place(ns2, to2, <<n, 0>>)
              ELSE to2[n] = to2[ns2[n].parent]
  <2>1. CASE n \in DOMAIN ns
    <3>1. n \in DOMAIN ns \ {1} /\ ns2[n] = ns[n] /\ ns[n].parent \in DOMAIN ns /\ to2[n] = to[n]
          /\ to2[ns[n].parent] = to[ns[n].parent]
      BY <1>1, <2>1, TreeNodes
    <3>2. CASE ns[n].kind \in Scopes!Containers
      <4>1. /\ ss[Place(ns, to, <<n, 0>>)].upper = to[ns[n].parent]
            /\ ns[n].kind = "catch" => ss[to[n]].upper = to[n] - 1 /\ ss[to[n] - 1].type = "block"
            /\ \A m \in 1..n - 1 : to[m] < Place(ns, to, <<n, 0>>)
        BY <1>1, <3>1, <3>2 DEF Scoped
      <4>2. 1 \in DOMAIN ns /\ 1 \in 1..n - 1 /\ to[1] = 1
        BY <1>1, <1>2, <3>1, TreeNodes DEF Scoped
      <4>3. Place(ns, to, <<n, 0>>) = to[n] \/ (Place(ns, to, <<n, 0>>) = to[n] - 1 /\ ns[n].kind = "catch")
        BY DEF Place
      <4>4. Place(ns, to, <<n, 0>>) \in DOMAIN ss
        <5>1. 1 < Place(ns, to, <<n, 0>>)
          BY <4>1, <4>2
        <5>2. to[n] \in 1..L
          BY <1>3, <1>4, <3>1
        <5> QED
          BY <1>3, <4>3, <5>1, <5>2
      <4>5. ns[n].kind = "catch" => to[n] - 1 \in DOMAIN ss
        <5>1. ns[n].kind = "catch" => Place(ns, to, <<n, 0>>) = to[n] - 1
          BY DEF Place
        <5> QED
          BY <4>4, <5>1
      <4>6. \A m \in 1..n - 1 : to2[m] = to[m]
        BY <1>1, <1>2, <3>1, SMTT(30)
      <4> QED
        BY <1>4, <1>5, <1>16, <3>1, <3>2, <4>1, <4>4, <4>5, <4>6
    <3>3. CASE ns[n].kind \notin Scopes!Containers
      BY <1>1, <3>1, <3>3 DEF Scoped
    <3> QED
      BY <3>2, <3>3
  <2>2. CASE n = N
    <3>1. ns2[n].kind = kind /\ to2[ns2[n].parent] = around
      BY <1>1, <2>2
    <3>2. CASE kind \in Scopes!Containers
      <4>1. \A m \in 1..n - 1 : to2[m] < L + 1
        <5>1. \A m \in DOMAIN ns : to[m] \in 1..L /\ to2[m] = to[m]
          BY <1>1, <1>3, <1>4
        <5>2. n - 1 = Len(ns)
          BY <1>2, <2>2
        <5> QED
          BY <1>2, <1>3, <5>1, <5>2
      <4>2. ss2[L + 1].upper = around
        BY <1>9, <3>2
      <4>3. kind = "catch" => to2[n] = L + 2 /\ L + 2 - 1 = L + 1
        BY <1>3, <1>13, <2>2, <3>2 DEF Opened
      <4>4. kind = "catch" => ss2[to2[n]].upper = to2[n] - 1 /\ ss2[to2[n] - 1].type = "block"
        BY <1>10, <4>3
      <4> QED
        BY <1>17, <2>2, <3>1, <3>2, <4>1, <4>2, <4>4
    <3>3. CASE kind \notin Scopes!Containers
      BY <1>1, <2>2, <3>1, <3>3
    <3> QED
      BY <3>2, <3>3
  <2> QED
    BY <1>1, <2>1, <2>2
<1>19. ASSUME NEW n \in DOMAIN ns2, ns2[n].kind \in Scopes!Containers
       PROVE  Scopes!Hoists(ss2[to2[n]].type) <=> ns2[n].kind \notin Scopes!Functions \cup {"program"}
  <2>1. CASE n \in DOMAIN ns
    <3>1. ns2[n] = ns[n] /\ to2[n] = to[n] /\ to[n] \in DOMAIN ss
      BY <1>1, <1>4, <2>1
    <3>2. ss2[to[n]] = ss[to[n]]
      BY <1>5, <3>1
    <3> QED
      BY <1>1, <1>19, <2>1, <3>1, <3>2 DEF Scoped
  <2>2. CASE n = N
    <3>1. ns2[n].kind = kind /\ kind \in Scopes!Containers /\ kind # "program"
      BY <1>1, <1>19, <2>2
    <3>2. CASE kind # "catch"
      <4>1. to2[n] = L + 1
        BY <1>13, <2>2, <3>1, <3>2 DEF Opened
      <4> QED
        BY <1>9, <3>1, <4>1
    <3>3. CASE kind = "catch"
      <4>1. to2[n] = L + 2
        BY <1>13, <2>2, <3>1, <3>3 DEF Opened
      <4>2. Scopes!Hoists("block")
        BY DEF Scopes!Hoists
      <4> QED
        BY <1>10, <3>1, <3>3, <4>1, <4>2
    <3> QED
      BY <3>2, <3>3
  <2> QED
    BY <1>1, <2>1, <2>2
<1> HIDE DEF N, L, around
<1> QED
  BY <1>5, <1>7, <1>12, <1>14, <1>15, <1>18, <1>19 DEF Scoped

PlacesOf(kind, home, around, opened) ==
  CASE kind = "var" -> {home}
    [] kind \in {"let", "param", "function"} -> {around}
    [] kind \in {"functionExpression", "catch"} -> {opened}
    [] kind = "class" -> {around, opened}
    [] OTHER -> {}
LEMMA DefinedGrows ==
  ASSUME NEW ns, NEW ss, NEW to, NEW kind, NEW name, NEW parent, NEW ns2, NEW ss2, NEW to2,
         Visits(ns, ss, to, kind, name, parent, ns2, ss2, to2),
         NEW home, home = to[NearestFrom(ns, HomeKinds)[parent]],
         NEW places, places = PlacesOf(kind, home, to[parent], Len(ss) + 1),
         NEW ds, Defined(ns, to, ds),
         NEW ds2, ds2 = ds \cup {Scopes!Definition(s, name, Len(ns) + 1) : s \in places}
  PROVE  Defined(ns2, to2, ds2)
<1> DEFINE N == Len(ns) + 1
<1>1. /\ Tree(ns) /\ Scoped(ns, ss, to) /\ Tree(ns2)
      /\ kind \in HereKinds \ {"program"} /\ parent \in DOMAIN ns
      /\ DOMAIN ns2 = DOMAIN ns \cup {N} /\ (\A n \in DOMAIN ns : ns2[n] = ns[n])
      /\ ns2[N].kind = kind /\ ns2[N].parent = parent /\ ns2[N].name = name
      /\ (\A n \in DOMAIN ns : to2[n] = to[n])
  BY DEF Visits
<1>2. kind \in Scopes!Containers => to2[N] = Len(ss) + Opened(kind)
  BY DEF Visits, Grown
<1>3. ASSUME NEW d \in DOMAIN ns
      PROVE  /\ ExtentsIn(ns2, d) = ExtentsIn(ns, d)
             /\ \A e \in ExtentsIn(ns, d) : Place(ns2, to2, e) = Place(ns, to, e)
  <2>1. ExtentsIn(ns2, d) = ExtentsIn(ns, d)
    BY <1>1, ExtentsKept
  <2>2. ASSUME NEW e \in ExtentsIn(ns, d) PROVE Place(ns2, to2, e) = Place(ns, to, e)
    <3>1. PICK n, i : e = <<n, i>> /\ IsExtent(ns, d, n, i)
      BY <1>1, ExtentsAre
    <3>2. n \in DOMAIN ns /\ e[1] = n
      BY <3>1 DEF IsExtent
    <3> QED
      BY <1>1, <3>2 DEF Place
  <2> QED
    BY <2>1, <2>2
<1>4. \A s : s \in places <=> \E e \in ExtentsIn(ns2, N) : Place(ns2, to2, e) = s
  <2>1. /\ \A n \in DOMAIN ns : Place(ns2, to2, <<n, 1>>) = to[n]
        /\ Place(ns2, to2, <<N, 0>>) = IF kind = "catch" THEN to2[N] - 1 ELSE to2[N]
    <3>1. ASSUME NEW n \in DOMAIN ns PROVE Place(ns2, to2, <<n, 1>>) = to2[n]
      BY PlaceIs
    <3>2. Place(ns2, to2, <<N, 0>>) = IF kind = "catch" THEN to2[N] - 1 ELSE to2[N]
      BY <1>1, PlaceIs
    <3> QED
      BY <1>1, <3>1, <3>2
  <2>2. kind \in {"functionExpression", "catch", "class"} => Place(ns2, to2, <<N, 0>>) = Len(ss) + 1
    <3>1. kind \in {"functionExpression", "catch", "class"} => kind \in Scopes!Containers
      BY DEF Scopes!Containers, Scopes!Functions
    <3>2. Len(ss) \in Nat
      BY <1>1, ScopesFit
    <3> QED
      BY <1>2, <2>1, <3>1, <3>2 DEF Opened
  <2>3. N \in DOMAIN ns2 /\ parent \in DOMAIN ns2
    BY <1>1
  <2>5. NearestIn(ns2, N, Scopes!Containers) = parent
    <3>1. "program" \in Scopes!Containers
      BY DEF Scopes!Containers
    <3>2. ns2[parent].kind \in Scopes!Containers
      <4>1. N # 1
        BY <1>1, TreeNodes
      <4>2. ns2[parent].kind \in OpenKinds
        BY <1>1, <2>3, <4>1, TreeNodes
      <4> QED
        BY <4>2 DEF OpenKinds, Scopes!Containers, Scopes!Functions
    <3> DEFINE near == NearestFrom(ns2, Scopes!Containers)
    <3>3. NearestIn(ns2, N, Scopes!Containers) = near[parent]
      BY <1>1, <3>1, NearestIs
    <3>4. near[parent] = IF ns2[parent].kind \in Scopes!Containers THEN parent ELSE near[ns2[parent].parent]
      BY <1>1, <2>3, <3>1, NearestIs
    <3> QED
      BY <3>2, <3>3, <3>4
  <2>6. /\ NearestIn(ns2, N, HomeKinds) = NearestFrom(ns, HomeKinds)[parent]
        /\ NearestFrom(ns, HomeKinds)[parent] \in DOMAIN ns
    <3>1. "program" \in HomeKinds
      BY DEF HomeKinds
    <3>2. NearestIn(ns2, N, HomeKinds) = NearestFrom(ns2, HomeKinds)[parent]
      BY <1>1, <3>1, NearestIs
    <3>3. NearestFrom(ns2, HomeKinds)[parent] = NearestFrom(ns, HomeKinds)[parent]
      BY <1>1, <3>1, NearestKept
    <3> QED
      BY <1>1, <3>1, <3>2, <3>3, NearestFits
  <2>7. CASE kind = "var"
    <3>1. ExtentsIn(ns2, N) = {<<NearestIn(ns2, N, HomeKinds), 1>>}
      BY <1>1, <2>7 DEF ExtentsIn, HomeKinds
    <3>2. Place(ns2, to2, <<NearestIn(ns2, N, HomeKinds), 1>>) = home
      BY <2>1, <2>6
    <3>3. places = {home}
      BY <2>7 DEF PlacesOf
    <3> QED
      BY <3>1, <3>2, <3>3
  <2>8. CASE kind \in {"let", "param", "function"}
    <3>1. ExtentsIn(ns2, N) = {<<parent, 1>>}
      BY <1>1, <2>5, <2>8 DEF ExtentsIn
    <3>2. places = {to[parent]}
      BY <2>8 DEF PlacesOf
    <3> QED
      BY <1>1, <2>1, <3>1, <3>2, ZenonT(60)
  <2>9. CASE kind \in {"functionExpression", "catch"}
    <3>1. ExtentsIn(ns2, N) = {<<N, 0>>}
      BY <1>1, <2>9 DEF ExtentsIn
    <3>2. places = {Len(ss) + 1}
      BY <2>9 DEF PlacesOf
    <3> QED
      BY <2>2, <2>9, <3>1, <3>2
  <2>10. CASE kind = "class"
    <3>1. ExtentsIn(ns2, N) = {<<parent, 1>>} \cup {<<N, 0>>}
      BY <1>1, <2>5, <2>10 DEF ExtentsIn
    <3>2. places = {to[parent], Len(ss) + 1}
      BY <2>10 DEF PlacesOf
    <3> QED
      BY <1>1, <2>1, <2>2, <2>10, <3>1, <3>2, ZenonT(60)
  <2>11. CASE kind \notin {"var", "let", "param", "function", "functionExpression", "catch", "class"}
    <3>1. ExtentsIn(ns2, N) = {}
      BY <1>1, <2>11 DEF ExtentsIn
    <3>2. places = {}
      BY <2>11 DEF PlacesOf
    <3> QED
      BY <3>1, <3>2
  <2> QED
    BY <2>7, <2>8, <2>9, <2>10, <2>11
<1> HIDE DEF N
<1>5. ds2 = ds \cup {Scopes!Definition(s, name, N) : s \in places}
  BY DEF N
<1>6. ASSUME NEW D \in ds2
      PROVE  \E d \in DOMAIN ns2 : \E e \in ExtentsIn(ns2, d) :
               D = Scopes!Definition(Place(ns2, to2, e), ns2[d].name, d)
  <2>1. CASE D \in ds
    <3>1. PICK d \in DOMAIN ns : \E e \in ExtentsIn(ns, d) :
                 D = Scopes!Definition(Place(ns, to, e), ns[d].name, d)
      BY <2>1 DEF Defined
    <3> QED
      BY <1>1, <1>3, <3>1
  <2>2. CASE D \notin ds
    <3>1. PICK s \in places : D = Scopes!Definition(s, name, N)
      BY <1>5, <2>2
    <3>2. PICK e \in ExtentsIn(ns2, N) : Place(ns2, to2, e) = s
      BY <1>4, <3>1
    <3> QED
      BY <1>1, <3>1, <3>2
  <2> QED
    BY <2>1, <2>2
<1>7. ASSUME NEW d \in DOMAIN ns2, NEW e \in ExtentsIn(ns2, d)
      PROVE  Scopes!Definition(Place(ns2, to2, e), ns2[d].name, d) \in ds2
  <2>1. CASE d \in DOMAIN ns
    <3>1. e \in ExtentsIn(ns, d) /\ Place(ns2, to2, e) = Place(ns, to, e) /\ ns2[d] = ns[d]
      BY <1>1, <1>3, <2>1
    <3>2. Scopes!Definition(Place(ns, to, e), ns[d].name, d) \in ds
      BY <2>1, <3>1 DEF Defined
    <3> QED
      BY <1>5, <3>1, <3>2
  <2>2. CASE d = N
    <3>1. Place(ns2, to2, e) \in places
      BY <1>4, <2>2
    <3> QED
      BY <1>1, <1>5, <2>2, <3>1
  <2> QED
    BY <1>1, <2>1, <2>2
<1>8. ASSUME NEW D, NEW d \in DOMAIN ns2, NEW e \in ExtentsIn(ns2, d),
             D = Scopes!Definition(Place(ns2, to2, e), ns2[d].name, d)
      PROVE  D \in ds2
  BY <1>7, <1>8
<1> QED
  BY <1>6, <1>8 DEF Defined

LEMMA VisitKeepsInv ==
  ASSUME ScopesInv, KindsAssumption, NEW kind \in Kinds, NEW name \in Names \cup {Scopes!NoName},
         NEW parent \in DOMAIN nodes, Scopes!Visit(kind, name, parent)
  PROVE  ScopesInv'
<1> DEFINE around == nodeToScope[parent]
           opened == Len(scopes) + 1
           new == OpenedScopes(kind, around, opened)
           N == Len(nodes) + 1
           node == [kind |-> kind, name |-> name, parent |-> parent]
<1>1. /\ Tree(nodes) /\ Scoped(nodes, scopes, nodeToScope) /\ Len(nodeToScope) = Len(nodes)
      /\ nodeToScope \in Seq(Nat) /\ Defined(nodes, nodeToScope, definitions)
  BY DEF ScopesInv
<1>2. /\ resolved = <<>> /\ Scopes!Fits(kind, parent)
      /\ nodes' = Append(nodes, node)
      /\ scopes' = scopes \o new
      /\ nodeToScope' = Append(nodeToScope, IF new = <<>> THEN around ELSE Len(scopes'))
      /\ definitions' = definitions \cup
           {Scopes!Definition(s, name, Len(nodes')) : s \in Scopes!Defines(kind, around, opened)}
      /\ resolved' = resolved
  BY DEF Scopes!Visit, OpenedScopes
<1>3. kind \in HereKinds \ {"program"}
  BY DEF KindsAssumption
<1>4. nodes[parent].kind \in OpenKinds
  <2>1. nodes[parent].kind \in HereKinds
    BY <1>1, TreeNodes
  <2>2. nodes[parent].kind # "class"
    BY <1>2, <1>3 DEF Scopes!Fits, HereKinds, OpenKinds
  <2> QED
    BY <1>2, <2>1, <2>2 DEF Scopes!Fits, HereKinds, OpenKinds, Scopes!Containers, Scopes!Functions
<1>5. around \in Nat /\ scopes \in Seq([type : ScopeTypes, upper : Nat]) /\ around \in DOMAIN scopes
  <2>1. around \in DOMAIN scopes
    BY <1>1 DEF Scoped
  <2>2. scopes \in Seq([type : ScopeTypes, upper : Nat])
    BY <1>1 DEF Scoped
  <2> QED
    BY <1>1, <2>1, <2>2, ScopesFit
<1>6. Grown(scopes, kind, around, scopes') /\ (new = <<>> <=> kind \notin Scopes!Containers)
  BY <1>2, <1>3, <1>5, ScopesGrow
<1>7. Tree(nodes')
  BY <1>1, <1>2, <1>3, <1>4, TreeGrows
<1>8. /\ Len(nodes') = N /\ DOMAIN nodes' = DOMAIN nodes \cup {N}
      /\ (\A n \in DOMAIN nodes : nodes'[n] = nodes[n]) /\ nodes'[N] = node
  <2> HIDE DEF node
  <2>1. nodes \in Seq([kind : HereKinds, name : Names \cup {Scopes!NoName}, parent : Nat])
    BY <1>1 DEF Tree
  <2> DEFINE S == [kind : HereKinds, name : Names \cup {Scopes!NoName}, parent : Nat]
  <2> HIDE DEF S
  <2>2. nodes \in Seq(S)
    BY <2>1 DEF S
  <2> QED
    BY <1>2, <2>2, Appended
<1> DEFINE inner == IF new = <<>> THEN around ELSE Len(scopes')
<1>9. inner \in Nat
  <2>1. Len(scopes') \in Nat
    BY <1>6 DEF Grown
  <2> QED
    BY <1>5, <2>1
<1>10. /\ nodeToScope' \in Seq(Nat) /\ Len(nodeToScope') = N /\ DOMAIN nodeToScope' = DOMAIN nodes'
       /\ (\A n \in DOMAIN nodes : nodeToScope'[n] = nodeToScope[n]) /\ nodeToScope'[N] = inner
  <2> HIDE DEF inner
  <2>1. nodeToScope' = Append(nodeToScope, inner)
    BY <1>2 DEF inner
  <2>2. DOMAIN nodes = 1..Len(nodes) /\ DOMAIN nodeToScope = 1..Len(nodeToScope)
    BY <1>1, TreeNodes
  <2>3. /\ nodeToScope' \in Seq(Nat) /\ Len(nodeToScope') = N
        /\ DOMAIN nodeToScope' = DOMAIN nodeToScope \cup {N}
        /\ (\A n \in DOMAIN nodeToScope : nodeToScope'[n] = nodeToScope[n]) /\ nodeToScope'[N] = inner
    BY <1>1, <1>9, <2>1, Appended
  <2> QED
    BY <1>1, <1>8, <2>2, <2>3
<1>11. Visits(nodes, scopes, nodeToScope, kind, name, parent, nodes', scopes', nodeToScope')
  BY <1>1, <1>3, <1>6, <1>7, <1>8, <1>10 DEF Visits
<1>12. Scoped(nodes', scopes', nodeToScope')
  BY <1>11, ScopedGrows
<1>13. Defined(nodes', nodeToScope', definitions')
  <2> DEFINE home == nodeToScope[NearestFrom(nodes, HomeKinds)[parent]]
             places == PlacesOf(kind, home, around, opened)
  <2>1. Scopes!VariableScope(around) = home
    BY <1>1, VarHome
  <2>2. Scopes!Defines(kind, around, opened) = places
    BY <2>1 DEF Scopes!Defines, PlacesOf
  <2>3. definitions' = definitions \cup {Scopes!Definition(s, name, N) : s \in places}
    BY <1>2, <1>8, <2>2
  <2> HIDE DEF home, places
  <2>4. home = nodeToScope[NearestFrom(nodes, HomeKinds)[parent]]
    BY DEF home
  <2>5. places = PlacesOf(kind, home, nodeToScope[parent], Len(scopes) + 1)
    BY DEF places
  <2>6. definitions' = definitions \cup {Scopes!Definition(s, name, Len(nodes) + 1) : s \in places}
    BY <2>3
  <2> QED
    BY <1>1, <1>11, <2>4, <2>5, <2>6, DefinedGrows
<1> QED
  BY <1>2, <1>7, <1>8, <1>10, <1>12, <1>13 DEF ScopesInv

LEMMA ScopesNextInv ==
  ASSUME KindsAssumption
  PROVE  ScopesInv /\ [Scopes!Next]_(Scopes!vars) => ScopesInv'
<1> SUFFICES ASSUME ScopesInv, [Scopes!Next]_(Scopes!vars) PROVE ScopesInv'
  OBVIOUS
<1>1. ASSUME NEW kind \in Kinds, NEW name \in Names \cup {Scopes!NoName}, NEW parent \in DOMAIN nodes,
             Scopes!Visit(kind, name, parent)
      PROVE  ScopesInv'
  BY <1>1, VisitKeepsInv
<1>2. \A s, x : UNCHANGED <<nodes, scopes, nodeToScope, definitions>> =>
        (Scopes!VariableByName(s, x))' = Scopes!VariableByName(s, x)
  BY DEF Scopes!VariableByName
<1>3. CASE Scopes!ResolveReferences
  <2>1. UNCHANGED <<nodes, scopes, nodeToScope, definitions>>
    BY <1>3 DEF Scopes!ResolveReferences
  <2>2. \A r \in DOMAIN nodes : nodes[r].kind \in Scopes!References =>
          resolved'[r] = Scopes!VariableByName(nodeToScope[r], nodes[r].name)
    BY <1>3 DEF Scopes!ResolveReferences
  <2> QED
    BY <1>2, <2>1, <2>2 DEF ScopesInv
<1>4. CASE UNCHANGED Scopes!vars
  <2>1. UNCHANGED <<nodes, scopes, nodeToScope, definitions, resolved>>
    BY <1>4, SMTT(30) DEF Scopes!vars
  <2> QED
    BY <1>2, <2>1 DEF ScopesInv
<1> QED
  BY <1>1, <1>3, <1>4 DEF Scopes!Next

(* Bindings.tla by itself and as a part of the instance say the same.      *)
LEMMA SameBindings == Scopes!BindsLikeTheLanguageHere => BindsLikeTheLanguageHere
BY DEF Scopes!BindsLikeTheLanguageHere, BindsLikeTheLanguageHere, Scopes!Definitions, Definitions,
       Scopes!Binding, Binding, Scopes!Reaches, Reaches, Scopes!Extents, Extents,
       Scopes!Nearest, Nearest, Scopes!Below, Below, Scopes!References, References,
       Scopes!Containers, Containers, Scopes!Functions, Functions

(* Of trees of any size and any number of names: the harness gives every   *)
(* reference the variable whose definitions are the declarations that the  *)
(* language binds it to, if the tree has no nodes of the kinds that the    *)
(* harness opens no scope for (for statements, static blocks, the          *)
(* discriminant of a switch, defaults of parameters).                      *)
THEOREM NamesAreBound ==
  ASSUME KindsAssumption
  PROVE  Scopes!Spec => []BindsLikeTheLanguageHere
<1>1. ScopesInv => BindsLikeTheLanguageHere
  BY ScopesInvIsRight, SameBindings
<1>2. ScopesInv /\ [Scopes!Next]_(Scopes!vars) => ScopesInv'
  BY ScopesNextInv
<1> QED
  BY <1>1, <1>2, ScopesInitInv, PTL DEF Scopes!Spec
=============================================================================
