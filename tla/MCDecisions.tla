---------------------------- MODULE MCDecisions -----------------------------
(***************************************************************************)
(* Components without concurrency with each other, each on its own: a      *)
(* behaviour is about one of them, its subject. They share one run because *)
(* each is a state space of moderate size.                                 *)
(***************************************************************************)
EXTENDS
  ReleaseNotes, DisabledAreas, LocalComponents, LanguageServers, PairDecisions, ConstantTests,
  Bindings, SequencesExt, TLC

VARIABLES
  subject,      \* the component this behaviour is about
  projectRootCache, fileIndexCache, fileTextCache, definition, discovery,
  old, new, row, column, operations, scan, regions, phase,
  tsgoStep, reads, scanned, writes,
  scopes, nodeToScope,
  operators, entered, jumps, reach, exit,
  items, upper, place, lintPhase, checked, generated, fixes, passes, bound, crossed

tablesVars ==
  <<judgment, scoredRelations>>
directivesVars ==
  <<comments, areas, duplicates, unused, related>>
discoveryVars ==
  <<manifests, content, projectRootCache, fileIndexCache, fileTextCache, linting, definition,
    identifiers, discovery, verdict, edited, outdated>>
diffVars ==
  <<old, new, row, column, operations, scan, regions, phase>>
tsgoVars ==
  <<files, dryRun, tsgoStep, reads, skipped, scanned, writes, changed, tsgoStatus, original>>
scopesVars ==
  <<nodes, scopes, nodeToScope, definitions, resolved>>
conditionsVars ==
  <<operands, operators, conditionVerdict, blocks, entered, jumps, reach, exit, left, overridden>>
namesVars ==
  <<items, upper, place, lintPhase, checked, generated, fixes, passes, bound, crossed>>

Unused == "unused"
Symmetry == Permutations(Notes)

(* Directives: two rules, so that one can be closed while the other stays  *)
(* open; lists that name no rule, one, and both with a repetition.         *)
DirectiveIds == {"foo", "bar"}
DirectiveLists == { <<All>>, <<"foo">>, <<"foo", "bar", "foo">> }

(* PairDecisions: a level below both thresholds, one between, one above. *)
MCThresholds == [accept |-> 2, review |-> 1]

(* LocalComponents: a project within another one. *)
MCParent == <<0, 1>>
MCDirectoryOf == [f \in {"portal", "innerPortal", "caller"} |-> IF f = "portal" THEN 1 ELSE 2]

(* ReleaseNotes, the module that this one extends: command lines with and  *)
(* without targets and tags.                                               *)
MCOptions ==
  { [dryRun |-> d, yes |-> y, wanted |-> w[1], requested |-> w[2]] :
      d, y \in BOOLEAN,
      w \in { <<{"documentation", "github"}, {}>>, <<{"documentation"}, {1}>>,
              <<{"github"}, {1, 2}>>, <<{}, {2}>> } }

(* Abbreviations: two words for a third, one of them also for the other.   *)
WordReplacements ==
  [cur |-> <<"current">>, curr |-> <<"cur", "current">>, current |-> <<>>]

(* HarnessScopes: all kinds but those the harness has no scopes for: a for *)
(* statement, a static block, a discriminant, a default of a parameter.    *)
ScopeKinds ==
  {"function", "functionExpression", "arrow", "block", "switch", "catch", "class", "let", "var",
   "param", "use"}

(* DisableTsgo: every list of two servers, a language list, tsgo named     *)
(* outside the lists only, and a text that is not settings.                *)
ServerLists == BoundedSeq({"tsgo", "!tsgo", "vtsls", "!vtsls", "...", "other"}, 2)
TsgoSettings ==
  [lists : { <<list>> : list \in ServerLists } \cup { << <<"tsgo">>, <<"...", "!vtsls">> >> },
   elsewhere : {FALSE}, valid : {TRUE}]
  \cup [lists : { <<>>, << <<"!vtsls">> >> }, elsewhere : {TRUE}, valid : {TRUE}]
  \cup [lists : { << <<"tsgo">> >> }, elsewhere : {FALSE}, valid : {FALSE}]

Tables == INSTANCE RelationTables WITH
    Rules <- 1..4, Strengths <- 2..3, Top <- 2, MaxScored <- 3
Areas == INSTANCE Directives WITH
    RuleIds <- DirectiveIds, IdLists <- DirectiveLists, MaxLine <- 3, MaxComments <- 4
Discovery == INSTANCE ComponentDiscovery WITH OtherFiles <- {"caller"}
Diff == INSTANCE LineDiff WITH Lines <- {"a", "b"}, MaxLines <- 5, Context <- 1
Tsgo == INSTANCE DisableTsgo WITH
    Settings <- TsgoSettings, step <- tsgoStep
Scopes == INSTANCE HarnessScopes WITH
    Names <- {"x"}, MaxNodes <- 5, Kinds <- ScopeKinds
Conditions == INSTANCE ConstantConditions WITH
    MaxOperands <- 3, MaxOperators <- 2, MaxStatements <- 2, MaxJumps <- 2
Abbreviations == INSTANCE Abbreviations WITH
    Words <- {"cur", "curr", "current"}, NameReplacements <- WordReplacements,
    Kinds <- {"let", "export", "class"}, MaxItems <- 3, MaxScopes <- 3, MaxPasses <- 4,
    phase <- lintPhase

(* The variables of the other components rest or have no value. *)
NoRelease ==
  Init /\ localTags = Tags /\ documentation = [t \in Tags |-> Missing]
  /\ releases = [t \in Tags |-> Missing]
NoTables ==
  judgment = [d \in Dimensions |-> 0] /\ scoredRelations = {}
NoAreas ==
  comments = <<>> /\ areas = <<>> /\ duplicates = {} /\ unused = {} /\ related = <<>>
NoDiscovery ==
  manifests = {} /\ content = [f \in ComponentFiles |-> Nothing] /\ linting = Nothing
  /\ identifiers = {} /\ verdict = Nothing /\ edited = FALSE /\ outdated = FALSE
  /\ projectRootCache = Unused /\ fileIndexCache = Unused /\ fileTextCache = Unused
  /\ definition = Unused /\ discovery = Unused
NoDiff ==
  old = Unused /\ new = Unused /\ row = Unused /\ column = Unused /\ operations = Unused
  /\ scan = Unused /\ regions = Unused /\ phase = Unused
NoTsgo ==
  files = Unused /\ dryRun = Unused /\ tsgoStep = Unused /\ scanned = Unused
  /\ reads = Unused /\ skipped = Unused
  /\ writes = Unused /\ changed = Unused /\ tsgoStatus = Unused /\ original = Unused
NoScopes ==
  nodes = <<>> /\ definitions = {} /\ resolved = <<>>
  /\ scopes = Unused /\ nodeToScope = Unused
NoConditions ==
  operands = <<>> /\ conditionVerdict = "none" /\ blocks = <<>> /\ left = {} /\ overridden = FALSE
  /\ operators = Unused /\ entered = Unused /\ jumps = Unused /\ reach = Unused /\ exit = Unused
NoAbbreviations ==
  items = Unused /\ upper = Unused /\ place = Unused /\ lintPhase = Unused
  /\ checked = Unused /\ generated = Unused /\ fixes = Unused /\ passes = Unused
  /\ bound = Unused /\ crossed = Unused

EveryInit ==
  \/ /\ subject = "tables" /\ Tables!Init
     /\ NoAreas /\ NoDiscovery /\ NoRelease /\ NoDiff /\ NoTsgo /\ NoScopes /\ NoConditions
     /\ NoAbbreviations
  \/ /\ subject = "directives" /\ Areas!Init
     /\ NoTables /\ NoDiscovery /\ NoRelease /\ NoDiff /\ NoTsgo /\ NoScopes /\ NoConditions
     /\ NoAbbreviations
  \/ /\ subject = "discovery" /\ Discovery!Init
     /\ NoTables /\ NoAreas /\ NoRelease /\ NoDiff /\ NoTsgo /\ NoScopes /\ NoConditions
     /\ NoAbbreviations
  \/ /\ subject = "release" /\ Init
     /\ NoTables /\ NoAreas /\ NoDiscovery /\ NoDiff /\ NoTsgo /\ NoScopes /\ NoConditions
     /\ NoAbbreviations
  \/ /\ subject = "diff" /\ Diff!Init
     /\ NoTables /\ NoAreas /\ NoDiscovery /\ NoRelease /\ NoTsgo /\ NoScopes
     /\ NoConditions /\ NoAbbreviations
  \/ /\ subject = "tsgo" /\ Tsgo!Init
     /\ NoTables /\ NoAreas /\ NoDiscovery /\ NoRelease /\ NoDiff /\ NoScopes
     /\ NoConditions /\ NoAbbreviations
  \/ /\ subject = "scopes" /\ Scopes!Init
     /\ NoTables /\ NoAreas /\ NoDiscovery /\ NoRelease /\ NoDiff /\ NoTsgo /\ NoConditions
     /\ NoAbbreviations
  \/ /\ subject = "conditions" /\ Conditions!Init
     /\ NoTables /\ NoAreas /\ NoDiscovery /\ NoRelease /\ NoDiff /\ NoTsgo /\ NoScopes
     /\ NoAbbreviations
  \/ /\ subject = "names" /\ Abbreviations!Init
     /\ NoTables /\ NoAreas /\ NoDiscovery /\ NoRelease /\ NoDiff /\ NoTsgo /\ NoScopes
     /\ NoConditions

NextTables ==
  /\ subject = "tables" /\ Tables!Next
  /\ UNCHANGED <<subject, directivesVars, discoveryVars, vars, diffVars, tsgoVars, scopesVars,
      conditionsVars, namesVars>>
NextAreas ==
  /\ subject = "directives" /\ Areas!Next
  /\ UNCHANGED <<subject, tablesVars, discoveryVars, vars, diffVars, tsgoVars, scopesVars,
      conditionsVars, namesVars>>
NextDiscovery ==
  /\ subject = "discovery" /\ Discovery!Next
  /\ UNCHANGED <<subject, tablesVars, directivesVars, vars, diffVars, tsgoVars, scopesVars,
      conditionsVars, namesVars>>
NextRelease ==
  /\ subject = "release" /\ Next
  /\ UNCHANGED <<subject, tablesVars, directivesVars, discoveryVars, diffVars, tsgoVars, scopesVars,
      conditionsVars, namesVars>>
NextDiff ==
  /\ subject = "diff" /\ Diff!Next
  /\ UNCHANGED <<subject, tablesVars, directivesVars, discoveryVars, vars, tsgoVars, scopesVars,
      conditionsVars, namesVars>>
NextTsgo ==
  /\ subject = "tsgo" /\ Tsgo!Next
  /\ UNCHANGED <<subject, tablesVars, directivesVars, discoveryVars, vars, diffVars, scopesVars,
      conditionsVars, namesVars>>
NextScopes ==
  /\ subject = "scopes" /\ Scopes!Next
  /\ UNCHANGED <<subject, tablesVars, directivesVars, discoveryVars, vars, diffVars, tsgoVars,
      conditionsVars, namesVars>>
NextConditions ==
  /\ subject = "conditions" /\ Conditions!Next
  /\ UNCHANGED <<subject, tablesVars, directivesVars, discoveryVars, vars, diffVars, tsgoVars,
      scopesVars, namesVars>>
NextAbbreviations ==
  /\ subject = "names" /\ Abbreviations!Next
  /\ UNCHANGED <<subject, tablesVars, directivesVars, discoveryVars, vars, diffVars, tsgoVars,
      scopesVars, conditionsVars>>
EveryNext ==
  NextTables \/ NextAreas \/ NextDiscovery \/ NextRelease \/ NextDiff \/ NextTsgo
  \/ NextScopes \/ NextConditions \/ NextAbbreviations

everyVars ==
  <<subject, tablesVars, directivesVars, discoveryVars, vars, diffVars, tsgoVars, scopesVars,
    conditionsVars, namesVars>>
EverySpec == EveryInit /\ [][EveryNext]_everyVars
RenamingSpec == (EveryInit /\ subject = "names") /\ [][EveryNext]_everyVars

-----------------------------------------------------------------------------
(* Values have their types, in every component. *)
EveryTypeOK ==
  /\ subject = "directives" => Areas!TypeOK
  /\ subject = "discovery" => Discovery!TypeOK
  /\ subject = "release" => TypeOK
  /\ subject = "diff" => Diff!TypeOK
  /\ subject = "tsgo" => Tsgo!TypeOK
  /\ subject = "scopes" => Scopes!TypeOK
  /\ subject = "conditions" => Conditions!TypeOK
  /\ subject = "names" => Abbreviations!TypeOK

(* formatDiff: the operations are a shortest diff of the texts, and        *)
(* applying the hunks gives the new text.                                  *)
DiffIsRight == subject = "diff" => Diff!DiffIsRight

(* prevent-abbreviations: renamed or not, a use names the variable it      *)
(* named before.                                                           *)
RenamesKeepBindings == subject = "names" => Abbreviations!RenamesKeepBindings

(* prevent-abbreviations: "the rule can rename it for you everywhere it's  *)
(* used", which RenamingSpec refutes for the name of a class.              *)
RenamedEverywhere == subject = "names" => Abbreviations!RenamedEverywhere
=============================================================================
