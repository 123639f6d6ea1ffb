# Verification of small-rules

TLA+ specifications of `small-rules`, the TLC runs that check them on small
instances, and TLAPS proofs about the parts whose correctness matters for any
size. `small-rules` is an Oxlint plug-in (about 120 lint rules for React,
Roblox TypeScript and general code), its documentation site, and the scripts
that maintain both.

    tlc -workers 2 -config MCJudgments.cfg MCJudgments    # any run below
    tlapm JudgmentsProofs.tla                             # any *Proofs module

Paths below are relative to the repository's root.

## 1. Inventory

### 1.1 The relation generator

`scripts/regenerate-relations.ts` writes the "related rules" data of the
documentation site. It is the one part of the repository that is concurrent,
persistent and failing all at once: it calls a paid model over HTTP for every
pair of rules.

| Part | State | Operations |
| --- | --- | --- |
| judging phase, `rule-relations/run.ts` `judgeRulePairsAsync` | the map `judgments`, `pendingBySource`, the counter `completed` | register a pair, send all requests at once, store a batch |
| caches, `cache.ts` | one JSON file per key under `.cache/rule-relations/` | load (unreadable reads as absent), save (in place) |
| decisions, `resolve.ts` | none | resolve a pair, cap relations per rule |
| reasons, `run.ts`, `reasons.ts` | the reason cache, outcomes in flight | write a reason, validate it |
| check, `validate.ts` | none | refuse a document and its overrides |
| report, `review.ts`, `evaluation.ts` | none | compare with pins, denials and the previous document |
| the script | `generated/rule-relations.json`, `.review.json` | read, regenerate, check, write document, write report |
| site data, `documentation/src/data/rule-relations.ts` | none | parse, merge pins and denials |

*Interaction.* The script reads the document of the previous run, calls
`regenerateRelationsAsync` (judging, resolving, capping, reasons), checks the
result against the overrides, and writes two files. The next run reads the
document and the caches; the site reads the document and the overrides.

*Hard.* `Promise.all` rejects on the first failure while the siblings go on
and write to the cache; requests settle in any order; files may be cut short;
a run may die between any two steps, between the two output files included;
cards change between runs; edges of pairs that are not judged again compete
with fresh ones for places under the cap; the cap is applied before reasons
are validated and before pins are merged.

*Correct means.* Nothing is paid for twice, nothing paid for is lost, a
completed run has a verdict for every pair and can be repeated offline;
progress is exact; the published document obeys the cap and is described
exactly by its report; restarting converges.

### 1.2 The lint rules

Oxlint walks the syntax tree of a file and calls a rule's handlers on entering
and leaving nodes. Most rules decide from one node. The ones that keep state
between nodes, files or passes are state machines over inputs nobody
enumerates in tests:

| Part | State | Operations |
| --- | --- | --- |
| `use-hook-at-top-level` | context stack, function-name stack, current name, import map | enter/exit function, enter/exit control flow, return, import, call |
| directive comments, `directive-comments.ts`, and four rules | disabled areas, duplicates, unused enables, related counts | disable, enable, disable-line, disable-next-line |
| `require-paired-calls` | opener stack, snapshots per branch, function stack | enter/exit of every control-flow node, call, return, throw |
| `no-recursive` | function and class stacks, call graph | register functions, methods and calls; search for cycles at the end of the file |
| `no-dead-store` | usages of a variable with their branches | collect; decide which writes nothing observes |
| `no-async-in-system` | systems, functions that run with them, visited initializers | discover systems, follow returns and synchronous callbacks, classify receivers |
| `no-events-in-events-callback` | function stack; per callback, the names that hold the player or a container of it | track imports and callbacks, mark assigned names, classify the first argument of an event |
| `local-component-discovery.ts`, `prefer-local-portal-component` | process-wide caches of roots, indexes and texts | find the project, list its files, read them, decide a call |
| `use-exhaustive-dependencies` | captures, dependencies | compare, report, fix; lint again |
| `no-constant-condition-with-break` | none kept | fold a test to a truth value, search a loop's body for a way out |
| `prevent-abbreviations` | names generated in this pass, per scope | choose a name, check that it is free, rename; lint again |

*Hard.* Balance of pushes and pops over any nesting; flags standing for
nested constructs; areas closed by several comments at once; jumps that leave
the text order; caches that outlive the files they describe; fixes of one pass
that know nothing of each other, and passes that undo each other.

*Correct means.* A state that follows the walk, no report without a cause, no
cause without a report, no fix that changes what the program does, and an end
of fixing.

### 1.3 Scripts and tools

| Part | State | Operations |
| --- | --- | --- |
| `scripts/regenerate-release-notes.ts` with `tools/release-notes` | documentation files, releases on GitHub, tags | choose tags and targets, fetch, generate, save to each target, report |
| `scripts/disable-tsgo.ts` | settings files | scan, rewrite lists of language servers, write all at once; in a dry run print a diff |
| `tools/rule-harness/src/scope.ts` | scopes, variables, references | declare on the way down, resolve afterwards |

*Hard.* One of several saves failing, a kill between the saves, edits by
others in between; a diff whose hunks must carry correct line numbers;
hoisting, catch and class scopes.

*Correct means.* The summary says what happened to each target; a doubt never
publishes; the printed diff is a shortest one and applies; the harness binds
names as the language does.

### 1.4 Not modelled

Rule cards, rendering and usage totals; the remaining rules, most of which
decide from one node; version inference of tsgolint (one cache that nothing
invalidates and nothing else reads); support utilities beyond what modelled
rules call; the plug-in's table of rules; the other scripts, tools and
packages; the site's pages, CI and editor plug-ins. `PROJECT.json` lists each
with its reason. HTTP, git, `communique`, the file system, the process and the
walk are external: their outcomes are actions.

## 2. Modules

| Module | Models | Uses |
| --- | --- | --- |
| `JudgmentLedger` | what the judging phase promises: a ledger of verdicts, each for the cards it was made from, delivered whole or not at all | |
| `Judgments` | `judgeRulePairsAsync` and the judgment cache over several runs | `JudgmentLedger` (refinement) |
| `RelationRules` | resolve, cap, parse, merge, check, compare, evaluate, report, as operators | community modules |
| `PairDecisions` | a judgment and a set of scored relations, and what resolving and capping should make of them | `RelationRules` |
| `RelationTables` | these inputs as a state space | `PairDecisions` |
| `Regeneration` | the script around the judging phase, over several runs | `RelationRules` |
| `HookPlacement` | the walk around a hook call, where a call is misplaced, and what `use-hook-at-top-level` should say of it | |
| `HookTopLevel` | `use-hook-at-top-level` and the walk | `HookPlacement` |
| `DisabledAreas` | a file with directive comments, and what its areas and reports should be | |
| `Directives` | `computeDisabledArea` and the reports of four rules | `DisabledAreas` |
| `PairedCalls` | `require-paired-calls`, the walk, and the executions of what is walked | |
| `CallCycles` | a file's call graph and what should be reported of its cycles | |
| `Recursion` | `no-recursive`: the walk, then its depth-first search | `CallCycles` |
| `DeadStores` | `no-dead-store` on one variable, and the executions | |
| `AsyncSystems` | `no-async-in-system`, and a scheduler that runs the systems | |
| `SentEvents` | the executions of an event callback, what `no-events-in-events-callback` knows of them, and what it should report | |
| `EventsCallbacks` | that rule and the walk | `SentEvents` |
| `ExhaustiveDependencies` | `use-exhaustive-dependencies` on one hook call, over passes of the linter | |
| `LocalComponents` | a project that is edited, and when a finding in it is wrong | |
| `ComponentDiscovery` | the caches and `prefer-local-portal-component` in that project | `LocalComponents` |
| `ConstantTests` | tests and the open statements of a body, and what should be said of them | |
| `ConstantConditions` | `no-constant-condition-with-break`, and what tests and bodies mean | `ConstantTests` |
| `Abbreviations` | `prevent-abbreviations` on a file's variables, over passes of the linter | |
| `ReleaseNotes` | `regenerate-release-notes.ts` over several runs | |
| `LanguageServers` | settings files, and what `disable-tsgo.ts` should make of them | |
| `DisableTsgo` | a run of `disable-tsgo.ts` | `LanguageServers` |
| `LineDiff` | its `formatDiff` | |
| `Bindings` | a program's names, what the language binds them to, and what the harness should find | |
| `HarnessScopes` | `rule-harness/src/scope.ts` | `Bindings` |
| `JudgmentsProofs`, `RegenerationProofs`, `HookTopLevelProofs`, `DirectivesProofs`, `RecursionProofs`, `PairedCallsProofs` | theorems about the module of that name; `RegenerationProofs` also about `RelationRules` and `RelationTables` | TLAPS |
| `WalksProofs` | theorems about `ExhaustiveDependencies` and `EventsCallbacks` | TLAPS |
| `DecisionsProofs` | theorems about `ReleaseNotes`, `ComponentDiscovery`, `DisableTsgo`, `ConstantConditions` and `HarnessScopes` | TLAPS |
| `MCWalks` | the rules that are a walk and an answer, one per behaviour | six of the above |
| `MCDecisions` | the parts without concurrency with each other, one per behaviour | nine of the above |
| other `MC*` | constants of one run | |

Parts that do not interact share a run: in `MCWalks` and `MCDecisions` a
variable `subject` names the part a behaviour is about. Most parts are taken
with INSTANCE; their variables have the value `Unused` while they are not the
subject, and a property says `subject = ... =>` the part's own property. The
parts with theorems are taken so that the run checks the very definition that
the theorem states: `MCWalks` EXTENDS `ExhaustiveDependencies`, `HookPlacement`,
`CallCycles` and `SentEvents`, `MCDecisions` EXTENDS `ReleaseNotes`,
`DisabledAreas`, `LocalComponents`, `LanguageServers`, `PairDecisions`,
`ConstantTests` and `Bindings`. The small modules among them hold what a part's properties speak of; the walk, the
script or the enumeration of inputs is instantiated on top. While such a part is
not the subject, its variables stay at values of which the properties say
nothing.

`Regeneration` does not repeat the judging phase: a run that completes holds
the ledger's verdict for every pair, and verdicts change only with the cards,
which is what `Judgments` is proved to implement.

A rule is judged against the program, never against itself: the module keeps,
beside the rule's own variables, what the rule cannot see (executions, bindings,
the call graph, the file system as it is), and the properties compare the two.
Where the rule is known to differ from the program, a named mark or exception
says so, in the module's own words and in section 3.

### 2.1 Judgments

*State.* `judgments`, `pending`, `completed` are the code's variables;
`inflight` is the set of promises not settled; `phase` says where the script
is; `cache` is the directory, a file per key, absent (`Unknown`), `Torn` or a
verdict; `cards` are the rule cards, `NoCard` where `getRuleCard` throws.

*Actions.* `Start` is the synchronous part of `judgeRulePairsAsync` up to the
first await (registration, cache look-ups, grouping by source, chunking).
`Answer(r)`, `Refuse(r)` and `StoreFails(r)` are the continuation of one
request: every statement after the await runs in one turn of the event loop,
so each is one step. `StoreFails` stops inside the batch, before one
candidate's file is complete. After a failure (`phase = "failing"`) siblings
continue. `Complete` is `await Promise.all`, `Exit` the end of the process,
`Kill` an interruption, `EditCard` a change of sources between runs.

The position of a candidate in its source's list decides its chunk: `Request`
computes it from the order of registration.

### 2.2 RelationRules and RelationTables

Operators for the pure functions. Probabilities are whole numbers compared
with thresholds, as the code only compares them. `applyRelationCap` sorts the
relations and walks them from the strongest on; `ApplyCap` says the same from
the other end, as a fold over the set that comes to the weakest relation last,
which is a form that can be reasoned about. `Placed` keeps the detail that of two pins for one
pair the last replaces a generated relation but the first is placed when there
is none. `PairDecisions` holds a judgment and a set of scored relations with
their properties, `RelationTables` turns these inputs into states: a judgment is raised one
level at a time, a relation is added at a time, so that monotonicity is an
action property.

### 2.3 Regeneration

`Judge` is everything between the judgments and the first await of a reason;
`WriteReason` and `ReasonFails` are one writer's continuation; `Assemble` is
the rest of `regenerateRelationsAsync`, whose outcome is `Assembled`, and the
check; `WriteDocument` and
`WriteReport` are the two writes. A document on disk carries the number of the
run that wrote it, a report also the document that run had found; only
properties read them.

### 2.4 HookTopLevel

`path` is the chain of open nodes and belongs to the walk (`HookPlacement`). The rule's
variables have their names in the code; its actions are the visitor's keys.
Properties compare the rule's answer with what the path says (`Misplaced`).
`Advance` moves from a conditional's test to its branch or from a try block to
its finally block; no handler runs there, which is where several findings come
from.

### 2.5 Directives

One action per directive kind; `comments` is the file so far and belongs to
the file. `Opened`, `Closed`, `Idle`, `Repeated` and `RelatedDirectives` state
what the loops of `disable` and `enable` compute over a whole list of rules;
the properties compare the areas with definitions over the complete file.

### 2.6 PairedCalls

*State.* The rule's variables have their names in the code. An entry of
`openerStack` is its index, its opener and its `loopAncestors`; `index` is what
the code compares when it merges. The code appends entries with growing indices
and otherwise only filters a stack, splices one entry out or goes back to an
earlier stack, so every stack is in the order of its indices: here it is the set
of its entries, and "last" is the greatest index. A context is reduced to
`inFinally`, the only flag that is read. `path` is the chain of open nodes and
belongs to the walk. A node has an id and the number of functions around it
(`depth`), which tells the nodes of the innermost function from those outside
(`Within`); it remembers the executions and the stack before it. That stack is a
ghost: `WalkInv` in the proofs says it is what the rule's own snapshot holds.
`live` belongs to the program: one element per execution that reaches this
place, with the calls it has open and, inside a finally block, where it goes
afterwards. A jump hands its executions to the node that stops them
(`Deliver`), which gives them back when the walk leaves that node.

*Actions.* One per handler, or per pair of handlers that run back to back:
`ExitIf` includes the exit of the last branch, `NextPart` the exit of one part
of a try statement and the entry of the next. `BeginCase` moves only the walk;
no handler runs there.

*Marks.* For each open function `account` collects what happened in it, and
`verdict` holds the marks of the function that was just left: the rule has
`warned`, it has reported that the function `yielded` (which is no warning of a
leak), an execution was `wrong` or has `leaked`. Two marks name the places where the rule is known to differ
from the executions, so that the properties can say that it differs nowhere
else.

`irregular`, where it may miss a leak:

- a case, a try block, a catch clause or a finally block ends with a call open
  that it opened (the stack is restored, nothing is reported; a finally block
  keeps its stack);
- a loop closes what was opened before it, or yields with it open (the rule never
  merges a body that may run zero times);
- a yield (`Dropped`): the rule reports it for one entry, the first of platform
  `roblox`, and then empties the whole stack. The platform closes its own calls;
  the open calls of other pairs are dropped without a word;
- a finally block returns or throws;
- a break leaves a case from inside another statement.

`beyond`, where it may warn without a leak:

- early exits and loop control, which are judged by the stack at that place,
  after which the branch counts as if it went on;
- branches that close different calls, which a closer both calls share may
  make up for;
- a case that falls through, whose open calls the next case does not see;
- an if that opens the same call in both branches, or closes one and opens
  another;
- a try statement with a finally block that closes in the other parts: its
  branches are dropped and never merged.

### 2.7 Recursion

`path` is the chain of open nodes; `functionStack`, `classStack`,
`classMethods`, `registered`, `callees`, `callSites` are the rule's. Calls in a
callback belong to the named function around it. At the end of the file the
search has one action per turn of the recursive function's loop (`VisitWhite`,
`VisitGray`, `VisitOther`), and one per return (`Finish`). `calls` is the true
call graph; `unseen` holds the calls the rule cannot see: of a method declared
further down in the class, and by the inner name of a function expression. The
rule takes every `this.m()` in a class for a call of the method `m`, whichever
function's `this` that is; the calls that are none, in a function expression, a
static method or with a computed name, are `misread`, and whether a `this.m()`
is one is open (`ThisCall`) unless a function expression shows that it is. What
a function reaches (`Reached`) is said by closed sets: whatever is in every set
of functions that holds its callees and is closed under calls.

### 2.8 DeadStores

One action per kind of usage and of statement. The walk keeps two things: the
`usages` in text order, each with the branches it is in, which is all the rule
has; and `reach`, the writes whose value may be held here, each with the
destination of a jump that is under way. `observed` holds the writes that some
execution reads, `updated` those that an update in a later iteration reads, and
`missed` those that are read past something the rule does not follow: a jump
past the rest of a statement, an exception out of a try block, a case that falls
through. `Program` is the code's decision at the end of the file, with
`isGuaranteedOverwrite` and its helpers as operators over `usages`.

### 2.9 AsyncSystems

A file is a record of constants: which function is a system, how, what it
returns and passes on, and where the receiver's type comes from. `ProgramExit`
is the handler as a whole; afterwards a scheduler calls the systems, the
functions they return and the callbacks they hand to synchronous callees, one
call or return per action, and notes which calls yielded.

### 2.10 ExhaustiveDependencies

`closure` is the sequence of uses in the callback; `Captures`, `Missing`,
`Unnecessary` are what the rule computes of it and of the array; a pass is
`Lint`, then the fix of one report (`Fix`), which replaces the whole array.
`settled` is a pass without a fix.

### 2.11 ComponentDiscovery

The disk is the set of directories with a manifest, and what each component
file holds. `Root`, `Index` and `Text` answer from the caches or, where these
are empty, from the disk; an action that asks fills them. A lint is
`CreateRule`, `ImportDeclaration`, then the call (`CallAvailable`,
`CallDiscovers`) and `EndLint`; `Edit` changes the disk between any two.
`outdated` records that the caches differed from the disk during a finding.

### 2.12 EventsCallbacks

`functionStack` with its depth and its two sets of names is the rule's; inside a
callback's own body, and not in functions within it, declarations and
assignments add names to the sets. `envs` are the values that the variables may
have at this place of the walk, each a combination that some execution has:
the branch of an `if` and a function written here run or do not (`Joined`), a
callback starts afresh with the player in its first parameter. `held` has no
forgetting: it joins every value a variable was ever given. The property
compares the rule's answer for each expression at each place with both.

### 2.13 ReleaseNotes

One action per await: credentials, tags, targets, fetch, confirmation, then per
tag `Generate`, `ReadDocumentation`, `WriteDocumentation`, `GetRelease`,
`UpdateRelease`. Each may fail as the command or request it stands for may; a
page that cannot be read, for whatever reason, counts for the code as one that
is missing (`readOptionalFileAsync`), and `unread` holds the tags of such pages.
`Kill` and `Edit` come between any two. `before` and `touched` remember what a target held when the run
met the tag, and whether somebody else has written it since.

### 2.14 DisableTsgo and LineDiff

A settings file is a record: its `lists`, whether `"tsgo"` stands `elsewhere` in
its text (the code looks for it in the text as a whole), and whether it is
`valid`. All reads are under way at once, one step per file (`Read`). One that
fails (`skipped`) is passed over in silence, as is a file that is not valid or
does not name tsgo; if nothing is left, the run says that it found nothing
(`FindNothing`). All writes are then under way at once, and each may fail alone. `LineDiff` walks the
table of common subsequences backwards and the operations forwards, one step
per turn of each loop, and then has the hunks. `DiffIsRight` patches the old
text with the hunks and compares the number of changed lines with the least
possible one (`DiffIsShortest`, `PatchApplies`).

### 2.15 HarnessScopes

The tree is built in the order of the visits; each visit opens scopes and
defines variables as `scope.ts` does, and references are resolved afterwards.
The reference definition, `Binding` of `Bindings`, says where the language looks a name up:
blocks, function bodies, `var` at its function, the inner name of a function
expression, the parameter of a catch clause. A class opens its own scope as in
the harness, but holds nothing except a static block (`Fits`), which the
harness does not scope: how a name is looked up from inside a class is not
checked.

### 2.16 ConstantConditions

Expressions are built bottom up on a stack of operands, each with what the rule
computes of it and its value in every environment. For a loop the body is then
walked, statement by statement, with `exit` for `hasLoopExit` so far and `reach`
for the executions. A statement that nothing reaches is not written
(`InCode`). Marks: `unsound` (the boolean rests on one of two known
misreadings, see section 3) and `overridden` (a finally block has replaced a
jump that was leaving the loop).

### 2.17 Abbreviations

A file is a sequence of declarations and uses. A pass checks the variables in
the code's order, generates a name, adds underscores until it is safe where the
variable is used and declared, and applies the fixes that do not overlap;
`generated` is the rule's record of names of this pass. `bound` holds what each
use named at first.

## 3. Runs

Passing runs:

| Run | Bounds | Shows |
| --- | --- | --- |
| `judgments` | 3 pairs in 4 entries (one reversed, one repeated), batches of 2, 3 runs, 1 edit, 1 fault | no verdict lost, changed or asked for again; exact progress; refinement of the ledger; restarts converge and runs end |
| `regeneration` | 3 rules, 3 pairs, cap 1, one pin, one denial, 2 runs, 1 edit, 1 fault | document and report describe each other and the overrides; something is published |
| `paired_calls` | one pair with platform roblox: 3 nodes, 2 openings, 2 cases; two pairs that share a closer: 2 nodes, 3 openings, 1 case | outside the named gaps the rule warns of an open call in a function if an execution leaks, and only if one leaks or errs |
| `walks` | six parts, below | each rule's reports against the program it walks |
| `decisions` | nine parts, below | each part's answers against a definition of what they should be |

The parts of `walks`:

| Part | Bounds | Properties |
| --- | --- | --- |
| `HookTopLevel` | depth 4, 3 functions, 2 of each construct per function, one import, one namespace | `EveryReportJustified`, `EveryMisplacedReported` |
| `Recursion` | 3 names (a symmetric set), 3 nodes, 4 calls | `RecursionIsReported` |
| `DeadStores` | 5 shapes of function: every kind of statement beside an if or a loop, every kind of write in a loop, ifs with one usage more | `ReportsAreDead` |
| `AsyncSystems` | 3 functions | `OnlyReportedYield` |
| `EventsCallbacks` | 2 variables, 4 functions, ifs, declarations and assignments together | `SentBackIsReported` |
| `ExhaustiveDependencies` | 2 variables, 2 uses, 2 dependencies, 6 passes | `FixesSettle`, `SettledNamesAll` |

The parts of `decisions`:

| Part | Bounds | Properties |
| --- | --- | --- |
| `RelationTables` | 4 rules, cap 1, up to 3 scored relations of 3 levels; 7 dimensions of 3 levels | `ScoredCapIsGreedy`, `DoubtNeverPublishes` |
| `Directives` | 3 lines of 2 columns, 4 comments, 2 rules | `AreasAreExact`, `BlockDuplicatesRedundant`, `EnableReportsAreExact` |
| `ComponentDiscovery` | 2 nested directories, 2 component files, 1 caller | `WrongOnlyIfOutdated` |
| `ReleaseNotes` | 2 tags, 2 notes (a symmetric set), 1 run, 1 edit, 16 command lines | `OutcomesHold`, `ReportsAreTrue` |
| `LineDiff` | texts of up to 5 lines with 2 values, context 1 | `DiffIsRight` |
| `DisableTsgo` | 2 files, lists of up to 2 of 6 servers | `VtslsTakesOver` |
| `HarnessScopes` | 1 name, trees of 5 nodes of 11 kinds | `BindsLikeTheLanguageHere` |
| `ConstantConditions` | 3 operands, 2 operators; 2 statements, 2 jumps | `TestsAreJudged` |
| `Abbreviations` | 3 words (`cur` becomes `current`, `curr` becomes `cur` or `current`), 3 items, 3 scopes, 4 passes | `RenamesKeepBindings` |

`EveryTypeOK` is the type invariant of all parts of a run.

Why the bounds are enough. *Judgments*: one source with three candidates has a
full and a short batch, two requests race, a fault in one leaves the other to
finish, later runs meet its files, and an edit moves keys in between; the
proofs remove the bounds. *Regeneration*: with one place per rule any two
relations of three rules compete; a run over one pair leaves edges of the
first; one fault reaches every crash point; two runs suffice to relate a
document to its successor. *Hook*: depth 4 holds a component, a callback, a
function in it and a construct, or a component and three constructs, which is
one level more than any of the rule's flags can tell apart. *Directives*: two
rules tell named, unnamed and mixed lists apart; four comments hold two
openings and two closings in any order; two columns make two comments of one
line. *Paired calls*: three nodes hold a function with two constructs in a row
or in one another, or two functions and a construct; two openings put one call
before a construct and one in it. Two pairs need three openings, one more
than a closer can confuse, but only one construct around them. A loop body runs
at most once, as the rule walks it once and merges nothing. *Recursion*: three
functions make cycles of length one to three, and four calls two cycles that
share a call, or a cycle and a path into it, which is what a depth-first search
can get wrong. *Dead stores*: `reach` is a fixed point over loops, so
iterations are not bounded; two nested statements are what the branch
comparison distinguishes. *Async*: system, returned function and callback are
three. *Events*: four places hold a callback, a function in it and in that another,
or a callback with three assignments, which is a detour over two variables and
back; a run with five finds nothing more. *Dependencies*: two uses show one covered by the other and one of a
longer path; six passes are more than any input takes. *Discovery*: a project
within a project, a file in each; lints and edits are not bounded. *Release
notes*: two tags make a batch with one failing; later runs add nothing within a
run. *Diff*: five lines hold two regions that touch, overlap or stay apart with
a context of one. *Scopes*: one name suffices since names do not interact; five
nodes nest four deep. *Conditions*: two operators hold one in the other; two
statements hold a jump in an inner statement followed by one in the outer.
*Abbreviations*: three items are two declarations and a use, or one and two;
with `cur` both a word to replace and a replacement, fixes collide and chain.

`paired_calls`, `walks` and `decisions` stop when nothing is left to read,
walk, lint or write, so deadlock is not checked there. The other two check it: a
finished script rests explicitly.

Runs that end in a violation, each a disagreement between what the repository
says and what the code does (quoted in `PROJECT.json`, "findings"):

| Run | Disagreement |
| --- | --- |
| `hook_deep_nesting` | exits pop contexts that enters did not push: a function inside a callback ends the component |
| `hook_inner_exit` | leaving an inner conditional clears the outer one's flag |
| `directives_duplicates` | a block disable on a line that disable-next-line covers is called a duplicate, though it disables the rest of the file |
| `paired_calls_scopes` | "Callbacks have separate scopes", but a yield in a callback excuses an unmatched closer of the outer function |
| `dead_stores_reads` | a write before a `break` is called never read although it is read after the loop |
| `dependencies_removed` | the fix removes a dependency the closure uses, because only the first use of a name counts |
| `abbreviations_classes` | renaming a class leaves the uses outside it with the old name |

One more divergence is documented in the model rather than by a run: a comment
in `overrides.ts` says that pins win over denials, and the site merges them so,
but the check refuses a document whose pinned pair is denied
(`RefusedOnlyForOverrides` allows it).

What the passing properties leave out, each by a named condition:

- `EveryLeakReported` speaks of functions without the mark `irregular`,
  `EveryWarningJustified` of those with neither mark. The report of a yield is
  not taken for a warning of a leak: a function that yields with calls of one
  pair open must still be warned of what executions around the yield leave open,
  and one that yields with calls of several pairs open is irregular. A warning counts for the
  function, not for one call: the rule may name one call and miss another.
- `EveryMisplacedReported` holds while `regular`: the open top-level component
  has so far avoided the situations of the two findings. `regular` returns to
  true outside every function, so the damage never reaches the next component.
  Calls inside a finally block, which the rule lets off as "always executed",
  and calls in the test of a conditional, which it reports although the test
  always runs, are named in the properties.
- `RecursionIsReported` demands reports only for cycles without `unseen` calls,
  and that a report is not in vain counts the `misread` calls: a class whose
  methods only seem to call each other, by a `this` that is not the instance, is
  reported.
- `SentBackIsReported` excludes containers in containers and parts of the player
  (`deep`), and, where it demands a report, a variable that may hold the player
  as well as a container of it (`Ambiguous`). The rule never takes a mark back:
  a report is held to be right if the value could be the player had no
  assignment overwritten an earlier one.
- `ReportsAreDead` excludes the writes in `missed`; the finding shows why.
- `OnlyReportedYield` excludes files with a system that is named like another
  function, or that is an arrow function which a variable names (`Misnamed`).
- `SettledNamesAll` speaks of variables, not of their properties: an earlier use
  of a variable stands for the later ones, which is the finding. It excludes what
  the rule is designed to ignore: stable values, names from outside the
  component, uses as a type, arrays that are no literals and callbacks that it
  cannot resolve.
- `BlockDuplicatesRedundant` speaks of block directives under block areas; block
  directives under line areas are the finding (`DuplicatesRedundant`). Neither
  speaks of line directives: one whose line begins where an enable ends a block
  is called a duplicate of that block, whose area still covers the first
  position of the line.
- `ReportsAreTrue` counts a page that could not be read as one that held other
  notes: the script writes it and reports it as changed though it may be current.
- `VtslsTakesOver` speaks of the settings that a run could read. Files that it
  cannot read and files that are not settings keep `tsgo` without a word of it in
  the summary, as do the places outside the lists of servers.
- `BindsLikeTheLanguageHere` excludes the kinds the harness is known not to
  scope: heads of for statements, static blocks, discriminants and default
  values. Without static blocks the body of a class is empty.
- `TestsAreJudged` excludes `unsound` tests: the rule reads `&&` and `||` as
  constants with a truthy operand that is not `true` taken for a falsy one (as in
  `!(1 && 0)`), and takes `null ?? x` for a constant. Breaks and continues to an
  outer label do not count as ways out for the rule, and a finally block may
  override one that does (`overridden`). Dead code is left out: in
  `while (true) { continue; break; }` the rule takes the break for a way out and
  says nothing, though no execution leaves the loop.
- `RenamesKeepBindings` excludes names of classes used outside the class (the
  finding), globals that already have the replacement's name, and `crossed`
  renames: two fixes of one pass may give the same name to a variable and to one
  of an inner scope on the way to a use, because generated names are recorded
  only for the scopes of use and declaration.
- `AreasAreExact` and `EnableReportsAreExact`: a disable-line comment that names
  a rule twice is collected as an unused enable, so the second speaks of enable
  comments only.

## 4. Fairness

`Judgments` assumes that every request settles (the code sets no timeout and
leaves this to the HTTP client), that the event loop runs what is ready
(`Start`, `Complete`, `Exit`), and that a maintainer starts the script again
after a failure. Weak fairness suffices: each stays enabled until it is taken.
No fairness is assumed of faults, kills or edits, which are bounded.
`Regeneration` assumes the same of its steps; that a run over each set of pairs
is started while the script is idle stands for the maintainer.
The lint rules have no liveness of their own: the walk drives them. That
fixing ends (`FixesSettle`, and the bound on passes in `RenamesKeepBindings`) is
stated as an invariant on the number of passes, as the linter itself counts
them.

## 5. Proofs

### 5.1 JudgmentsProofs

Holds for any set of rules, list of pairs, batch size, texts, verdicts and
bounds. Assumptions: entries are pairs of different rules, the batch size is
positive, and the special values `NoCard`, `Unknown` and `Torn` are none of the
texts and verdicts (`InputAssumption`, `ValuesAssumption`, `BoundsAssumption` in
`Judgments`).

None of the properties is inductive alone. `IInv` adds to the types:

- `AtRest`: between runs nothing is held, after completion nothing is in flight;
- `Carded`: while pairs are held or asked about, their cards exist, so keys do;
- `Covered`: while a run is on course, a pair without a verdict is pending and
  its request is in flight;
- `Fresh`: a pair whose request is in flight has no verdict yet;
- `AsksOnlyUnknown` and `Repeatable`.

`Covered` with an empty `inflight` gives `NothingMissing`. `AsksOnlyUnknown`
is what makes a store safe: a batch writes only keys whose file holds no
verdict, hence `VerdictsAreFinal`, and hence every step that leaves the cards
alone extends the ledger (`Refinement`). `Counted`, `completed` against the
cardinality of the held pairs, is proved on top: a batch is disjoint from what
is held by `Fresh`, so cardinalities add up (`ExactProgress`).

### 5.2 RegenerationProofs

For any finite set of rules, any judgments, thresholds, cap, pins, denials, sets
of pairs a run may judge, faults and interruptions: the five properties of the
files. `RegenerationAssumption` says what the code's types and data say: rules
are numbered and finitely many, probabilities are numbers, a pin is a relation
between two rules of the manifest, a judged pair is two rules, and the cap is
positive.

*The cap.* `CapIsTheGreedyChoice`: of any finite set of scored relations the
fold keeps exactly those that fewer than `max` stronger kept ones touch at each
of their rules. The fold is a recursive function on sets, so this is an
induction over finite sets; the library's induction theorems cannot be
instantiated here, so `FiniteSetsIn` proves one for families of sets, from a
least counterexample. `CapUnfolds` shows that the recursive function exists,
`CapKeeps` that one turn more keeps the claim: the weakest relation is decided
last, and changes nothing for the stronger ones.

*The runs.* `IInv` is the types, `RunsAssemble` (what a run holds at each phase
follows from what it read), `FilesOfRuns` (which run wrote which file, so that
a kill between the two writes leaves a report that claims nothing of the newer
document) and `FilesAreRight`, the properties themselves. Nothing but the files
outlives a run, and they change only in `WriteDocument` and `WriteReport`.

*The documents.* `AssembledEdges`: one edge per pair, each of a relation the cap
kept. `NormalizedEdges` carries that to the form the site reads, `AcceptedMeans`
says what a passed check rules out, and `DegreeByPairs` counts: relations of
different pairs are no more than the kept relations of these pairs. That gives
`OwnOutputAccepted`, hence `OnlyOverridesRefuse`. `ReportedOnce`,
`AgreedOverrides` and `ChangesReplay` are the three claims of a report; the last
is the algebra of `compareRelationBaseline` on documents that parse.

*The decisions alone.* `RelationTables` is taken as an instance at the end of
the module. `DoubtKeepsBack` is its step property, for any thresholds: the three
ways `ResolvePair` ends without a relation are taken apart, and more doubt leaves
each of them what it was (`MoreDoubt`). `ScoredAreCapped` applies the theorem
about the cap to the relations of that module.

`SiteWithinCap` first spoke of every document. The proof would not close, for a
good reason: of the empty document before the first run nothing has been
checked, and pins alone may crowd a rule. It now speaks of documents a run has
written.

### 5.3 DecisionsProofs, release notes

For any tags, notes and command lines (`OptionsAssumption`). `Types` and `Course`
say what holds at each await; `Before`, that an untouched target still holds what
the run met or what the run itself saved; `Reads`, that a page is being written
because it differed or could not be read (`Stale`); `HalfSaved`, which saves of
the tag at hand are done. A failure or a kill between the two saves is where `OutcomesHold`
is not inductive without `HalfSaved`.

### 5.4 DecisionsProofs, component discovery

The second part of the module takes `ComponentDiscovery` as an instance beside
`ReleaseNotes`. The theorem speaks of `WrongOnlyIfOutdated` as `LocalComponents`
defines it, which is the definition the run `decisions` checks. For any tree of directories and any files (`DiscoveryAssumption`). The
invariant adds `CachesAgree` (unless `outdated`, every entry of a cache is what
the disk says) and `FindingsHold` (what the rule has found while linting is what
the caches say). An entry once made is never corrected, so what is proved is
exactly the limit of the damage: a wrong finding needs a directory or file that
changed after it was read.

The module's third part, for any files that hold lists of servers from a set
containing the four names of tsgo and vtsls (`SettingsAssumption`; valid or not,
with `"tsgo"` elsewhere in the text or not). `TsgoIsReplaced` says that a run
which reports its files as modified, or that it found none, has left no list with
tsgo in the settings it could read, put vtsls in its place and disturbed nothing
else. The invariant `TsgoInv` ties the sets of files together: what the scan has
found are the valid settings that it could read and that name tsgo (`Naming`);
the files to change are those of them that become others, a file still to be
written holds what it held, and one no longer to be written holds its rewriting,
unless a write failed, after which no summary follows. The rest is about one list:
`AfterIs` says that it is flipped in place, or has vtsls appended, or inserted
before the catch-all that stood last; each case names the place where every server
of the old list stands in the new one (`RewrittenAsIs`, `AtTheEnd`, `BeforeLast`).

The fourth part, `TestsAreRight`, is about `no-constant-condition-with-break`: for
expressions and loop bodies of any size, and with no assumption on a constant.

- While a test is read, every operand that the rule has built up is `Judged`: if
  it is called constant, its known truth is its truth unless it is `unsound`, and
  its known value is a stand-in (`StandsFor`: same truth, same nullishness, same
  number) of what it means unless something in it was misread.
- While a body is walked, the rule knows an exit of the loop as soon as some
  execution leaves it, and an exit that no `finally` has overridden is `Carried`:
  an execution has left the loop or is on its way. An execution on its way is no
  longer at a place of the text, except in a `finally` block or where one waits
  for it; this is what makes a condition skipped by the rule one that nothing
  reaches (`Flow`, `Sheltered`). `Shape` says how statements may be nested. When
  the body ends, nothing but the loop is open, so nothing waits any more, and
  what is carried has left.

The fifth part, `NamesAreBound`, is about the scopes of the rule harness: for
trees of any size, any names, and the kinds of nodes that the harness has scopes
for (`KindsAssumption`, the kinds of the run; with a `for` statement, a static
block, a discriminant or a default value the property is false, as section 3
says). The invariant `ScopesInv` ties scopes to nodes: `Tree` says that a node
stands in an earlier one that can hold it; `Scoped`, that a container has a scope
of its own just inside that of the container around it, a catch clause two, and
that everything else has the scope it stands in; `Defined`, that a scope holds a
name exactly if the language gives a declaration of it the extent that belongs to
that scope (`Place`). Declarations may stand after their uses, so this must hold
of every tree, not only of finished ones, and a new node must not move an earlier
extent (`ExtentsKept`). Looking a name up is then a descent along the scopes:
`LooksUp` goes from container to container outwards; a container that declares
nothing of the name passes the question on in the tree as in the scopes
(`FoundAbove`), and the innermost declaration wins on both sides. Recursive
functions such as `Nearest` and `VariableByName` are shown to exist by
`WalkExists`, which needs no induction theorem, only the least number for which
they would fail.

### 5.5 WalksProofs, use-exhaustive-dependencies

For any variables, uses (`UsesAssumption`: paths are sequences) and lists. The
invariant is that a settled pass had no report whose fix changes the array.
That such an array names every use needs the first use of each name, taken as
the least index of a non-empty set of numbers (`FirstUse`).

That fixing ends is a theorem too, for any finite set of entries that may stand in
an array of at most `MaxEntries`, with `MaxPasses` at least `2 * MaxEntries + 2`
(the run has 2 and 6). The measure `Left` is twice the number of unnecessary
dependencies and one more if something is missing: a removal may uncover what the
removed dependency covered, and an addition puts in all that is missing and makes
nothing unnecessary. Every fix lowers it (`FixLessens`), and there is no fix when
it is zero (`SomethingLeft`).

The second part of the module takes `EventsCallbacks` as an instance and proves
`SentBackIsReported` for any names and files of any size. The rule keeps names,
the executions keep values, and neither determines the other, so the invariant
`EventsInv` says how far apart they may be:

- `EventsTyped` and `Fits`: here and in every open node, each execution gives
  each variable a value that it may hold, there is an execution, and as long as
  nothing `deep` has happened no container is in a container;
- `Lasting`: since an `if` or a function was entered, values have only been
  added; across the border of a callback nothing is claimed, its variables are
  its own;
- `Stands`: the functions of the rule's stack are the open functions, in order,
  and the rule is at work exactly in callbacks connected after the import;
- `Knowing`: a name that the rule marks may be what it is marked as, and unless
  a name is ambiguous, of every other name there is an execution in which it is
  not the player, and one in which it is no box of the player. This holds of the
  innermost function now, and of every other when the function in it was entered.

The last part is why the property has a converse at all: a single execution in
which every unmarked name is harmless need not exist, but one for each name does,
and no form of an expression needs two (`Cleared`; a choice is cleared by either
of its names). Leaving a function restores the outer one's knowledge because
executions and values have only been added in between (`KnowsMore`).

### 5.6 HookTopLevelProofs

For any functions, hooks, options and imports and walks of any depth; `MaxDepth`
is used for the type invariant only. No hypothesis is needed. The rule keeps a
stack of contexts that exits may pop although nothing was pushed (the finding),
so nothing can be claimed of the upper contexts. What holds is said of the
lowest, which belongs to the outermost component or hook:

- `StackFollows`: there are at most as many contexts as functions open in the
  component, and while there are as many, each flag that is set in the lowest has
  a cause on the path (`Backed`);
- `StackIsExact`: on a regular walk there are exactly as many, two at most, and
  each cause has its flag (`Complete`), with no construct inside one of its own
  kind (`OneOfAKind`), whose exit would clear the flag early;
- `NamesFollow`: the current name is that of the innermost named function, and
  the stack of names restores it;
- `AnswerStands`: the last report is what the contexts say of the last call.

`Backed` gives `EveryReportJustified` for every walk, the findings' walks
included; `Complete` gives `EveryMisplacedReported` for the regular ones.

### 5.7 DirectivesProofs

For files of any length with any number of comments at any place, and directives
that list any rules, repeated or not. `DirectivesAssumption`: lines and columns
are numbers, a directive's list is a sequence of rules or the word for all, and
`Open` is no place. The properties say what the complete file means while the code
reads it comment by comment. `ReadingInv` therefore says of the file read so far:
an area is what its comment says up to the first enable after it that names the
rule (`EndOf`), and what was collected of an enable when it was read is what the
file says of it, then and later (`ReportsFollow`). The next comment adds itself to
the ends of the areas it names and leaves every first end there was; that an enable
is the first for an area is the same as the area still being open.

### 5.8 RecursionProofs

For files of any size with any names, other than the two words the model uses
for "none" and "inner" (`RecursionAssumption`; the run's names are model
values). `RecursionFound` is `RecursionIsReported`, both halves of it. `IInv` has
a part for each phase:

- the walk (`Walks`): there are places in `functionStack`, one for each open node,
  between which lie the entries of the node, of which the first may be a name and
  then is the node's (`Placed`). Looking down the stack for a name therefore finds
  the function that the syntax tree says (`StackAnswers`), although a variable
  pushes two entries, a class none, and an exit pops a fixed number;
- the graph (`GraphIsSeen`): what is recorded is the call graph without the
  unseen calls, and with misread calls and calls of an inner name added;
- the search (`Searches`): the gray functions are those on the path, each called by
  the one before (`PathIsGray`, `PathIsOfCalls`); a call the search is through with
  leads to a black function, to no function of the file, or lies between two marked
  ones (`VisitedAreSettled`); and a black function does not reach itself by unmarked
  calls (`BlackAreDone`). The last holds because, when a function turns black, the
  set of what is black or unknown is closed under unmarked calls and does not hold
  it. What is marked lies on the part of the path from the gray neighbour on, which
  is a cycle (`CycleIsRecursive`, by a chain of indices forth and around).

At the end everything registered is black, which is the first half.

### 5.9 PairedCallsProofs

For files of any size and nesting, any number of calls, and any pairs of openers
and closers (`PairedCallsAssumption`: the bounds are numbers, each opener has a set
of closers). All three properties of the run are theorems. `IInv` has three parts,
each resting on the one before.

*The bookkeeping* (`WalkInv`, for `TypeOK`). The path is a chain of nodes as syntax
allows it (`Syntax`); there is one context per node, whose flag says whether a
finally block of the same function is around it (`ContextsFollow`); `loopStack` is
the loops in order; each snapshot and each saved outer stack is the stack the node
itself remembers (`StacksFollow`); a node has recorded as many branches as parts or
cases of it are behind (`BranchesFollow`); and no two open calls of an execution
share an index (`CallsKnown`).

*Leaks* (`FlowInv`, for `EveryLeakReported`). As long as a function is `Silent`,
neither warned of nor irregular, every execution that is at a place has no call
open that is not on the rule's stack of that place (`Fits`). A yield, which empties
the stack, keeps that: outside the gap all calls on it are of one platform pair, and
every execution has lost them too (`YieldFlows`). That alone is not
inductive. What a node has recorded from its branches must cover the executions
that wait in it: those that came out of an if or a switch lie under one of the
recorded branches (`InBranch`), those caught under the stack before the try
statement, and those that left a loop by break or continue under the stack before
the loop (`OutFit`), because a jump is warned of when it would carry a call of the
loop out (`Traced`: a call that is not of the loop was open before it, `Kept`: and
is still). The hard case is a jump that a finally block holds up: it arrives with a
destination, the block may open and close meanwhile, and then it goes on. `Outwards`
says what it may carry: nothing of the stack before the try statement if it leaves
the function, and nothing but what was open before the loop if it leaves a loop.
With that, an execution at the end of a silent function has no open call
(`LeaksJudged`).

*Warnings* (`WarnedInv`, for `EveryWarningJustified`). A `Tame` function has neither
gaps nor wrong calls. Everywhere in it some execution has all of the rule's stack
open and some execution nothing beyond it (`Level`; the two may differ). A warning
at a merge says that a call is in one branch and not in another, so by `Level` two
executions differ in the number of their open calls (`Uneven`). From there on every
opener adds one call to each execution and every closer removes one from each, or
some execution is wrong; so two executions differ to the end of the function
(`WarnedInv`; `UnevenAt` says where the two are: here, waiting in an open node, or
saved by a function that is being walked inside), and one of them leaks
(`WarningsJudged`). Counting needs the calls of an execution to be finite and their
indices distinct, which is `Sound` in `WalkInv`.

The proof goes action by action; pieces that several actions share (delivering the
executions of a jump, appending a node, closing one) are lemmas. The model was
changed for it: stacks were sequences, nodes did not know their depth, and a node did
not keep the stack before it.

### 5.10 What is proved and what is not

| Theorem | Module | Property |
| --- | --- | --- |
| `Invariance` | `JudgmentsProofs` | `IInv` |
| `TypeCorrect` | `JudgmentsProofs` | `TypeOK` |
| `ExactProgress` | `JudgmentsProofs` | `ProgressExact` |
| `NeverMissing` | `JudgmentsProofs` | `NothingMissing` |
| `AlwaysRepeatable` | `JudgmentsProofs` | `Repeatable` |
| `NeverAsksTwice` | `JudgmentsProofs` | `AsksOnlyUnknown` |
| `FinalVerdicts` | `JudgmentsProofs` | `VerdictsAreFinal` |
| `Refinement` | `JudgmentsProofs` | `ImplementsLedger` |
| `CapIsTheGreedyChoice` | `RegenerationProofs` | `CapIsGreedy` of `RelationRules`, for any input |
| `SiteStaysWithinCap` | `RegenerationProofs` | `SiteWithinCap` |
| `PairsReportedOnce` | `RegenerationProofs` | `EveryPairReportedOnce` |
| `ReportsReplay` | `RegenerationProofs` | `ReportDescribesDocument` |
| `AgreedOverridesAreIdle` | `RegenerationProofs` | `AgreedOverridesChangeNothing` |
| `OnlyOverridesRefuse` | `RegenerationProofs` | `RefusedOnlyForOverrides` |
| `ReportsAreJustified` | `HookTopLevelProofs` | `EveryReportJustified` |
| `MisplacedAreReported` | `HookTopLevelProofs` | `EveryMisplacedReported` |
| `TypesHold` | `HookTopLevelProofs` | `TypeOK` |
| `ClosingIsExact` | `DirectivesProofs` | `AreasAreExact` |
| `DuplicateBlocksAreRedundant` | `DirectivesProofs` | `BlockDuplicatesRedundant` |
| `EnablesAreJudged` | `DirectivesProofs` | `EnableReportsAreExact` |
| `RecursionFound` | `RecursionProofs` | `RecursionIsReported` |
| `PairedCallsTypeCorrect` | `PairedCallsProofs` | `TypeOK` |
| `PairedCallsLeaksReported` | `PairedCallsProofs` | `EveryLeakReported` |
| `PairedCallsWarningsJustified` | `PairedCallsProofs` | `EveryWarningJustified` |
| `CountedIsSaved` | `DecisionsProofs` | `OutcomesHold` |
| `ChangedIsTrue` | `DecisionsProofs` | `ReportsAreTrue` |
| `DiscoveryCorrect` | `DecisionsProofs` | `WrongOnlyIfOutdated` |
| `TsgoIsReplaced` | `DecisionsProofs` | `VtslsTakesOver` |
| `TestsAreRight` | `DecisionsProofs` | `TestsAreJudged` |
| `NamesAreBound` | `DecisionsProofs` | `BindsLikeTheLanguageHere` |
| `DoubtKeepsBack` | `RegenerationProofs` | `DoubtNeverPublishes` |
| `ScoredAreCapped` | `RegenerationProofs` | `ScoredCapIsGreedy` |
| `SettledLists` | `WalksProofs` | `SettledNamesAll` |
| `FixingEnds` | `WalksProofs` | `FixesSettle` |
| `SentBackIsFound` | `WalksProofs` | `SentBackIsReported` |

Only model-checked, and why:

- liveness (`EventuallyDone` and `EventuallyPublished`): fairness and ENABLED are
  out of the prover's reach;
- `DeadStores` and `AsyncSystems` use RECURSIVE operators, which the prover does not
  support; `LineDiff` and `Abbreviations` compute by recursion over sequences,
  for which no induction theorem can be instantiated (what was done for the cap
  needs a claim about sets).

## 6. What the models leave out

- Texts: questions, reasons, reports, comments and messages. A reason is
  grounded or not; a directive comes parsed; `validateReason` and
  `parseDirectiveComment` are not modelled.
- Two scripts running at once: the second write of the document would lose the
  first. The script is started by hand.
- `isInFinallyBlock`'s limit of 20 parents; the option `allowWholeFile`; the
  difference between `eslint-` and `oxlint-` directives, which the code does
  not make either.
- In `require-paired-calls`: reports that change no state (`asyncViolation`,
  `maxNestingExceeded`, `multipleOpeners`, `wrongOrder`); the mapping of names to
  pairs and the memo of closers; calls at module level and in the heads of
  control flow; statements after a jump; labelled blocks that are no loops; try
  statements inside finally blocks, and jumps inside one that stay in it; lists of
  yielding functions that differ between pairs (a call of one yields for all
  pairs of platform `roblox`).
- In `no-recursive`: classes without a name, class expressions, and calls outside
  every function.
- In `no-dead-store`: assignments in expressions that may not be evaluated,
  destructuring, and the lookup of the variable's scope.
- In `no-async-in-system`: the table of yielding members (data), the shapes of
  types and names.
- In `no-events-in-events-callback`: assignments to members, deeper patterns,
  spreads and rest elements, shadowing, jumps, functions that run later than
  where they stand, and the forms of imports.
- In discovery: `.gitignore` layers, the regular expressions for exports, and the
  import source that a report suggests.
- In `use-exhaustive-dependencies`: the configuration of hooks, how stable values
  are recognised in initializers, the text, order and repetitions of the array.
- In `no-constant-condition-with-break`: configured exit calls, templates,
  infinities and NaN, `with` statements, exits in the heads of inner statements.
- In `prevent-abbreviations`: how a name is split into words and looked up,
  imports, shorthand properties, JSX names, properties and file names.
- In the scripts: logging, progress, parsing of command lines, and finding and
  parsing settings files; that somebody edits a settings file between its read
  and its write. In the harness: the order of definitions and the reference
  lists of a variable, and what stands in a class.
- The check of a relation document for names that are no rules and for kinds of
  relation that there are not (`Parses`): both come from the manifest.
- The script asks for all pairs, and then no edge of an older document is
  retained. `regenerateRelationsAsync` allows for fewer, and so does the model
  (`JudgedSets`); what it shows of retained edges is about that function, not
  about a run of the script.
- New rules between runs are new cards, not new members of `Rules`. A pin of a
  rule with itself would count twice for the code's cap and counts once here.

## 7. Plan

Done: the relation generator (`JudgmentLedger`, `Judgments`, `RelationRules`,
`RelationTables`, `Regeneration`) with its proofs; the rules with state
(`HookTopLevel`, `Directives`, `PairedCalls`, `Recursion`, `DeadStores`,
`AsyncSystems`, `EventsCallbacks`, `ComponentDiscovery`); two rules whose fixes
feed back into them (`ExhaustiveDependencies`, `Abbreviations`); one analysis against a semantics
(`ConstantConditions`); the scripts and tools with state or an algorithm
(`ReleaseNotes`, `DisableTsgo`, `LineDiff`, `HarnessScopes`).

What would come next: `no-useless-use-effect`, the longest rule, as a classification of effects against a renderer; the overlapping
fixes of the rules on braces and useless constants.
