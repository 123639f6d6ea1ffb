------------------------------ MODULE MCWalks -------------------------------
(***************************************************************************)
(* Six rules, five of which walk a file, each on its own: a behaviour is   *)
(* about one of them, its subject. They share one run because each is a    *)
(* state space of moderate size.                                           *)
(***************************************************************************)
EXTENDS ExhaustiveDependencies, HookPlacement, CallCycles, SentEvents, TLC

VARIABLES
  subject,      \* the component this behaviour is about
  contextStack, functionNameStack, currentFunctionName,
  walkPath, nodes, size, later, recursionStack, classStack, classMethods, registered, callees,
  callSites, color, search, inCycle,
  shape, blocks, entered, jumps, usages, elses, transferring, reach, observed, updated, missed,
  storeReports,
  file, asyncReports, linted, returned, running, started, yielded,
  eventSize

hookVars ==
  <<path, regular, contextStack, functionNameStack, currentFunctionName, importSourceMap, call,
    report>>
recursionVars ==
  <<walkPath, nodes, size, calls, unseen, misread, later, recursionStack, classStack, classMethods,
    registered, callees, callSites, phase, color, search, inCycle, reported>>
storesVars ==
  <<shape, blocks, entered, jumps, usages, elses, transferring, reach, observed, updated,
    missed, storeReports>>
asyncVars ==
  <<file, asyncReports, linted, returned, running, started, yielded>>
eventsVars ==
  <<eventPath, eventSize, envs, held, deep, trackedEvents, functionStack>>

Unused == "unused"
Symmetry == Permutations(Names)

(* HookTopLevel: a declared hook, an anonymous component and a callback.   *)
HookFunctions ==
  { [name |-> "useSelf", hookish |-> TRUE], [name |-> NoName, hookish |-> TRUE],
    [name |-> NoName, hookish |-> FALSE] }
MCImportSources == [s \in {"react", "ecs"} |-> s = "react"]

(* Every kind of statement beside an if or a loop, and every kind of write *)
(* in a loop; with ifs alone one usage more, for a write in each branch    *)
(* between a write and a read.                                             *)
Shape(kinds, writes, statements, references) ==
  [kinds |-> kinds, writes |-> writes, statements |-> statements, usages |-> references, jumps |-> 1]
StoreShapes ==
  { Shape({"if"}, {"plain"}, 2, 4),
    Shape({"if", "loop"}, {"plain"}, 2, 3),
    Shape({"loop"}, {"plain", "compound", "self", "null"}, 2, 3),
    Shape({"switch", "loop"}, {"plain"}, 2, 3),
    Shape({"try", "if"}, {"plain"}, 2, 3) }

(* Three functions: what they return and pass on; how the receiver is      *)
(* known; what names they have.                                            *)
AsyncFunctions == 1..3
AtMostOne == {{}} \cup {{f} : f \in AsyncFunctions}
Service == <<[kind |-> "service", of |-> 1]>>
Receivers == [kind : {"annotated", "GetService", "const", "other"}, of : {1, 2}]
System(system, name, inner, async, returns, passing, variables) ==
  [system |-> system, name |-> name, inner |-> inner, async |-> async,
   returns |-> returns, passes |-> passing, variables |-> variables]
AsyncFiles ==
  { System(<<"typed", second, "none">>, <<"a", "b", "c">>, {}, async, <<r, s, {}>>, passing, Service) :
      second \in {"none", "value"}, async \in SUBSET AsyncFunctions,
      r \in AtMostOne, s \in AtMostOne, passing \in [AsyncFunctions -> AtMostOne] }
  \cup
  { System(<<"typed", "none", "none">>, <<"a", "b", "c">>, {}, {}, <<{}, {}, {}>>, <<{2}, {}, {}>>, v) :
      v \in [1..2 -> Receivers] }
  \cup
  { System(<<"name", second, "none">>, name, inner, {}, <<r, {}, {}>>, <<{2}, {}, {}>>, Service) :
      second \in {"none", "name"}, name \in [AsyncFunctions -> {"a", "b"}],
      inner \in SUBSET {1, 2}, r \in AtMostOne }

(* ExhaustiveDependencies, the module that this one extends: chains that   *)
(* share a root, with and without a call, a forced capture and a type; the *)
(* other variable is of any kind.                                          *)
MCKinds ==
  { [p |-> "plain", q |-> q] : q \in {"plain", "stable", "unstable", "self", "module", "closure"} }
Use(root, chain, called, forced, typed) ==
  [root |-> root, path |-> chain, called |-> called, forced |-> forced, typed |-> typed]
MCUses ==
  { Use("p", <<>>, FALSE, FALSE, FALSE), Use("p", <<"a">>, FALSE, FALSE, FALSE),
    Use("p", <<"a", "b">>, TRUE, FALSE, FALSE), Use("p", <<"c", "b">>, FALSE, FALSE, FALSE),
    Use("q", <<>>, TRUE, FALSE, FALSE), Use("q", <<>>, FALSE, TRUE, FALSE),
    Use("q", <<"a">>, FALSE, FALSE, FALSE), Use("q", <<>>, FALSE, FALSE, TRUE) }
Chain(root, chain) == [expression |-> FALSE, roots |-> {root}, path |-> chain]
Expression(roots) == [expression |-> TRUE, roots |-> roots, path |-> <<>>]
MCEntries ==
  { Chain("p", <<>>), Chain("p", <<"a">>), Chain("p", <<"c", "b">>), Chain("q", <<>>),
    Chain("q", <<"a">>), Expression({"p"}), Expression({"p", "q"}) }
MCOptions ==
  { [array |-> TRUE, unnecessary |-> u, stable |-> u, expressions |-> e] : u, e \in BOOLEAN }
  \cup { [array |-> FALSE, unnecessary |-> TRUE, stable |-> FALSE, expressions |-> TRUE] }

Hook == INSTANCE HookTopLevel WITH
    Functions <- HookFunctions, Hooks <- {"useSelf", "useState"},
    Imports <- {<<"useState", "ecs">>}, Namespaces <- {"ecs"}, MaxDepth <- 4,
    MaxFunctions <- 3, MaxSameKind <- 2
Recursion == INSTANCE Recursion WITH MaxNodes <- 3, MaxCalls <- 4, path <- walkPath,
    functionStack <- recursionStack
Stores == INSTANCE DeadStores WITH Shapes <- StoreShapes, reports <- storeReports
Async == INSTANCE AsyncSystems WITH
    Functions <- AsyncFunctions, Files <- AsyncFiles, reports <- asyncReports
Events == INSTANCE EventsCallbacks WITH
    MaxSize <- 4, size <- eventSize

(* The variables of the other components rest or have no value. *)
NoDependencies ==
  /\ kind = (CHOOSE k \in KindsOf : TRUE) /\ closure = <<>> /\ resolved = TRUE
  /\ options = (CHOOSE o \in Options : TRUE) /\ dependencies = Absent /\ written = Absent
  /\ passes = 0 /\ reports = {} /\ settled = FALSE
NoHook ==
  path = <<>> /\ regular = TRUE /\ importSourceMap = {} /\ call = NoCall /\ report = "none"
  /\ contextStack = Unused /\ functionNameStack = Unused /\ currentFunctionName = Unused
NoRecursion ==
  calls = {} /\ unseen = {} /\ misread = {} /\ phase = "walk" /\ reported = {} /\ walkPath = Unused
  /\ nodes = Unused /\ size = Unused /\ later = Unused /\ recursionStack = Unused
  /\ classStack = Unused /\ classMethods = Unused /\ registered = Unused /\ callees = Unused
  /\ callSites = Unused /\ color = Unused /\ search = Unused /\ inCycle = Unused
NoStores ==
  shape = Unused /\ blocks = Unused /\ entered = Unused /\ jumps = Unused /\ usages = Unused
  /\ elses = Unused /\ transferring = Unused /\ reach = Unused /\ observed = Unused
  /\ updated = Unused /\ missed = Unused /\ storeReports = Unused
NoAsync ==
  file = Unused /\ asyncReports = Unused /\ linted = Unused /\ returned = Unused
  /\ running = Unused /\ started = Unused /\ yielded = Unused
NoEvents ==
  eventPath = <<>> /\ envs = {} /\ held = [n \in Locals |-> {}] /\ deep = FALSE
  /\ trackedEvents = FALSE /\ functionStack = <<>> /\ eventSize = Unused

EveryInit ==
  \/ /\ subject = "hook" /\ Hook!Init
     /\ NoRecursion /\ NoStores /\ NoAsync /\ NoEvents /\ NoDependencies
  \/ /\ subject = "recursion" /\ Recursion!Init
     /\ NoHook /\ NoStores /\ NoAsync /\ NoEvents /\ NoDependencies
  \/ /\ subject = "stores" /\ Stores!Init
     /\ NoHook /\ NoRecursion /\ NoAsync /\ NoEvents /\ NoDependencies
  \/ /\ subject = "async" /\ Async!Init
     /\ NoHook /\ NoRecursion /\ NoStores /\ NoEvents /\ NoDependencies
  \/ /\ subject = "events" /\ Events!Init
     /\ NoHook /\ NoRecursion /\ NoStores /\ NoAsync /\ NoDependencies
  \/ /\ subject = "dependencies" /\ Init
     /\ NoHook /\ NoRecursion /\ NoStores /\ NoAsync /\ NoEvents

NextHook ==
  /\ subject = "hook" /\ Hook!Next
  /\ UNCHANGED <<subject, recursionVars, storesVars, asyncVars, eventsVars, vars>>
NextRecursion ==
  /\ subject = "recursion" /\ Recursion!Next
  /\ UNCHANGED <<subject, hookVars, storesVars, asyncVars, eventsVars, vars>>
NextStores ==
  /\ subject = "stores" /\ Stores!Next
  /\ UNCHANGED <<subject, hookVars, recursionVars, asyncVars, eventsVars, vars>>
NextAsync ==
  /\ subject = "async" /\ Async!Next
  /\ UNCHANGED <<subject, hookVars, recursionVars, storesVars, eventsVars, vars>>
NextEvents ==
  /\ subject = "events" /\ Events!Next
  /\ UNCHANGED <<subject, hookVars, recursionVars, storesVars, asyncVars, vars>>
NextDependencies ==
  /\ subject = "dependencies" /\ Next
  /\ UNCHANGED <<subject, hookVars, recursionVars, storesVars, asyncVars, eventsVars>>
EveryNext ==
  NextHook \/ NextRecursion \/ NextStores \/ NextAsync \/ NextEvents \/ NextDependencies

everyVars ==
  <<subject, hookVars, recursionVars, storesVars, asyncVars, eventsVars, vars>>
EverySpec == EveryInit /\ [][EveryNext]_everyVars

-----------------------------------------------------------------------------
(* Values have their types, in every component. *)
EveryTypeOK ==
  /\ subject = "hook" => Hook!TypeOK
  /\ subject = "recursion" => Recursion!TypeOK
  /\ subject = "stores" => Stores!TypeOK
  /\ subject = "async" => Async!TypeOK
  /\ subject = "events" => Events!TypeOK
  /\ subject = "dependencies" => TypeOK

(* no-dead-store: no execution reads the value of a reported write, jumps  *)
(* out of statements aside.                                                *)
ReportsAreDead == subject = "stores" => Stores!ReportsAreDead

(* no-async-in-system: only reported calls yield while systems run.        *)
OnlyReportedYield == subject = "async" => Async!OnlyReportedYield
=============================================================================
