---------------------------- MODULE AsyncSystems ----------------------------
(***************************************************************************)
(* The rule no-async-in-system, and the systems it is about. A Planck      *)
(* system is a function that the scheduler calls in every frame, or one    *)
(* that returns such a function; calls in it must not yield. The rule      *)
(* finds the systems of a file and the functions that run when they run.   *)
(*                                                                         *)
(* Every function of the file has one call that yields if its receiver is  *)
(* an instance of a Roblox class. After the rule the module runs the       *)
(* systems: yielded are the calls that yielded in a frame.                 *)
(***************************************************************************)
EXTENDS Naturals, Sequences, FiniteSets, SequencesExt

CONSTANTS
  Functions,     \* numbered in the order of the text
  Files          \* the files to consider, as records
(* file.system[f]: how f is a system. "typed": its return type or variable *)
(*   has a system type; "value": it stands in the property "system" of a   *)
(*   typed object; "name": the property names it; "none".                  *)
(* file.name[f]: the name of a function declaration or expression.         *)
(* file.inner: functions whose name cannot be seen from the typed object.  *)
(* file.async, file.returns[f], file.passes[f]: async functions, what f    *)
(*   returns and what it passes to configured synchronous callees.         *)
(* file.variables: the receiver of the calls is the first; [kind, of].     *)

VARIABLES
  file, reports, linted,             \* the file and the rule
  returned, running, started, yielded   \* the scheduler

frames == <<returned, running, started, yielded>>
vars == <<file, reports, linted, frames>>

Init ==
  /\ file \in Files
  /\ reports = {} /\ linted = FALSE
  /\ returned = [f \in Functions |-> 0] /\ running = <<>> /\ started = 0 /\ yielded = {}

-----------------------------------------------------------------------------
(* The receiver's class (getExpressionClass, getIdentifierClass): by a     *)
(* type annotation that no declaration of the file redefines, an import    *)
(* from @rbxts/services, or a const's initializer, which may be another    *)
(* variable. An initializer is visited once.                               *)
RobloxKinds == {"annotated", "service", "GetService"}
RECURSIVE ClassKnown(_, _)
ClassKnown(v, visited) ==
  LET variable == file.variables[v]
  IN  \/ variable.kind \in RobloxKinds
      \/ /\ variable.kind = "const" /\ v \notin visited
         /\ ClassKnown(variable.of, visited \cup {v})
(* What the variable holds when the file runs. Variables are numbered from *)
(* the last declared on: a value comes from a variable declared earlier.   *)
RECURSIVE HoldsInstance(_)
HoldsInstance(v) ==
  LET variable == file.variables[v]
  IN  \/ variable.kind \in RobloxKinds
      \/ variable.kind = "const" /\ variable.of > v /\ HoldsInstance(variable.of)

-----------------------------------------------------------------------------
(* The rule. Names are looked up in a map that keeps the last function of  *)
(* a name, wherever it is declared.                                        *)
NamedFunctions(name) ==
  LET named == {f \in Functions : file.name[f] = name}
  IN  IF named = {} THEN {} ELSE {CHOOSE f \in named : \A g \in named : g <= f}
SystemFunctions ==
  {f \in Functions : file.system[f] \in {"typed", "value"}}
  \cup UNION {NamedFunctions(file.name[f]) : f \in {g \in Functions : file.system[g] = "name"}}

(* reportYieldingCalls and inspectActiveFunction. A mistake: callbacks of  *)
(* callbacks are not followed.                                             *)
Callbacks(active) == UNION {file.passes[f] : f \in active} \ file.async
RECURSIVE Inspected(_)
Inspected(active) ==
  LET more == active \cup Callbacks(active)
  IN  IF more = active THEN active ELSE Inspected(more)
ActiveFunctions(system) ==
  (IF file.returns[system] = {} THEN {system} ELSE file.returns[system]) \ file.async
InspectedOnce(system) ==
  IF system \in file.async THEN {} ELSE ActiveFunctions(system) \cup Callbacks(ActiveFunctions(system))
InspectedFrom(system) ==
  IF system \in file.async THEN {} ELSE Inspected(ActiveFunctions(system))

ProgramExit ==
  /\ ~linted /\ linted' = TRUE
  /\ reports' = IF ClassKnown(1, {}) THEN UNION {InspectedFrom(s) : s \in SystemFunctions} ELSE {}
  /\ UNCHANGED <<file, frames>>

-----------------------------------------------------------------------------
(* The systems at run time. The property "system" refers to the function   *)
(* its name has where it stands.                                           *)
Systems ==
  {f \in Functions : file.system[f] \in {"typed", "value"}}
  \cup {f \in Functions : file.system[f] = "name" /\ f \notin file.inner}
Run(f) == running' = IF f \in file.async THEN <<>> ELSE <<f>>

Frame(s) ==
  /\ linted /\ running = <<>> /\ s \in Systems
  /\ Run(IF returned[s] = 0 THEN s ELSE returned[s])
  /\ started' = IF returned[s] = 0 /\ s \notin file.async THEN s ELSE 0
  /\ UNCHANGED <<file, reports, linted, returned, yielded>>

(* The first call of a system that returns a function sets it up.          *)
SettingUp == started # 0 /\ file.returns[started] # {}
Call ==
  /\ running # <<>> /\ HoldsInstance(1) /\ ~SettingUp
  /\ yielded' = yielded \cup {Last(running)}
  /\ UNCHANGED <<file, reports, linted, returned, running, started>>

InvokeCallback(f) ==
  /\ running # <<>> /\ f \in file.passes[Last(running)] \ (file.async \cup ToSet(running))
  /\ running' = Append(running, f)
  /\ UNCHANGED <<file, reports, linted, returned, started, yielded>>

EndCall ==
  /\ running # <<>>
  /\ running' = Front(running)
  /\ IF Len(running) = 1 /\ SettingUp
     THEN \E f \in file.returns[started] : returned' = [returned EXCEPT ![started] = f]
     ELSE UNCHANGED returned
  /\ started' = IF Len(running) = 1 THEN 0 ELSE started
  /\ UNCHANGED <<file, reports, linted, yielded>>

Next ==
  \/ ProgramExit
  \/ \E f \in Functions : Frame(f) \/ InvokeCallback(f)
  \/ Call \/ EndCall
Spec == Init /\ [][Next]_vars

-----------------------------------------------------------------------------
(* Properties. *)
TypeOK ==
  /\ reports \subseteq Functions /\ yielded \subseteq Functions /\ started \in Functions \cup {0}
  /\ running \in Seq(Functions) /\ returned \in [Functions -> Functions \cup {0}]
  /\ linted \in BOOLEAN

(* Functions that systems run under the name of another function of the    *)
(* file, or under a name the map does not hold.                            *)
Misnamed == \E s \in Systems : file.system[s] = "name" /\ NamedFunctions(file.name[s]) # {s}

(* When a system runs, in whatever order frames, returned functions and    *)
(* callbacks run, only calls that no-async-in-system has reported yield;   *)
(* unless a system is named like another function, or is an arrow function *)
(* that a variable names.                                                  *)
OnlyReportedYield == ~Misnamed => yielded \subseteq reports
=============================================================================
