--------------------------- MODULE EventsCallbacks ---------------------------
(***************************************************************************)
(* The rule no-events-in-events-callback: in the callback of an event, no  *)
(* event may be sent back to the player who sent it. While it walks a file *)
(* the rule keeps, by name, which variables of the callback hold the       *)
(* player and which hold a container with the player in it. Beside the     *)
(* rule the walk keeps the executions.                                     *)
(***************************************************************************)
EXTENDS SentEvents, FiniteSets

CONSTANT MaxSize     \* bound: functions, ifs, declarations and assignments

VARIABLE size        \* of the file so far

file == <<eventPath, size>>
executions == <<envs, held, deep>>
vars == <<file, executions, trackedEvents, functionStack>>

Nowhere == [n \in Locals |-> "other"]

Init ==
  /\ eventPath = <<>> /\ size = 0
  /\ envs = {Nowhere} /\ held = [n \in Locals |-> {"other"}] /\ deep = FALSE
  /\ trackedEvents = FALSE /\ functionStack = <<>>

-----------------------------------------------------------------------------
Bound(pattern, vs) == IF pattern THEN UNION {Members(v) : v \in vs} ELSE vs

(* All names of a pattern become values. *)
Marked(state, n, pattern, kind) ==
  IF kind = "value" \/ (pattern /\ kind = "container")
  THEN [state EXCEPT !.values = @ \cup {n}]
  ELSE IF kind = "container" THEN [state EXCEPT !.containers = @ \cup {n}] ELSE state
Mark(n, pattern, e) ==
  functionStack' =
    IF ~ InTopLevelCallback THEN functionStack
    ELSE Front(functionStack) \o
           <<[Current EXCEPT !.callbackState = Marked(@, n, pattern, ClassifyNodeTaint(e))]>>

-----------------------------------------------------------------------------
(* The walk. A function or the branch of an if runs here, or not; a        *)
(* callback runs later, for a player of its own.                           *)
Node(kind) == [kind |-> kind, early |-> trackedEvents, envs |-> envs, held |-> held, deep |-> deep]
Open(kind) == size < MaxSize /\ size' = size + 1 /\ eventPath' = Append(eventPath, Node(kind))
Leaves(kind) == eventPath # <<>> /\ Last(eventPath).kind = kind /\ eventPath' = Front(eventPath) /\ UNCHANGED size
Joined == envs' = envs \cup Last(eventPath).envs /\ UNCHANGED <<held, deep>>

ImportDeclaration ==
  /\ eventPath = <<>> /\ ~ trackedEvents /\ trackedEvents' = TRUE
  /\ UNCHANGED <<file, executions, functionStack>>

If == Open("if") /\ eventPath # <<>> /\ UNCHANGED <<executions, trackedEvents, functionStack>>
EndIf == Leaves("if") /\ Joined /\ UNCHANGED <<trackedEvents, functionStack>>

NestedSame ==
  IF functionStack = <<>> \/ Current.callbackState.undefined THEN Function(0, NoState) ELSE Current
Nested ==
  IF functionStack = <<>> \/ Current.callbackState.undefined THEN Function(0, NoState)
  ELSE [Current EXCEPT !.callbackDepth = @ + 1]
OnFunctionEnter ==
  /\ Open("function")
  /\ functionStack' = Append(functionStack, Nested)
  /\ UNCHANGED <<executions, trackedEvents>>
OnFunctionExit ==
  /\ Leaves("function") /\ Joined
  /\ functionStack' = Front(functionStack) /\ UNCHANGED trackedEvents

(* Events.x.connect(callback): the first parameter is the player, or a     *)
(* pattern that takes it from a container, or there is none.               *)
Seeds(parameter, n) == IF parameter = "none" THEN {} ELSE {n}
Received(parameter) ==
  CASE parameter = "name" -> {"player"} [] parameter = "pattern" -> {"player", "other"} [] OTHER -> {"other"}
Connect(n, parameter) ==
  /\ Open("callback")
  /\ functionStack' = Append(functionStack,
       IF trackedEvents
       THEN Function(0, [values |-> Seeds(parameter, n), containers |-> {}, undefined |-> FALSE])
       ELSE Nested)
  /\ envs' = {[Nowhere EXCEPT ![n] = v] : v \in Received(parameter)}
  /\ held' = [m \in Locals |-> IF m = n THEN Received(parameter) ELSE {"other"}]
  /\ deep' = FALSE /\ UNCHANGED trackedEvents
ConnectExit ==
  /\ Leaves("callback")
  /\ envs' = Last(eventPath).envs /\ held' = Last(eventPath).held /\ deep' = Last(eventPath).deep
  /\ functionStack' = Front(functionStack) /\ UNCHANGED trackedEvents

Bind(n, pattern, kept, e) ==
  /\ eventPath # <<>> /\ size < MaxSize /\ size' = size + 1
  /\ envs' = UNION {{[env EXCEPT ![n] = v] : v \in Bound(pattern, Means(e, env)) \cup {x \in {env[n]} : kept}} :
                      env \in envs}
  /\ held' = [held EXCEPT ![n] = @ \cup Bound(pattern, MayMean(e))]
  /\ deep' = (deep \/ "nest" \in MayMean(e) \/ (pattern /\ "player" \in MayMean(e)))
  /\ UNCHANGED <<eventPath, trackedEvents>>
VariableDeclarator(n, pattern, e) ==
  held[n] = {"other"} /\ Bind(n, pattern, FALSE, e) /\ Mark(n, pattern, e)
AssignmentExpression(n, pattern, e) ==
  Bind(n, pattern, FALSE, e) /\ Mark(n, pattern, e)
CompoundAssignment(n, e) ==
  Bind(n, FALSE, TRUE, e) /\ UNCHANGED functionStack

Next ==
  \/ ImportDeclaration \/ If \/ EndIf \/ OnFunctionEnter \/ OnFunctionExit \/ ConnectExit
  \/ \E n \in Locals :
       \/ \E parameter \in {"name", "pattern", "none"} : Connect(n, parameter)
       \/ \E e \in Expressions :
            \/ CompoundAssignment(n, e)
            \/ \E pattern \in BOOLEAN : VariableDeclarator(n, pattern, e) \/ AssignmentExpression(n, pattern, e)

Spec == Init /\ [][Next]_vars

-----------------------------------------------------------------------------
TypeOK ==
  /\ size \in 0 .. MaxSize /\ Len(eventPath) <= size
  /\ envs \subseteq [Locals -> Values] /\ held \in [Locals -> SUBSET Values] /\ deep \in BOOLEAN
  /\ \A env \in envs, n \in Locals : env[n] \in held[n]
  /\ Len(functionStack) = Cardinality({i \in DOMAIN eventPath : eventPath[i].kind # "if"})
=============================================================================
