------------------------------ MODULE Recursion ------------------------------
(***************************************************************************)
(* The rule no-recursive: it walks a file, records which function calls    *)
(* which, and at the end of the file looks for cycles by a depth-first     *)
(* search. Calls between functions of a cycle are reported.                *)
(*                                                                         *)
(* Functions are known by their names, as they are to the rule. Calls in a *)
(* callback belong to the named function around it. Beside the rule's own  *)
(* variables, calls is the call graph of the file, and unseen the part of  *)
(* it that the rule cannot see: a call of a method that the class declares *)
(* further down, and a call by the inner name of a function expression.    *)
(* The rule takes every this.m() inside a class for a call of its method   *)
(* m; those that are none are misread.                                     *)
(***************************************************************************)
EXTENDS CallCycles, Sequences, SequencesExt

CONSTANTS MaxNodes, MaxCalls    \* bounds on the file

VARIABLES
  path, nodes, size,             \* the open syntax nodes; how many there were, and calls
  later,                         \* calls of methods to come
  functionStack, classStack,     \* the rule's state
  classMethods, registered, callees, callSites,
  color, search, inCycle         \* Program:exit

file == <<path, nodes, size>>
truth == <<calls, unseen, misread, later>>
walked == <<functionStack, classStack, classMethods>>
graph == <<registered, callees, callSites>>
searching == <<phase, color, search, inCycle, reported>>
vars == <<file, truth, walked, graph, searching>>

Undefined == "undefined"
Inner == "inner"    \* the name of a function expression, other than its variable's
Known == Names \cup {Inner}

Init ==
  /\ path = <<>> /\ nodes = 0 /\ size = 0
  /\ calls = {} /\ unseen = {} /\ misread = {} /\ later = {}
  /\ functionStack = <<>> /\ classStack = <<>> /\ classMethods = <<>>
  /\ registered = <<>> /\ callees = [n \in Known |-> <<>>] /\ callSites = {}
  /\ phase = "walk" /\ color = <<>> /\ search = <<>> /\ inCycle = {} /\ reported = {}

-----------------------------------------------------------------------------
(* The file. A class is numbered; its members are methods. *)
Top == path[Len(path)]
InCode == path # <<>> => Top.kind # "class"
CanEnter == phase = "walk" /\ nodes < MaxNodes
Enter(kind, name, inner) ==
  /\ path' = Append(path, [kind |-> kind, name |-> name, inner |-> inner])
  /\ nodes' = nodes + 1
  /\ UNCHANGED <<size, searching>>

(* The function a statement belongs to, by the syntax tree. *)
CallerIn(p) ==
  LET named == {i \in DOMAIN p : p[i].name \in Names}
  IN  IF named = {} THEN Undefined
      ELSE p[Max(named)].name
(* "this" may be the instance: no function with a "this" of its own lies   *)
(* between it and the method. One without a name may be an arrow function. *)
MayBeInstance ==
  \E i \in DOMAIN path :
    /\ path[i].kind = "method"
    /\ \A j \in i + 1..Len(path) : path[j].kind \in {"callback", "variable"} /\ ~path[j].inner

-----------------------------------------------------------------------------
(* The helpers of create. *)
Registered(seq, name) == IF Contains(seq, name) THEN seq ELSE Append(seq, name)
Enclosing(stack) ==
  LET defined == {i \in DOMAIN stack : stack[i] # Undefined}
  IN  IF defined = {} THEN Undefined ELSE stack[Max(defined)]
Push(names) == functionStack' = functionStack \o names
Pop(kind) ==
  functionStack' = SubSeq(functionStack, 1, Len(functionStack) - (IF kind = "variable" THEN 2 ELSE 1))
RecordLocalCall(caller, callee) ==
  /\ callSites' = callSites \cup {<<caller, callee>>}
  /\ callees' = IF Contains(registered, caller)
                THEN [callees EXCEPT ![caller] = Registered(@, callee)] ELSE callees
  /\ UNCHANGED <<registered, walked>>

-----------------------------------------------------------------------------
(* The walk. *)
FunctionDeclaration(name) ==
  /\ CanEnter /\ InCode /\ Enter("function", name, FALSE)
  /\ registered' = Registered(registered, name)
  /\ Push(<<name>>)
  /\ UNCHANGED <<truth, callees, callSites, classStack, classMethods>>

(* A variable with a function: the declarator's name is pushed and then,   *)
(* for the function itself, undefined. A function expression may have a    *)
(* name of its own.                                                        *)
FunctionVariable(name, inner) ==
  /\ CanEnter /\ InCode /\ Enter("variable", name, inner)
  /\ registered' = IF inner THEN Registered(Registered(registered, name), Inner)
                   ELSE Registered(registered, name)
  /\ Push(<<name, Undefined>>)
  /\ UNCHANGED <<truth, callees, callSites, classStack, classMethods>>

Callback(inner) ==
  /\ CanEnter /\ InCode /\ Enter("callback", Undefined, inner)
  /\ registered' = IF inner THEN Registered(registered, Inner) ELSE registered
  /\ Push(<<Undefined>>)
  /\ UNCHANGED <<truth, callees, callSites, classStack, classMethods>>

ClassDeclaration ==
  /\ CanEnter /\ InCode /\ Enter("class", Undefined, FALSE)
  /\ classMethods' = Append(classMethods, {})
  /\ classStack' = Append(classStack, Len(classMethods) + 1)
  /\ UNCHANGED <<truth, graph, functionStack>>

(* A method is registered and pushed under its own name. Calls of it that  *)
(* came before were not recognized.                                        *)
MethodDefinition(name) ==
  LET class == classStack[Len(classStack)]
      earlier == {x \in later : x.class = class /\ x.method = name}
      edges == {<<x.caller, name>> : x \in earlier}
  IN  /\ CanEnter /\ path # <<>> /\ Top.kind = "class" /\ Enter("method", name, FALSE)
      /\ classMethods' = [classMethods EXCEPT ![class] = @ \cup {name}]
      /\ registered' = Registered(registered, name)
      /\ Push(<<name>>)
      /\ calls' = calls \cup edges /\ unseen' = unseen \cup (edges \ calls)
      /\ later' = later \ earlier
      /\ UNCHANGED <<misread, callees, callSites, classStack>>

Leave ==
  /\ phase = "walk" /\ path # <<>>
  /\ path' = Front(path)
  /\ IF Top.kind = "class" THEN classStack' = Front(classStack) /\ UNCHANGED functionStack
     ELSE Pop(Top.kind) /\ UNCHANGED classStack
  /\ UNCHANGED <<nodes, size, truth, graph, classMethods, searching>>

CanCall == phase = "walk" /\ InCode /\ size < MaxCalls

(* A direct call. It is of a function of the file if the name is in scope. *)
Call(callee, resolved) ==
  LET caller == Enclosing(functionStack)
  IN  /\ CanCall /\ CallerIn(path) # Undefined
      /\ size' = size + 1
      /\ calls' = calls \cup (IF resolved THEN {<<CallerIn(path), callee>>} ELSE {})
      /\ unseen' = IF resolved THEN unseen \ {<<CallerIn(path), callee>>} ELSE unseen
      /\ IF caller # Undefined /\ resolved THEN RecordLocalCall(caller, callee)
         ELSE UNCHANGED <<graph, walked>>
      /\ UNCHANGED <<path, nodes, misread, later, searching>>

(* A call by the inner name calls the function expression around it, which *)
(* the rule knows by another name or as a part of the function around it.  *)
InnerCall ==
  LET inner == {i \in DOMAIN path : path[i].inner}
      callee == CallerIn(SubSeq(path, 1, Max(inner)))
      edge == <<CallerIn(path), callee>>
  IN  /\ CanCall /\ inner # {} /\ callee # Undefined
      /\ size' = size + 1
      /\ calls' = calls \cup {edge}
      /\ unseen' = IF edge \in calls \ unseen THEN unseen ELSE unseen \cup {edge}
      /\ RecordLocalCall(Enclosing(functionStack), Inner)
      /\ UNCHANGED <<path, nodes, misread, later, searching>>

(* this.method() in a class. It is a call of the method if "this" is the   *)
(* instance; in a function expression, a static method or with a computed  *)
(* name it is none. The rule looks at the methods it has met so far.       *)
ThisCall(method, instance) ==
  LET class == classStack[Len(classStack)]
      caller == Enclosing(functionStack)
      known == method \in classMethods[class]
      edge == <<CallerIn(path), method>>
  IN  /\ CanCall /\ classStack # <<>> /\ CallerIn(path) # Undefined
      /\ instance => MayBeInstance
      /\ size' = size + 1
      /\ IF known THEN RecordLocalCall(caller, method) ELSE UNCHANGED <<graph, walked>>
      /\ IF known /\ instance
         THEN calls' = calls \cup {edge} /\ unseen' = unseen \ {edge}
         ELSE UNCHANGED <<calls, unseen>>
      /\ misread' = IF known /\ ~instance THEN misread \cup {edge} ELSE misread
      /\ later' = IF known \/ ~instance THEN later
                  ELSE later \cup {[class |-> class, caller |-> CallerIn(path), method |-> method]}
      /\ UNCHANGED <<path, nodes, searching>>

-----------------------------------------------------------------------------
(* Program:exit: findCycleParticipants step by step, then the reports. The *)
(* search is the recursion's stack, with the next neighbour of each node.  *)
Unsearched == UNCHANGED <<file, truth, walked, graph>>
SearchPath == [i \in DOMAIN search |-> search[i].node]

ProgramExit ==
  /\ phase = "walk" /\ path = <<>> /\ nodes > 0
  /\ phase' = "search"
  /\ color' = [n \in ToSet(registered) |-> "white"]
  /\ Unsearched /\ UNCHANGED <<search, inCycle, reported>>

SearchDepthFirst(node) ==
  /\ color' = [color EXCEPT ![node] = "gray"]
  /\ UNCHANGED <<phase, inCycle, reported>>

White == {i \in DOMAIN registered : color[registered[i]] = "white"}
Root ==
  /\ phase = "search" /\ search = <<>> /\ White # {}
  /\ search' = <<[node |-> registered[Min(White)], next |-> 1]>>
  /\ SearchDepthFirst(registered[Min(White)])
  /\ Unsearched

(* markCycleParticipants: the path from the neighbour on. Two mistakes:    *)
(* the neighbour is left out; the whole path is marked.                    *)
LastIndex(p, n) == Max({i \in DOMAIN p : p[i] = n})
MarkedAfter(p, neighbor) == ToSet(SubSeq(p, LastIndex(p, neighbor) + 1, Len(p)))
Marked(p, neighbor) == ToSet(SubSeq(p, LastIndex(p, neighbor), Len(p)))

CanVisit == phase = "search" /\ search # <<>> /\ Last(search).next <= Len(callees[Last(search).node])
Neighbor == LET top == Last(search) IN callees[top.node][top.next]
ColorOf(n) == IF n \in DOMAIN color THEN color[n] ELSE Undefined
Advanced == [search EXCEPT ![Len(search)].next = @ + 1]

VisitGray ==
  /\ CanVisit /\ ColorOf(Neighbor) = "gray"
  /\ inCycle' = inCycle \cup Marked(SearchPath, Neighbor)
  /\ search' = Advanced
  /\ Unsearched /\ UNCHANGED <<phase, color, reported>>

VisitWhite ==
  /\ CanVisit /\ ColorOf(Neighbor) = "white"
  /\ search' = Append(Advanced, [node |-> Neighbor, next |-> 1])
  /\ SearchDepthFirst(Neighbor)
  /\ Unsearched

VisitOther ==
  /\ CanVisit /\ ColorOf(Neighbor) \in {"black", Undefined}
  /\ search' = Advanced
  /\ Unsearched /\ UNCHANGED <<phase, color, inCycle, reported>>

Finish ==
  /\ phase = "search" /\ search # <<>> /\ ~CanVisit
  /\ color' = [color EXCEPT ![Last(search).node] = "black"]
  /\ search' = Front(search)
  /\ Unsearched /\ UNCHANGED <<phase, inCycle, reported>>

Report ==
  /\ phase = "search" /\ search = <<>> /\ White = {}
  /\ phase' = "done"
  /\ reported' = {s \in callSites : s[1] \in inCycle /\ s[2] \in inCycle}
  /\ Unsearched /\ UNCHANGED <<color, search, inCycle>>

Walk ==
  \/ \E n \in Names :
       \/ FunctionDeclaration(n)
       \/ MethodDefinition(n)
       \/ \E inner \in BOOLEAN : FunctionVariable(n, inner)
       \/ \E resolved \in BOOLEAN : Call(n, resolved)
       \/ \E instance \in BOOLEAN : ThisCall(n, instance)
  \/ \E inner \in BOOLEAN : Callback(inner)
  \/ ClassDeclaration
  \/ InnerCall
  \/ Leave
  \/ ProgramExit
Search == Root \/ VisitGray \/ VisitWhite \/ VisitOther \/ Finish \/ Report
Next == Walk \/ Search
Spec == Init /\ [][Next]_vars

-----------------------------------------------------------------------------
(* The properties are in CallCycles.tla. *)
TypeOK ==
  /\ nodes \in 0..MaxNodes /\ size \in 0..MaxCalls
  /\ CallsAsRead \subseteq Names \X Names /\ unseen \subseteq calls
  /\ functionStack \in Seq(Names \cup {Undefined})
  /\ ToSet(registered) \subseteq Known /\ callees \in [Known -> Seq(Known)]
  /\ callSites \subseteq Known \X Known /\ reported \subseteq callSites
  /\ phase \in {"walk", "search", "done"} /\ inCycle \subseteq ToSet(registered)
=============================================================================
