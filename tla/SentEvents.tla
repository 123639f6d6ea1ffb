----------------------------- MODULE SentEvents -----------------------------
(***************************************************************************)
(* What no-events-in-events-callback knows at a place of a file, what the  *)
(* executions of the file may hold there, and what it should report of     *)
(* them; EventsCallbacks.tla walks the file.                               *)
(*                                                                         *)
(* envs are the values that the variables may have at this place, held the *)
(* values they would have if any assignment before it were the last.       *)
(***************************************************************************)
EXTENDS Naturals, Sequences, SequencesExt

CONSTANT Locals     \* variables of the file

VARIABLES
  eventPath,                    \* the open syntax nodes
  envs, held, deep,             \* the executions; deep: a container went into a container,
                                \* or a pattern took the player apart
  trackedEvents, functionStack  \* the rule's state

(* A box holds the player only, a mixed container others as well, a nest   *)
(* holds a container.                                                      *)
Values == {"player", "other", "box", "mixed", "nest"}

(* Expressions: a name or anything else, a container of it alone or with   *)
(* others, a member of it, and a choice between two names.                 *)
Expressions ==
  [form : {"name", "wrap", "mix", "member"}, of : {<<n>> : n \in Locals}]
  \cup {[form |-> "other", of |-> <<>>]}
  \cup [form : {"choice"}, of : {c \in Locals \X Locals : c[1] # c[2]}]

Members(v) ==
  CASE v = "box" -> {"player"} [] v = "mixed" -> {"player", "other"} [] v = "nest" -> {"box"} [] OTHER -> {"other"}
Contained(v, container) ==
  IF v = "other" THEN v ELSE IF v = "player" THEN container ELSE "nest"
Means(e, env) ==
  CASE e.form = "other" -> {"other"}
    [] e.form = "wrap" -> {Contained(env[e.of[1]], "box")}
    [] e.form = "mix" -> {Contained(env[e.of[1]], "mixed")}
    [] e.form = "member" -> Members(env[e.of[1]])
    [] OTHER -> {env[e.of[i]] : i \in DOMAIN e.of}
MayMean(e) ==
  UNION {Means(e, env) : env \in {x \in [Locals -> Values] : \A n \in Locals : x[n] \in held[n]}}

-----------------------------------------------------------------------------
(* The rule. *)
NoState == [values |-> {}, containers |-> {}, undefined |-> TRUE]
Function(depth, state) == [callbackDepth |-> depth, callbackState |-> state]
Current == Last(functionStack)
InTopLevelCallback ==
  functionStack # <<>> /\ ~ Current.callbackState.undefined /\ Current.callbackDepth = 0

Kind(n) ==
  IF n \in Current.callbackState.values THEN "value"
  ELSE IF n \in Current.callbackState.containers THEN "container" ELSE "none"
ClassifyMember(n) == IF Kind(n) = "container" THEN "value" ELSE "none"
ClassifyConditional(n, m) == IF Kind(n) = Kind(m) THEN Kind(n) ELSE "none"
ClassifyContainer(n) == IF Kind(n) # "none" THEN "container" ELSE "none"
ClassifyNodeTaint(e) ==
  CASE e.form = "other" -> "none"
    [] e.form = "name" -> Kind(e.of[1])
    [] e.form = "member" -> ClassifyMember(e.of[1])
    [] e.form = "choice" -> ClassifyConditional(e.of[1], e.of[2])
    [] OTHER -> ClassifyContainer(e.of[1])

(* The call of an event with the first argument e is reported. *)
Reported(e) == InTopLevelCallback /\ trackedEvents /\ ClassifyNodeTaint(e) = "value"

-----------------------------------------------------------------------------
(* The innermost function is a callback, connected after the import.       *)
IsInnermost(i) == eventPath[i].kind # "if" /\ \A j \in i + 1 .. Len(eventPath) : eventPath[j].kind = "if"
InCallback == \E i \in DOMAIN eventPath : IsInnermost(i) /\ eventPath[i].kind = "callback" /\ eventPath[i].early

(* What the rule does not tell apart: a name that holds the player once    *)
(* and a container of it another time.                                     *)
Ambiguous == \E n \in Locals : "player" \in held[n] /\ held[n] \cap {"box", "mixed"} # {}

(* An event that a callback sends back to its player, whatever way the     *)
(* player went through variables, containers and branches, is reported by  *)
(* no-events-in-events-callback; and what it reports is sent back to the   *)
(* player, if assignments that follow others are disregarded.              *)
SentBackIsReported ==
  \A e \in Expressions :
    /\ InCallback /\ ~ deep /\ ~ Ambiguous /\ (\A env \in envs : Means(e, env) = {"player"}) => Reported(e)
    /\ Reported(e) /\ ~ deep => InCallback /\ "player" \in MayMean(e)
=============================================================================
