----------------------------- MODULE CallCycles -----------------------------
(***************************************************************************)
(* The cycles of a file's call graph, and what no-recursive should report  *)
(* of them: the part of the state of Recursion.tla that is not the rule's  *)
(* own.                                                                    *)
(***************************************************************************)
EXTENDS Naturals

CONSTANT Names    \* names of functions and methods

VARIABLES
  calls,      \* the file's call graph, as far as it was walked
  unseen,     \* the part of it that the rule cannot see
  misread,    \* calls by this.m() that the rule takes for calls of m
  phase,      \* "walk", "search", "done"
  reported    \* the calls reported

-----------------------------------------------------------------------------
(* Whom n reaches along edges by one call or more: who is in every set of  *)
(* functions that holds the callees of n and with a function its callees.  *)
Reached(edges, n) ==
  {m \in Names : \A C \in SUBSET Names :
     (\A e \in edges : e[1] = n \/ e[1] \in C => e[2] \in C) => m \in C}

(* The call graph as the rule reads it. *)
CallsAsRead == calls \cup misread

(* Whoever removes the calls that no-recursive reports is left without     *)
(* recursion among the calls it sees: every cycle has a reported call, in  *)
(* whatever order functions are declared, nested and searched. And no call *)
(* is reported in vain: its caller and its callee both are recursive       *)
(* functions of the file, if the calls that are misread are counted.       *)
RecursionIsReported ==
  /\ phase = "done" =>
       \A n \in Names : n \notin Reached((calls \ unseen) \ reported, n)
  /\ \A s \in reported : \A n \in {s[1], s[2]} : n \in Names /\ n \in Reached(CallsAsRead, n)
=============================================================================
