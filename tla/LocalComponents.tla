-------------------------- MODULE LocalComponents ---------------------------
(***************************************************************************)
(* A project with components, a run of prefer-local-portal-component on    *)
(* one of its files, and what the rule should say of it: the part of the   *)
(* state of ComponentDiscovery.tla that is not a cache.                    *)
(***************************************************************************)
EXTENDS Naturals, FiniteSets

CONSTANTS
  Directories,      \* numbered; 1 is the root of the file system
  Parent,           \* the directory above a directory, 0 above the root
  ComponentFiles,   \* files named like the component
  DirectoryOf

VARIABLES
  manifests,    \* the directories with a package.json
  content,      \* what component files say
  linting,      \* the file the rule runs on
  identifiers,  \* the component files that it imports
  verdict,      \* the answer to its last call of createPortal
  edited,       \* whether the disk changed since this run began,
  outdated      \* and whether a cache disagreed with it when it changed last

Nothing == "nothing"     \* no root, no file, no entry in a cache

-----------------------------------------------------------------------------
(* What the disk says now. *)
Above(d) ==
  LET chain[n \in Nat] ==
        IF n = 0 THEN {d} ELSE chain[n - 1] \cup ({Parent[x] : x \in chain[n - 1]} \ {0})
  IN  chain[Cardinality(Directories)]
RootNow(d) ==
  LET roots == Above(d) \cap manifests
      nearest == {r \in roots : \A x \in roots : x <= r}
  IN  IF nearest = {} THEN 0 ELSE CHOOSE r \in nearest : TRUE
IndexNow(root) == {f \in ComponentFiles : root \in Above(DirectoryOf[f]) /\ content[f] # Nothing}

Desired ==
  LET root == RootNow(DirectoryOf[linting])
  IN  /\ ~(linting \in ComponentFiles /\ content[linting] = "component")
      /\ \/ \E f \in identifiers : content[f] = "component"
         \/ root # 0 /\ Cardinality({f \in IndexNow(root) : content[f] = "component"}) = 1

(* prefer-local-portal-component is wrong only about what was different    *)
(* when the process first looked: a component, a file or a project that it *)
(* did not find leaves no trace in the caches, so a project that appears   *)
(* later is seen.                                                          *)
WrongOnlyIfOutdated ==
  linting # Nothing /\ verdict # Nothing /\ ~edited /\ ~outdated =>
    (verdict = "reported") = Desired
=============================================================================
