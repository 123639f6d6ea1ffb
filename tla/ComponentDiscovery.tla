------------------------- MODULE ComponentDiscovery -------------------------
(***************************************************************************)
(* Discovery of local components, and prefer-local-portal-component as the *)
(* rule that uses it. Project roots, the index of a project's files and    *)
(* their texts are kept in caches of the process that are never emptied;   *)
(* in an editor the process lints many times while the files change.       *)
(*                                                                         *)
(* A component file is a file whose name is the component's; what it says  *)
(* is abstracted to whether it defines and exports the component.          *)
(***************************************************************************)
EXTENDS LocalComponents

CONSTANT OtherFiles    \* files that may call createPortal

DiscoveryAssumption ==
  /\ \A d \in Directories : Parent[d] \in Directories \cup {0} /\ Parent[d] < d
  /\ \A f \in ComponentFiles \cup OtherFiles : DirectoryOf[f] \in Directories

VARIABLES
  projectRootCache, fileIndexCache, fileTextCache,
  definition, discovery     \* of the rule on one file, beside linting and identifiers

disk == <<manifests, content>>
caches == <<projectRootCache, fileIndexCache, fileTextCache>>
rule == <<linting, definition, identifiers, discovery>>
vars == <<disk, caches, rule, verdict, edited, outdated>>

Files == ComponentFiles \cup OtherFiles

Init ==
  /\ manifests \in SUBSET Directories
  /\ content \in [ComponentFiles -> {Nothing, "other", "component"}]
  /\ projectRootCache = [d \in Directories |-> 0]
  /\ fileIndexCache = [d \in Directories |-> {Nothing}]
  /\ fileTextCache = [f \in ComponentFiles |-> Nothing]
  /\ linting = Nothing /\ definition = FALSE /\ identifiers = {} /\ discovery = Nothing
  /\ verdict = Nothing /\ edited = FALSE /\ outdated = FALSE

-----------------------------------------------------------------------------
(* The caches. A root that is not found is looked for again. A mistake:    *)
(* the last directory looked at is remembered.                             *)
RootRemembered(d) ==
  IF projectRootCache[d] # 0 THEN projectRootCache[d]
  ELSE IF RootNow(d) = 0 THEN 1 ELSE RootNow(d)
Root(d) == IF projectRootCache[d] # 0 THEN projectRootCache[d] ELSE RootNow(d)
Index(root) == IF fileIndexCache[root] = {Nothing} THEN IndexNow(root) ELSE fileIndexCache[root]
Text(f) == IF fileTextCache[f] # Nothing THEN fileTextCache[f] ELSE content[f]

(* Inspecting files looks up the root of each, and reads those named like  *)
(* the component. Reading a file that is gone throws.                      *)
Inspecting(dirs, files) ==
  /\ projectRootCache' = [d \in Directories |-> IF d \in dirs THEN Root(d) ELSE projectRootCache[d]]
  /\ fileTextCache' = [f \in ComponentFiles |-> IF f \in files THEN Text(f) ELSE fileTextCache[f]]
Throws(f) == Text(f) = Nothing
Matches(f) == Text(f) = "component"

Fail == verdict' = "thrown" /\ linting' = Nothing
Disk == UNCHANGED <<disk, outdated>>

-----------------------------------------------------------------------------
(* One run of the rule on one file. *)
CreateRule(f) ==
  LET own == {f} \cap ComponentFiles
  IN  /\ linting = Nothing
      /\ Inspecting({DirectoryOf[f]}, own)
      /\ identifiers' = {} /\ discovery' = Nothing /\ edited' = FALSE
      /\ IF \E c \in own : Throws(c)
         THEN Fail /\ definition' = FALSE
         ELSE linting' = f /\ verdict' = Nothing /\ definition' = (\E c \in own : Matches(c))
      /\ Disk /\ UNCHANGED fileIndexCache

(* An import of a file; only what exists is resolved. *)
ImportDeclaration(f) ==
  /\ linting # Nothing /\ verdict = Nothing
  /\ content[f] # Nothing
  /\ Inspecting({DirectoryOf[f]}, {f})
  /\ identifiers' = IF Matches(f) THEN identifiers \cup {f} ELSE identifiers
  /\ Disk /\ UNCHANGED <<fileIndexCache, linting, definition, discovery, verdict, edited>>

(* A call of createPortal. Discovery runs once per run of the rule; it     *)
(* inspects the candidates in the order of the directory's entries.        *)
Report(available) == verdict' = IF available THEN "reported" ELSE "silent"
CallAvailable ==
  /\ linting # Nothing /\ (definition \/ identifiers # {} \/ discovery # Nothing)
  /\ Report(~definition /\ (identifiers # {} \/ discovery = "found"))
  /\ Disk /\ UNCHANGED <<caches, rule, edited>>

CallDiscovers ==
  LET dir == DirectoryOf[linting]
      root == Root(dir)
      candidates == IF root = 0 THEN {} ELSE Index(root)
      found == Cardinality({f \in candidates : Matches(f)}) = 1
  IN  /\ linting # Nothing /\ ~definition /\ identifiers = {} /\ discovery = Nothing
      /\ fileIndexCache' = IF root = 0 THEN fileIndexCache
                           ELSE [fileIndexCache EXCEPT ![root] = candidates]
      /\ \/ /\ \E f \in candidates, before \in SUBSET candidates :
                 /\ Throws(f) /\ \A c \in before : ~Throws(c)
                 /\ Inspecting({dir, DirectoryOf[f]} \cup {DirectoryOf[c] : c \in before}, before)
            /\ Fail /\ UNCHANGED discovery
         \/ /\ \A f \in candidates : ~Throws(f)
            /\ Inspecting({dir} \cup {DirectoryOf[f] : f \in candidates}, candidates)
            /\ discovery' = IF found THEN "found" ELSE "missing"
            /\ Report(found) /\ UNCHANGED linting
      /\ Disk /\ UNCHANGED <<definition, identifiers, edited>>

EndLint ==
  /\ linting # Nothing
  /\ linting' = Nothing /\ definition' = FALSE /\ identifiers' = {} /\ discovery' = Nothing
  /\ verdict' = Nothing
  /\ Disk /\ UNCHANGED <<caches, edited>>

-----------------------------------------------------------------------------
(* The files change at any time, and then a cache may hold something that  *)
(* is no longer so.                                                        *)
Outdated ==
  \/ \E d \in Directories : projectRootCache[d] \notin {0, RootNow(d)}
  \/ \E d \in Directories : fileIndexCache[d] # {Nothing} /\ fileIndexCache[d] # IndexNow(d)
  \/ \E f \in ComponentFiles : fileTextCache[f] \notin {Nothing, content[f]}
EditManifest(d) ==
  /\ manifests' = IF d \in manifests THEN manifests \ {d} ELSE manifests \cup {d}
  /\ UNCHANGED <<content, caches, rule, verdict>>
  /\ edited' = TRUE /\ outdated' = Outdated'
EditFile(f, new) ==
  /\ new # content[f] /\ content' = [content EXCEPT ![f] = new]
  /\ UNCHANGED <<manifests, caches, rule, verdict>>
  /\ edited' = TRUE /\ outdated' = Outdated'

Lint ==
  \/ \E f \in Files : CreateRule(f)
  \/ \E f \in ComponentFiles : ImportDeclaration(f)
  \/ CallAvailable \/ CallDiscovers \/ EndLint
Edit ==
  \/ \E d \in Directories : EditManifest(d)
  \/ \E f \in ComponentFiles, new \in {Nothing, "other", "component"} : EditFile(f, new)
Next == Lint \/ Edit
Spec == Init /\ [][Next]_vars

-----------------------------------------------------------------------------
(* The properties are in LocalComponents.tla. *)
TypeOK ==
  /\ manifests \subseteq Directories /\ projectRootCache \in [Directories -> Directories \cup {0}]
  /\ fileIndexCache \in [Directories -> {{Nothing}} \cup SUBSET ComponentFiles]
  /\ fileTextCache \in [ComponentFiles -> {Nothing, "other", "component"}]
  /\ linting \in Files \cup {Nothing} /\ identifiers \subseteq ComponentFiles
  /\ verdict \in {Nothing, "reported", "silent", "thrown"}
=============================================================================
