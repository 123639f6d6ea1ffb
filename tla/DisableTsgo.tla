---------------------------- MODULE DisableTsgo ----------------------------
(***************************************************************************)
(* scripts/disable-tsgo.ts: every Zed settings file that names tsgo gets   *)
(* its lists of language servers rewritten. The reads of all files are     *)
(* under way at once, later the writes are; each may fail.                 *)
(***************************************************************************)
EXTENDS LanguageServers, FiniteSets

CONSTANT Settings      \* what a file may hold

VARIABLES step, reads, scanned, writes

vars == <<files, dryRun, step, reads, skipped, scanned, writes, changed, tsgoStatus, original>>

Init ==
  /\ files \in [Paths -> Settings] /\ original = files
  /\ dryRun \in BOOLEAN
  /\ step = "scan" /\ reads = Paths /\ skipped = {} /\ scanned = {}
  /\ writes = {} /\ changed = {} /\ tsgoStatus = "running"

-----------------------------------------------------------------------------
(* One list. A mistake: vtsls always goes to the end.                      *)
Flip(server) == CASE server = "tsgo" -> "!tsgo" [] server = "!vtsls" -> "vtsls" [] OTHER -> server
NeedsVtsls(list) == Contains(list, "tsgo") \/ Contains(list, "!vtsls")
InsertVtslsLast(list) == Append(list, "vtsls")
InsertVtsls(list) ==
  IF Contains(list, "...") /\ FirstAt(list, "...") = Len(list)
  THEN Front(list) \o <<"vtsls", "...">>
  ELSE Append(list, "vtsls")
FlipAndAddVtsls(list) ==
  LET result == [i \in DOMAIN list |-> Flip(list[i])]
  IN  IF NeedsVtsls(list) /\ ~ Contains(result, "vtsls") THEN InsertVtsls(result) ELSE result
DisableTsgoInSettings(text) == [text EXCEPT !.lists = [i \in DOMAIN @ |-> FlipAndAddVtsls(@[i])]]

-----------------------------------------------------------------------------
(* A file that cannot be read, does not name tsgo or is not settings is no *)
(* result of the scan.                                                     *)
Read(p) ==
  /\ p \in reads /\ reads' = reads \ {p}
  /\ \/ /\ scanned' = IF Mentions(files[p]) /\ files[p].valid THEN scanned \cup {p} ELSE scanned
        /\ UNCHANGED skipped
     \/ skipped' = skipped \cup {p} /\ UNCHANGED scanned
  /\ UNCHANGED <<files, dryRun, step, writes, changed, tsgoStatus, original>>

FindNothing ==
  /\ step = "scan" /\ reads = {} /\ scanned = {}
  /\ step' = "end" /\ tsgoStatus' = "nothing"
  /\ UNCHANGED <<files, dryRun, reads, skipped, scanned, writes, changed, original>>

Process ==
  /\ step = "scan" /\ reads = {} /\ scanned # {}
  /\ changed' = {p \in scanned : DisableTsgoInSettings(files[p]) # files[p]}
  /\ writes' = IF dryRun THEN {} ELSE changed'
  /\ step' = "write"
  /\ UNCHANGED <<files, dryRun, reads, skipped, scanned, tsgoStatus, original>>

(* The first write that fails rejects Promise.all, and the others go on.   *)
(* It may leave a text cut short.                                          *)
Write(p) ==
  /\ p \in writes /\ writes' = writes \ {p}
  /\ \/ files' = [files EXCEPT ![p] = DisableTsgoInSettings(files[p])] /\ UNCHANGED <<step, tsgoStatus>>
     \/ /\ files' \in {files, [files EXCEPT ![p].valid = FALSE]}
        /\ step' = "end" /\ tsgoStatus' = "failed"
  /\ UNCHANGED <<dryRun, reads, skipped, scanned, changed, original>>

Summarise ==
  /\ step = "write" /\ writes = {}
  /\ step' = "end" /\ tsgoStatus' = "summarised"
  /\ UNCHANGED <<files, dryRun, reads, skipped, scanned, writes, changed, original>>

Next == (\E p \in Paths : Read(p) \/ Write(p)) \/ FindNothing \/ Process \/ Summarise

Spec == Init /\ [][Next]_vars

-----------------------------------------------------------------------------
TypeOK ==
  /\ writes \subseteq changed /\ changed \subseteq scanned /\ scanned \subseteq Paths \ reads
  /\ dryRun => files = original
=============================================================================
