------------------------------ MODULE LineDiff ------------------------------
(***************************************************************************)
(* formatDiff of scripts/disable-tsgo.ts: what a dry run prints. The two   *)
(* texts are compared by a table of common subsequences, walked backwards; *)
(* the changes are gathered into regions with lines of context around      *)
(* them, and each region becomes a hunk that says which lines it replaces. *)
(* One action per turn of the two loops.                                   *)
(***************************************************************************)
EXTENDS Naturals, Sequences, SequencesExt, FiniteSetsExt

CONSTANTS
  Lines,
  MaxLines,     \* bound: lines of a text
  Context       \* CTX in the code, where it is 3

VARIABLES old, new, row, column, operations, scan, regions, phase

vars == <<old, new, row, column, operations, scan, regions, phase>>
texts == <<old, new>>

Init ==
  /\ old \in SeqOf(Lines, MaxLines) /\ new \in SeqOf(Lines, MaxLines)
  /\ row = Len(old) /\ column = Len(new)
  /\ operations = <<>> /\ scan = 1 /\ regions = <<>> /\ phase = "trace"

-----------------------------------------------------------------------------
(* dp: how many lines two beginnings of the texts have in common, in       *)
(* order.                                                                  *)
Better(up, left) == Max({up, left})
Common ==
  LET dp[r \in 0 .. Len(old), c \in 0 .. Len(new)] ==
        IF r = 0 \/ c = 0 THEN 0
        ELSE IF old[r] = new[c] THEN dp[r - 1, c - 1] + 1
        ELSE Better(dp[r - 1, c], dp[r, c - 1])
  IN  dp

Operation(kind, line) == [kind |-> kind, line |-> line]
Same == row > 0 /\ column > 0 /\ old[row] = new[column]
Adds == ~ Same /\ column > 0 /\ (row > 0 => Common[row, column - 1] >= Common[row - 1, column])

(* The operations are found last to first and reversed at the end.         *)
Trace ==
  /\ phase = "trace" /\ row + column > 0
  /\ \/ /\ Same
        /\ operations' = <<Operation("equal", old[row])>> \o operations
        /\ row' = row - 1 /\ column' = column - 1
     \/ /\ Adds
        /\ operations' = <<Operation("add", new[column])>> \o operations
        /\ column' = column - 1 /\ UNCHANGED row
     \/ /\ ~ Same /\ ~ Adds
        /\ operations' = <<Operation("delete", old[row])>> \o operations
        /\ row' = row - 1 /\ UNCHANGED column
  /\ UNCHANGED <<texts, scan, regions, phase>>

Traced ==
  /\ phase = "trace" /\ row + column = 0
  /\ phase' = "collect"
  /\ UNCHANGED <<texts, row, column, operations, scan, regions>>

-----------------------------------------------------------------------------
(* A region is the operations from start up to, not including, end. It is  *)
(* extended until more than Context lines in a row are equal.              *)
Equal(i) == operations[i].kind = "equal"
RunTooLong(i) == i > Context /\ \A k \in i - Context .. i : Equal(k)
Expanded(from) ==
  LET stops == {i \in from .. Len(operations) : i - Context > from /\ RunTooLong(i)}
  IN  IF stops = {} THEN Len(operations) + 1 ELSE Min(stops)

(* A region that reaches into the last one is joined to it.                *)
Joins(start) == regions # <<>> /\ start <= Last(regions).end

Collect ==
  /\ phase = "collect" /\ scan <= Len(operations)
  /\ \/ Equal(scan) /\ scan' = scan + 1 /\ UNCHANGED regions
     \/ /\ ~ Equal(scan)
        /\ LET start == IF scan > Context THEN scan - Context ELSE 1
               end == Min({Expanded(scan) + Context, Len(operations) + 1})
           IN  /\ regions' = IF Joins(start)
                             THEN [regions EXCEPT ![Len(regions)].end = end]
                             ELSE Append(regions, [start |-> start, end |-> end])
               /\ scan' = end
  /\ UNCHANGED <<texts, row, column, operations, phase>>

Collected ==
  /\ phase = "collect" /\ scan > Len(operations)
  /\ phase' = "printed"
  /\ UNCHANGED <<texts, row, column, operations, scan, regions>>

Next == Trace \/ Traced \/ Collect \/ Collected

Spec == Init /\ [][Next]_vars

-----------------------------------------------------------------------------
(* The lines of one side among some operations, and the header of a hunk:  *)
(* the first line of each side, and how many there are. A mistake: the     *)
(* first operation of the region is counted as before it.                  *)
OldLines(ops) == SelectSeq(ops, LAMBDA op : op.kind # "add")
NewLines(ops) == SelectSeq(ops, LAMBDA op : op.kind # "delete")
Texts(ops) == [i \in DOMAIN ops |-> ops[i].line]
CountLinesInclusive(upTo) == LET ops == SubSeq(operations, 1, upTo)
                             IN  [old |-> Len(OldLines(ops)) + 1, new |-> Len(NewLines(ops)) + 1]
CountLines(upTo) == LET ops == SubSeq(operations, 1, upTo - 1)
                    IN  [old |-> Len(OldLines(ops)) + 1, new |-> Len(NewLines(ops)) + 1]
Hunk(region) ==
  LET ops == SubSeq(operations, region.start, region.end - 1)
  IN  [at |-> CountLines(region.start), ops |-> ops,
       oldCount |-> Len(OldLines(ops)), newCount |-> Len(NewLines(ops))]

-----------------------------------------------------------------------------
TypeOK ==
  /\ row \in 0 .. Len(old) /\ column \in 0 .. Len(new)
  /\ scan \in 1 .. Len(operations) + 1
  /\ \A k \in DOMAIN regions : 1 <= regions[k].start /\ regions[k].start < regions[k].end

(* What is left of the operations after walking both tables is a diff of   *)
(* the two texts, and no diff keeps more lines of them.                    *)
Kept(choice) == LET indices == SetToSortSeq(choice, LAMBDA a, b : a < b)
                IN  [k \in DOMAIN indices |-> old[indices[k]]]
IsWithin(part, text) ==
  \E choice \in kSubset(Len(part), DOMAIN text) :
    LET indices == SetToSortSeq(choice, LAMBDA a, b : a < b)
    IN  \A k \in DOMAIN part : text[indices[k]] = part[k]
DiffIsShortest ==
  phase = "printed" =>
    /\ Texts(OldLines(operations)) = old /\ Texts(NewLines(operations)) = new
    /\ \A choice \in SUBSET DOMAIN old :
         IsWithin(Kept(choice), new) =>
           Cardinality(choice) <= Len(SelectSeq(operations, LAMBDA op : op.kind = "equal"))

(* Putting the new lines of every hunk in the place its header names turns *)
(* the old text into the new one: the hunks overlap nowhere, leave nothing *)
(* out, and count their lines and positions on both sides.                 *)
Hunks == [k \in DOMAIN regions |-> Hunk(regions[k])]
Patched ==
  LET upTo[k \in 0 .. Len(Hunks)] ==
        IF k = 0 THEN [text |-> <<>>, read |-> 0]
        ELSE LET h == Hunks[k]
             IN  [text |-> upTo[k - 1].text \o SubSeq(old, upTo[k - 1].read + 1, h.at.old - 1)
                             \o Texts(NewLines(h.ops)),
                  read |-> h.at.old - 1 + h.oldCount]
      last == upTo[Len(Hunks)]
  IN  last.text \o SubSeq(old, last.read + 1, Len(old))
PatchApplies ==
  phase = "printed" =>
    /\ \A k \in DOMAIN Hunks : /\ Hunks[k].at.old + Hunks[k].oldCount <= Len(old) + 1
                              /\ Hunks[k].at.new + Hunks[k].newCount <= Len(new) + 1
    /\ Patched = new
    /\ \A k \in DOMAIN Hunks : SubSeq(new, Hunks[k].at.new, Hunks[k].at.new + Hunks[k].newCount - 1)
                                 = Texts(NewLines(Hunks[k].ops))
    /\ \A k \in 2 .. Len(regions) : regions[k - 1].end < regions[k].start

(* The printed diff says how to get from the old text to the new one, and  *)
(* says it with the fewest lines.                                          *)
DiffIsRight == DiffIsShortest /\ PatchApplies
=============================================================================
