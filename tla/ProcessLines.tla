---------------------------- MODULE ProcessLines ----------------------------
(***************************************************************************)
(* The segments of the `processes` table implement one logical process     *)
(* each: a line is a row made by init or restart and the rows that         *)
(* successive sleeps made of it, and the phase of the process is the       *)
(* status of the last row of its line.                                     *)
(***************************************************************************)
EXTENDS ProcessTable

\* The first row of the line that row i belongs to.
HeadOf[i \in Ids] == IF rows[i].origin = "sleep" THEN HeadOf[rows[i].parent] ELSE i

Heads == {i \in Ids : rows[i].origin # "sleep"}

\* Row i is the last segment of line h.
IsTip(h, i) == HeadOf[i] = h /\ \A j \in Ids : HeadOf[j] = h => j <= i
Tip(h) == CHOOSE i \in Ids : IsTip(h, i)

PhaseOfStatus(s) ==
  CASE s \in {"pending", "queued"} -> "pending"
    [] s = "active"    -> "running"
    [] s = "waiting"   -> "asleep"
    [] s = "completed" -> "done"
    [] s = "failed"    -> "failed"
    [] s = "blocked"   -> "blocked"

\* The phase of every process that has begun.
Phase == [h \in Heads |-> PhaseOfStatus(rows[Tip(h)].status)]

Logical == INSTANCE LogicalProcess WITH Names <- 1..MaxRows, phase <- Phase

\* Seen through the last segments, ProcessesService is the logical process: sleep,
\* although it reads, counts, completes one row and inserts another, is one Nap, and
\* no race of two clients gives a process two phases.
ImplementsLogicalProcess == Logical!Spec
=============================================================================
