--------------------------- MODULE LogicalProcess ---------------------------
(***************************************************************************)
(* What an agent process promises to whoever started it, with no rows: one *)
(* object per process, which is pending, runs, sleeps and wakes, and ends. *)
(* A process that ended stays ended, except that a failed one can be       *)
(* retried; a restart begins a new process.                                *)
(***************************************************************************)
EXTENDS Integers

CONSTANT Names   \* identities a process may get

VARIABLE phase   \* phase[p], for every process p begun so far

Phases == {"pending", "running", "asleep", "done", "failed", "blocked"}

TypeOK == \E S \in SUBSET Names : phase \in [S -> Phases]

Init == phase = [p \in {} |-> "pending"]

Begin(p, s) ==
  /\ p \notin DOMAIN phase
  /\ phase' = [q \in DOMAIN phase \cup {p} |-> IF q = p THEN s ELSE phase[q]]

Move(p, from, to) ==
  /\ phase[p] \in from
  /\ phase' = [phase EXCEPT ![p] = to]

Start(p)  == Move(p, {"pending"}, "running")
Nap(p)    == Move(p, {"running"}, "asleep")
Wake(p)   == Move(p, {"asleep"}, "running")
Finish(p) == Move(p, {"running"}, "done")
Halt(p)   == Move(p, {"running"}, "blocked")
Break(p)  == Move(p, {"pending", "running", "asleep"}, "failed")
Retry(p)  == Move(p, {"failed"}, "pending")

Next ==
  \/ \E p \in Names : Begin(p, "pending")
  \/ \E p \in DOMAIN phase :
       Start(p) \/ Nap(p) \/ Wake(p) \/ Finish(p) \/ Halt(p) \/ Break(p) \/ Retry(p)

Spec == Init /\ [][Next]_phase
=============================================================================
