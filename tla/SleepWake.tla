----------------------------- MODULE SleepWake ------------------------------
(***************************************************************************)
(* One agent process that goes to sleep and is woken: its rows, its tmux   *)
(* sessions, its worktree, the `process resume` commands and the wake      *)
(* scheduler with its orphan cleanup.                                      *)
(*                                                                         *)
(* Segment 1 is launched by the dispatcher, whose script wraps the loop    *)
(* and settles the row and the worktree when the loop is over.  A later    *)
(* segment is launched by resume, which starts the loop alone.  What one   *)
(* SQL statement does to the rows is one step here (see ProcessTable).     *)
(***************************************************************************)
EXTENDS Naturals, Sequences

CONSTANTS
  Resumers,   \* `process resume` commands, of the scheduler or of a person
  Nobody,     \* no such command
  MaxSegs     \* bound on the segments

ASSUME SleepWakeAssumption == Nobody \notin Resumers /\ MaxSegs \in Nat \ {0}

VARIABLES
  script,    \* whether the loop is a script that writes .sleeping, sleeps and exits
  status,    \* status[i] of the row of segment i
  session,   \* session[i]: where the tmux session of segment i is
  launched,  \* launched[i]: how many sessions were ever started for segment i
  tree,      \* the worktree: whether it is there, and whether Job 2 ever tore it down
  flag,      \* workspace/.sleeping
  resume,    \* resume[r]: the command r, its step and segment, and its exit code
  daemon,    \* the wake scheduler: its step, the segment and the command it is at
  quiet      \* the segments created, and last heard of, before the cutoff of Job 2

vars == <<script, status, session, launched, tree, flag, resume, daemon, quiet>>

Segs == 1..MaxSegs
Rows == DOMAIN status
Statuses == {"pending", "active", "waiting", "completed", "failed"}
Running == {"loop", "flagged"}
SessionSteps == Running \cup {"none", "exited", "aborted", "complete", "fail", "teardown", "over"}
ResumeSteps == {"idle", "read", "claim", "provision", "launch", "fail"}
DaemonSteps == {"idle", "waking", "failing", "orphans", "reap", "demolish", "dead"}

TypeOK ==
  /\ script \in BOOLEAN /\ flag \in BOOLEAN
  /\ status \in Seq(Statuses) /\ Len(status) \in Segs
  /\ session \in [Segs -> SessionSteps]
  /\ launched \in [Segs -> Nat]
  /\ tree \in [there: BOOLEAN, cleaned: BOOLEAN]
  /\ resume \in [Resumers -> [step: ResumeSteps, seg: Segs, ok: BOOLEAN]]
  /\ daemon \in [step: DaemonSteps, seg: Segs, child: Resumers \cup {Nobody}]
  /\ quiet \subseteq Rows

\* The dispatcher has made the worktree and launched the session of segment 1.
Init ==
  /\ script \in BOOLEAN
  /\ status = <<"pending">>
  /\ session = [i \in Segs |-> IF i = 1 THEN "loop" ELSE "none"]
  /\ launched = [i \in Segs |-> IF i = 1 THEN 1 ELSE 0]
  /\ tree = [there |-> TRUE, cleaned |-> FALSE]
  /\ flag = FALSE
  /\ resume = [r \in Resumers |-> [step |-> "idle", seg |-> 1, ok |-> TRUE]]
  /\ daemon = [step |-> "idle", seg |-> 1, child |-> Nobody]
  /\ quiet = {}

-----------------------------------------------------------------------------
(* The rows, as ProcessesService updates them. *)

Set(i, s) == [status EXCEPT ![i] = s]
Guarded(i, from, s) == IF status[i] \in from THEN Set(i, s) ELSE status

\* Mutant: the status is one the schema does not know.
CompletingMisspelt(i) == Guarded(i, {"active"}, "complete")

Completing(i) == Guarded(i, {"active"}, "completed")
Failing(i) == Guarded(i, {"active", "pending", "waiting"}, "failed")

Goto(i, step) == session' = [session EXCEPT ![i] = step]

-----------------------------------------------------------------------------
(* A session: the loop and, for segment 1, the script around it. *)

\* process active, best effort: run by the loop and, beside it, by the wrapper, which waits
\* for it only when the loop is over.
LoopActivates(i) ==
  /\ session[i] \in Running \cup {"exited", "aborted"}
  /\ status[i] \in {"pending", "waiting"}
  /\ status' = Set(i, "active")
  /\ UNCHANGED <<script, session, launched, tree, flag, resume, daemon, quiet>>

LoopEmits(i) ==
  /\ session[i] \in Running
  /\ quiet' = quiet \ {i}
  /\ UNCHANGED <<script, status, session, launched, tree, flag, resume, daemon>>

\* A script writes .sleeping before it calls process sleep.
ScriptFlags(i) ==
  /\ script /\ tree.there
  /\ session[i] = "loop"
  /\ flag' = TRUE
  /\ Goto(i, "flagged")
  /\ UNCHANGED <<script, status, launched, tree, resume, daemon, quiet>>

\* The loop is over: the wrapper of segment 1 takes its exit code, a session that
\* resume started just ends.
Over(i, step) == Goto(i, IF i = 1 THEN step ELSE "over")

\* Mutant: the old segment stays as it is.
SleepKeepsActive(i) ==
  /\ session[i] = IF script THEN "flagged" ELSE "loop"
  /\ status[i] = "active"
  /\ Len(status) < MaxSegs
  /\ status' = Append(status, "waiting")
  /\ IF script THEN Over(i, "exited") ELSE UNCHANGED session
  /\ UNCHANGED <<script, launched, tree, flag, resume, daemon, quiet>>

\* process sleep by the agent.  A script exits after it; the epoch loop looks at the
\* status of its own row, which is not waiting but completed, and goes on.
Sleep(i) ==
  /\ session[i] = IF script THEN "flagged" ELSE "loop"
  /\ status[i] = "active"
  /\ Len(status) < MaxSegs        \* bound
  /\ status' = Append(Set(i, "completed"), "waiting")
  /\ IF script THEN Over(i, "exited") ELSE UNCHANGED session
  /\ UNCHANGED <<script, launched, tree, flag, resume, daemon, quiet>>

\* process sleep is refused or cannot reach the database: the script exits with 1.
SleepRefused(i) ==
  /\ session[i] = "flagged"
  /\ Over(i, "aborted")
  /\ UNCHANGED <<script, status, launched, tree, flag, resume, daemon, quiet>>

\* The COMPLETE signal: markProcessCompleted, best effort and by id alone.  A script leaves
\* its row alone.
LoopCompletes(i) ==
  /\ session[i] = "loop"
  /\ status' \in IF script THEN {status} ELSE {status, Set(i, "completed")}
  /\ Over(i, "exited")
  /\ UNCHANGED <<script, launched, tree, flag, resume, daemon, quiet>>

\* The budget of epochs or time is used up, or the loop gives up.
LoopEnds(i) ==
  /\ session[i] = "loop"
  /\ Over(i, "exited") \/ Over(i, "aborted")
  /\ UNCHANGED <<script, status, launched, tree, flag, resume, daemon, quiet>>

SessionDies(i) ==
  /\ session[i] \notin {"none", "over"}
  /\ Goto(i, "over")
  /\ UNCHANGED <<script, status, launched, tree, flag, resume, daemon, quiet>>

\* Mutant: the wrapper asks only for the status.
SleepingByStatus == status[1] = "waiting"

Sleeping == flag \/ status[1] = "waiting"

\* The wrapper reads the flag and the status: of a sleeping process it stops the services
\* and keeps the worktree.
WrapperDecides ==
  /\ session[1] \in {"exited", "aborted"}
  /\ IF Sleeping THEN flag' = FALSE /\ Goto(1, "over")
                 ELSE UNCHANGED flag /\ Goto(1, IF session[1] = "exited" THEN "complete" ELSE "fail")
  /\ UNCHANGED <<script, status, launched, tree, resume, daemon, quiet>>

\* process complete or process fail; when it cannot reach the database the wrapper goes on.
WrapperSettles ==
  /\ session[1] \in {"complete", "fail"}
  /\ status' \in {status, IF session[1] = "complete" THEN Completing(1) ELSE Failing(1)}
  /\ Goto(1, "teardown")
  /\ UNCHANGED <<script, launched, tree, flag, resume, daemon, quiet>>

WrapperTearsDown ==
  /\ session[1] = "teardown"
  /\ tree' = [tree EXCEPT !.there = FALSE] /\ flag' = FALSE
  /\ Goto(1, "over")
  /\ UNCHANGED <<script, status, launched, resume, daemon, quiet>>

-----------------------------------------------------------------------------
(* process resume. *)

Step(r, step) == resume' = [resume EXCEPT ![r].step = step]
Exit(r, ok) == resume' = [resume EXCEPT ![r].step = "idle", ![r].ok = ok]
Start(r, i) == resume' = [resume EXCEPT ![r] = [step |-> "read", seg |-> i, ok |-> TRUE]]

PersonResumes(r, i) ==
  /\ resume[r].step = "idle" /\ daemon.child # r
  /\ status[i] = "waiting"
  /\ Start(r, i)
  /\ UNCHANGED <<script, status, session, launched, tree, flag, daemon, quiet>>

ResumeReads(r) ==
  /\ resume[r].step = "read"
  /\ IF status[resume[r].seg] # "waiting" THEN Exit(r, TRUE)
     ELSE Step(r, IF tree.there THEN "claim" ELSE "fail")
  /\ UNCHANGED <<script, status, session, launched, tree, flag, daemon, quiet>>

\* Mutant: the claim does not look at the status.
ResumeClaimsAny(r) ==
  /\ resume[r].step = "claim"
  /\ status' = Set(resume[r].seg, "active")
  /\ Step(r, "provision")
  /\ UNCHANGED <<script, session, launched, tree, flag, daemon, quiet>>

ResumeClaims(r) ==
  /\ resume[r].step = "claim"
  /\ status' = Guarded(resume[r].seg, {"waiting"}, "active")
  /\ IF status[resume[r].seg] = "waiting" THEN Step(r, "provision") ELSE Exit(r, TRUE)
  /\ UNCHANGED <<script, session, launched, tree, flag, daemon, quiet>>

\* The wake note makes the directory again if the worktree has gone meanwhile, and the
\* provisioner and the snapshot, whose failure is not fatal, the rest.
ResumeProvisions(r) ==
  /\ resume[r].step = "provision"
  /\ tree' = [tree EXCEPT !.there = TRUE]
  /\ Step(r, "launch")
  /\ UNCHANGED <<script, status, session, launched, flag, daemon, quiet>>

ResumeLaunches(r) ==
  /\ resume[r].step = "launch"
  /\ Goto(resume[r].seg, "loop")
  /\ launched' = [launched EXCEPT ![resume[r].seg] = @ + 1]
  /\ Exit(r, TRUE)
  /\ UNCHANGED <<script, status, tree, flag, daemon, quiet>>

LaunchFails(r) ==
  /\ resume[r].step = "launch"
  /\ Step(r, "fail")
  /\ UNCHANGED <<script, status, session, launched, tree, flag, daemon, quiet>>

ResumeFails(r) ==
  /\ resume[r].step = "fail"
  /\ status' = Failing(resume[r].seg)
  /\ Exit(r, FALSE)
  /\ UNCHANGED <<script, session, launched, tree, flag, daemon, quiet>>

\* The command is killed, by the scheduler's timeout or otherwise.
ResumeDies(r) ==
  /\ resume[r].step # "idle"
  /\ Exit(r, FALSE)
  /\ UNCHANGED <<script, status, session, launched, tree, flag, daemon, quiet>>

-----------------------------------------------------------------------------
(* The wake scheduler. *)

Waiting == {i \in Rows : status[i] = "waiting"}
Orphans == {i \in Rows : status[i] = "active" /\ i \in quiet}

Enter(step) == daemon' = [daemon EXCEPT !.step = step, !.child = Nobody]

DaemonWakes(r, i) ==
  /\ daemon.step = "idle"
  /\ i \in Waiting
  /\ resume[r].step = "idle"
  /\ Start(r, i)
  /\ daemon' = [step |-> "waking", seg |-> i, child |-> r]
  /\ UNCHANGED <<script, status, session, launched, tree, flag, quiet>>

NothingToWake ==
  /\ daemon.step = "idle"
  /\ Waiting = {}
  /\ Enter("orphans")
  /\ UNCHANGED <<script, status, session, launched, tree, flag, resume, quiet>>

ChildExits ==
  /\ daemon.step = "waking"
  /\ resume[daemon.child].step = "idle"
  /\ Enter(IF resume[daemon.child].ok THEN "orphans" ELSE "failing")
  /\ UNCHANGED <<script, status, session, launched, tree, flag, resume, quiet>>

\* execFile gives up after 30 s and signals the package manager; the command below it
\* may go on.
ChildTimesOut ==
  /\ daemon.step = "waking"
  /\ resume[daemon.child].step # "idle"
  /\ Enter("failing")
  /\ UNCHANGED <<script, status, session, launched, tree, flag, resume, quiet>>

\* Mutant: a wake-up that failed is only logged.
DaemonLogs ==
  /\ daemon.step = "failing"
  /\ Enter("orphans")
  /\ UNCHANGED <<script, status, session, launched, tree, flag, resume, quiet>>

DaemonFails ==
  /\ daemon.step = "failing"
  /\ status' = Failing(daemon.seg)
  /\ Enter("orphans")
  /\ UNCHANGED <<script, session, launched, tree, flag, resume, quiet>>

\* Job 2, for each orphan: fail it, then tear down.
DaemonFinds(i) ==
  /\ daemon.step = "orphans"
  /\ i \in Orphans
  /\ daemon' = [step |-> "reap", seg |-> i, child |-> Nobody]
  /\ UNCHANGED <<script, status, session, launched, tree, flag, resume, quiet>>

\* Mutant: the status is left alone, as by the compose job.
DaemonKeepsStatus ==
  /\ daemon.step = "reap"
  /\ Enter("demolish")
  /\ UNCHANGED <<script, status, session, launched, tree, flag, resume, quiet>>

DaemonReaps ==
  /\ daemon.step = "reap"
  /\ status' = Failing(daemon.seg)
  /\ Enter("demolish")
  /\ UNCHANGED <<script, session, launched, tree, flag, resume, quiet>>

\* The teardown, which may fail; the list of orphans, read once, is at its end (OneLive).
DaemonDemolishes ==
  /\ daemon.step = "demolish"
  /\ \/ tree' = [there |-> FALSE, cleaned |-> TRUE] /\ flag' = FALSE
     \/ UNCHANGED <<tree, flag>>
  /\ Enter("idle")
  /\ UNCHANGED <<script, status, session, launched, resume, quiet>>

NoOrphans ==
  /\ daemon.step = "orphans"
  /\ Orphans = {}
  /\ Enter("idle")
  /\ UNCHANGED <<script, status, session, launched, tree, flag, resume, quiet>>

\* The scheduler dies, or cannot reach the database.
DaemonDies ==
  /\ daemon.step # "dead"
  /\ Enter("dead")
  /\ UNCHANGED <<script, status, session, launched, tree, flag, resume, quiet>>

DaemonStarts ==
  /\ daemon.step = "dead"
  /\ Enter("idle")
  /\ UNCHANGED <<script, status, session, launched, tree, flag, resume, quiet>>

\* The cutoff passes the creation of a row and the last event of it.
FallsQuiet(i) ==
  /\ quiet' = quiet \cup {i}
  /\ UNCHANGED <<script, status, session, launched, tree, flag, resume, daemon>>

-----------------------------------------------------------------------------
SessionNext(i) ==
  \/ LoopActivates(i) \/ LoopEmits(i) \/ ScriptFlags(i) \/ Sleep(i) \/ SleepRefused(i)
  \/ LoopCompletes(i) \/ LoopEnds(i) \/ SessionDies(i)

WrapperNext == WrapperDecides \/ WrapperSettles \/ WrapperTearsDown

ResumeNext(r) ==
  \/ ResumeReads(r) \/ ResumeClaims(r) \/ ResumeProvisions(r) \/ ResumeLaunches(r)
  \/ LaunchFails(r) \/ ResumeFails(r)

DaemonNext ==
  \/ \E r \in Resumers, i \in Rows : DaemonWakes(r, i)
  \/ NothingToWake \/ ChildExits \/ ChildTimesOut \/ DaemonFails
  \/ \E i \in Rows : DaemonFinds(i)
  \/ DaemonReaps \/ DaemonDemolishes \/ NoOrphans \/ DaemonStarts

Next ==
  \/ \E i \in Rows : SessionNext(i) \/ FallsQuiet(i)
  \/ WrapperNext
  \/ \E r \in Resumers : ResumeNext(r) \/ ResumeDies(r)
  \/ \E r \in Resumers, i \in Rows : PersonResumes(r, i)
  \/ DaemonNext
  \/ DaemonDies

Spec == Init /\ [][Next]_vars

\* The scheduler is a daemon that is started again when it dies and does not die for ever,
\* a command that is not killed goes on, and time passes.  Nothing is assumed of the loops.
FairSpec ==
  /\ Spec
  /\ SF_vars(DaemonNext) /\ <>[][~DaemonDies]_vars
  /\ \A r \in Resumers : WF_vars(ResumeNext(r))
  /\ \A i \in Segs : WF_vars(i \in Rows /\ session[i] \notin Running /\ FallsQuiet(i))

-----------------------------------------------------------------------------
Live == {i \in Rows : status[i] \in {"pending", "active", "waiting"}}

\* Of the segments of a process at most one is still to be worked on: no step of the loop,
\* of a command, of the wrapper or of the scheduler brings a segment back next to another.
OneLive == \A i, j \in Live : i = j

\* However many commands and schedulers try, a segment is launched at most once.
ResumedOnce == \A i \in Segs : launched[i] <= 1

\* A script that announces its sleep keeps its worktree, however late the wrapper looks for
\* the flag, as long as the orphan cleanup has torn nothing down, which takes the flag too.
FlagKeepsWorktree == script /\ ~tree.cleaned /\ Waiting # {} => tree.there

\* A sleeping process does not sleep for ever: its segment is woken or failed, also when
\* schedulers and commands die on the way.
SleepEnds == \A i \in Segs : (i \in Waiting) ~> (i \notin Waiting)

\* Nobody runs segment i, nor is about to.
Ghost(i) ==
  /\ i \in Rows /\ status[i] = "active"
  /\ session[i] \notin Running
  /\ \A r \in Resumers : resume[r].seg = i => resume[r].step = "idle"

\* A segment whose session died, or that was claimed by a command that died, does not stay
\* active: the orphan cleanup gets it.
GhostsReaped == \A i \in Segs : Ghost(i) ~> ~Ghost(i)

\* The wrapper is "stopping infrastructure, preserving worktree" of a sleeping process: the
\* worktree is not torn down while a segment waits to be woken in it.
WorktreePreserved == Waiting # {} => tree.there
=============================================================================
