---------------------------- MODULE DispatchRuns ----------------------------
(***************************************************************************)
(* Dispatching one skill again and again on one server.  `duoidal execute` *)
(* prunes what the last run left and opens the outer session               *)
(* dispatch-<uuid>; in it collect() provisions a worktree and a row of the *)
(* table, both named by the slug, and launches the loop in the session     *)
(* <slug>, whose script marks the row and tears the worktree down.         *)
(*                                                                         *)
(* A dispatch by goal file of a skill that is there already opens the      *)
(* outer session without pruning.  The wake scheduler's orphan job fails   *)
(* rows that give no sign of life and removes their worktrees.  Sleeping   *)
(* runs are in SleepWake, and the cron poller takes a fresh slug for every *)
(* run.                                                                    *)
(***************************************************************************)
EXTENDS Naturals

CONSTANTS
  Commands,      \* shells in which an operator may run the execute command
  MaxLaunches,   \* bound on loops that get started
  MaxFaults      \* bound on failing commands, kills and careless dispatches

ASSUME DispatchAssumption == MaxLaunches \in Nat /\ MaxFaults \in Nat

VARIABLES
  cmd,       \* cmd[c]: where the execute command in c is
  wrapper,   \* the outer session: collect(), and provision.ts run by it
  loop,      \* the session of the loop
  tree,      \* the worktree
  row,       \* the row of processes with the name of the slug
  ids,       \* rows inserted so far
  launched,  \* loops started so far
  faults,    \* faults so far
  sweep,     \* whether the orphan job has failed a row and not yet removed its worktree
  crossed    \* history: the first time that two were at work which nothing keeps apart

vars == <<cmd, wrapper, loop, tree, row, ids, launched, faults, sweep, crossed>>

Ids == Nat \ {0}
Stale == {"failed", "completed", "pending"}

At(pc, id, blind) == [pc |-> pc, id |-> id, blind |-> blind]
NoWrapper == At("none", 0, FALSE)
NoLoop == [pc |-> "none", id |-> 0, blind |-> FALSE, act |-> FALSE, exit |-> 0]
NoTree == [there |-> FALSE, env |-> 0]    \* env: EVAL_PROCESS_ID in .env, 0 without .env
NoRow == [id |-> 0, status |-> "none"]

Started == At("tree", 0, FALSE)
LoopRunning == loop.pc = "run"
Busy(c) == cmd[c] # "idle"
AnyBusy == \E c \in Commands : Busy(c)
IsRow(i) == i # 0 /\ row.id = i

Wrappers == [pc: {"none", "tree", "row", "skill", "env", "check", "launch"}, id: Nat, blind: BOOLEAN]
Loops == [pc: {"none", "run", "ended", "over"}, id: Nat, blind: BOOLEAN, act: BOOLEAN, exit: {0, 1}]
Trees == [there: BOOLEAN, env: Nat]
Rows == [id: Ids, status: {"pending", "active", "completed", "failed"}]

\* A dispatch of a skill whose loop is live, one that overlaps with another command, one that
\* prunes next to a live outer session, and the orphan job next to any of them.
Crossings == {"loop", "commands", "probe", "orphans"}

TypeOK ==
  /\ cmd \in [Commands -> {"idle", "pruneTree", "pruneRow", "open"}]
  /\ wrapper \in Wrappers
  /\ wrapper.pc \in {"skill", "env", "check", "launch"} => wrapper.id # 0
  /\ loop \in Loops
  /\ loop.pc # "none" => loop.id # 0
  /\ tree \in Trees
  /\ row \in Rows \cup {NoRow}
  /\ ids \in Nat /\ launched \in 0..MaxLaunches /\ faults \in 0..MaxFaults
  /\ sweep \in BOOLEAN
  /\ crossed \in Crossings \cup {"none"}

Init ==
  /\ cmd = [c \in Commands |-> "idle"] /\ wrapper = NoWrapper /\ loop = NoLoop /\ tree = NoTree /\ row = NoRow
  /\ ids = 0 /\ launched = 0 /\ faults = 0
  /\ sweep = FALSE /\ crossed = "none"

Fault == faults < MaxFaults /\ faults' = faults + 1                \* bound
NoFault == UNCHANGED faults
Cross(with) == crossed' = IF crossed = "none" THEN with ELSE crossed

-----------------------------------------------------------------------------
(* The execute command. *)

Goto(c, pc) == cmd' = [cmd EXCEPT ![c] = pc]

\* Whom a dispatch meets that its own checks do not see.
Meets ==
  IF loop # NoLoop THEN "loop" ELSE IF AnyBusy THEN "commands" ELSE IF sweep THEN "orphans" ELSE "none"

\* An operator dispatches when the skill has no live loop and no other command is under way;
\* to do otherwise is a fault.
Dispatching(c) ==
  /\ ~Busy(c)
  /\ launched < MaxLaunches                                        \* bound
  /\ Cross(Meets)
  /\ IF Meets \in {"loop", "commands"} THEN Fault ELSE NoFault

\* Mutant: prune without the probe.
ExecuteUnprobed(c) ==
  /\ Dispatching(c)
  /\ Goto(c, "pruneTree")
  /\ UNCHANGED <<wrapper, loop, tree, row, ids, launched, sweep>>

\* --skill-resource-id: the probe for dispatch-<slug> finds the outer session only.  If there
\* is one the command ends there.
Execute(c) ==
  /\ Dispatching(c)
  /\ wrapper = NoWrapper
  /\ Goto(c, "pruneTree")
  /\ UNCHANGED <<wrapper, loop, tree, row, ids, launched, sweep>>

\* With --force there is no probe, and one that gets no answer in ten seconds passes.
ExecuteAnyway(c) ==
  /\ ~Busy(c)
  /\ launched < MaxLaunches                                        \* bound
  /\ wrapper # NoWrapper
  /\ Cross("probe") /\ Fault
  /\ Goto(c, "pruneTree")
  /\ UNCHANGED <<wrapper, loop, tree, row, ids, launched, sweep>>

\* A goal file: tmux refuses a second session of the same name, and that is the only check.
ExecuteGoal(c) ==
  /\ Dispatching(c)
  /\ wrapper = NoWrapper
  /\ wrapper' = Started
  /\ UNCHANGED <<cmd, loop, tree, row, ids, launched, sweep>>

\* pruneBranchAndWorktree and pruneBaseDir, best effort.
PruneTree(c) ==
  /\ cmd[c] = "pruneTree"
  /\ Goto(c, "pruneRow")
  /\ \/ tree' = NoTree /\ NoFault
     \/ tree.there /\ UNCHANGED tree /\ Fault
  /\ UNCHANGED <<wrapper, loop, row, ids, launched, sweep, crossed>>

\* Mutant: rows of failed runs are left to the user.
PruneRowKeepsFailed(c) ==
  /\ cmd[c] = "pruneRow"
  /\ Goto(c, "open")
  /\ row' = (IF row.status \in Stale \ {"failed"} THEN NoRow ELSE row) /\ NoFault
  /\ UNCHANGED <<wrapper, loop, tree, ids, launched, sweep, crossed>>

\* prunePendingProcessRow, best effort: a live row is left in place with a warning.  The
\* DELETE asks again for the id and the status of the row that was read before it.
PruneRow(c) ==
  /\ cmd[c] = "pruneRow"
  /\ Goto(c, "open")
  /\ \/ row' = (IF row.status \in Stale THEN NoRow ELSE row) /\ NoFault
     \/ row.status \in Stale /\ UNCHANGED row /\ Fault
  /\ UNCHANGED <<wrapper, loop, tree, ids, launched, sweep, crossed>>

\* tmux refuses a second session of the same name.
Open(c) ==
  /\ cmd[c] = "open"
  /\ Goto(c, "idle")
  /\ wrapper' = IF wrapper = NoWrapper THEN Started ELSE wrapper
  /\ UNCHANGED <<loop, tree, row, ids, launched, faults, sweep, crossed>>

-----------------------------------------------------------------------------
(* collect() in the outer session.  A step that throws ends the session. *)

WrapperQuiet == UNCHANGED <<cmd, loop, ids, launched, sweep, crossed>>
Throws == wrapper' = NoWrapper

\* Mutant: the .env of an existing worktree is not read.
ProvisionTreeForgets ==
  /\ wrapper.pc = "tree"
  /\ wrapper' = At("row", 0, FALSE)
  /\ tree' = [tree EXCEPT !.there = TRUE]
  /\ NoFault
  /\ UNCHANGED row /\ WrapperQuiet

\* A worktree that exists is taken as it is, with the process id of its .env.
ProvisionTree ==
  /\ wrapper.pc = "tree"
  /\ \/ /\ wrapper' = At(IF tree.env = 0 THEN "row" ELSE "skill", tree.env, FALSE)
        /\ tree' = [tree EXCEPT !.there = TRUE]
        /\ NoFault
     \/ ~tree.there /\ Throws /\ Fault /\ UNCHANGED tree           \* git worktree add
  /\ UNCHANGED row /\ WrapperQuiet

\* Mutant: the id is not taken from the answer of init_process.
ProvisionRowLosesId ==
  /\ wrapper.pc = "row" /\ row = NoRow
  /\ ids' = ids + 1
  /\ row' = [id |-> ids + 1, status |-> "pending"]
  /\ wrapper' = At("skill", 0, FALSE) /\ NoFault
  /\ UNCHANGED <<cmd, loop, tree, launched, sweep, crossed>>

\* init_process: names are unique (409).  The answer may be lost after the INSERT.
ProvisionRow ==
  /\ wrapper.pc = "row"
  /\ \/ row # NoRow /\ Throws /\ UNCHANGED <<row, ids>> /\ NoFault
     \/ /\ row = NoRow
        /\ ids' = ids + 1
        /\ row' = [id |-> ids + 1, status |-> "pending"]
        /\ \/ wrapper' = At("skill", ids + 1, FALSE) /\ NoFault
           \/ Throws /\ Fault
  /\ UNCHANGED <<cmd, loop, tree, launched, sweep, crossed>>

\* The skill content, then install, build and compose up.
ProvisionRest ==
  /\ wrapper.pc = "skill"
  /\ \/ wrapper' = At("env", wrapper.id, FALSE) /\ NoFault
     \/ Throws /\ IF tree.there THEN Fault ELSE NoFault
  /\ UNCHANGED <<tree, row>> /\ WrapperQuiet

\* .env and provision-output.env come last; the directory is made if it is not there.
WriteEnv ==
  /\ wrapper.pc = "env"
  /\ wrapper' = At("check", wrapper.id, FALSE)
  /\ tree' = [there |-> TRUE, env |-> wrapper.id]
  /\ UNCHANGED <<row, faults>> /\ WrapperQuiet

\* Mutant: a row that is not there passes for one that is not over.
CheckStatusLoosely ==
  /\ wrapper.pc = "check"
  /\ IF IsRow(wrapper.id) /\ row.status \in {"failed", "completed"}
       THEN Throws
       ELSE wrapper' = At("launch", wrapper.id, FALSE)
  /\ UNCHANGED <<tree, row, faults>> /\ WrapperQuiet

\* A row that is over is not launched; without an answer the launch goes on, blind.
CheckStatus ==
  /\ wrapper.pc = "check"
  /\ \/ IsRow(wrapper.id) /\ row.status \in {"failed", "completed"} /\ Throws /\ NoFault
     \/ /\ IsRow(wrapper.id) /\ row.status \in {"pending", "active"}
        /\ wrapper' = At("launch", wrapper.id, FALSE) /\ NoFault
     \/ /\ wrapper' = At("launch", wrapper.id, TRUE)
        /\ IF IsRow(wrapper.id) THEN Fault ELSE NoFault
  /\ UNCHANGED <<tree, row>> /\ WrapperQuiet

\* launch(): tmux refuses a session that is there; the catch block fails the row, whatever
\* its status is, if the request gets through.
LaunchLoop ==
  /\ wrapper.pc = "launch"
  /\ Throws
  /\ \/ /\ loop = NoLoop /\ NoFault
        /\ launched < MaxLaunches                                  \* bound
        /\ loop' = [pc |-> "run", id |-> wrapper.id, blind |-> wrapper.blind, act |-> FALSE, exit |-> 0]
        /\ launched' = launched + 1
        /\ UNCHANGED row
     \/ /\ IF loop = NoLoop THEN Fault ELSE NoFault
        /\ \/ IsRow(wrapper.id) /\ row' = [row EXCEPT !.status = "failed"]
           \/ UNCHANGED row
        /\ UNCHANGED <<loop, launched>>
  /\ UNCHANGED <<cmd, tree, ids, sweep, crossed>>

WrapperDies ==
  /\ wrapper # NoWrapper
  /\ Throws /\ Fault
  /\ UNCHANGED <<tree, row>> /\ WrapperQuiet

-----------------------------------------------------------------------------
(* The script in the session <slug>. *)

LoopQuiet == UNCHANGED <<cmd, wrapper, ids, launched, sweep, crossed>>
\* A guarded UPDATE by the CLI, which may fail.
Mark(from, to) ==
  \/ NoFault /\ row' = IF IsRow(loop.id) /\ row.status \in from THEN [row EXCEPT !.status = to] ELSE row
  \/ Fault /\ IsRow(loop.id) /\ row.status \in from /\ UNCHANGED row

\* `process active` runs beside the loop and is waited for after it.
Activate ==
  /\ loop.pc \in {"run", "ended"} /\ ~loop.act
  /\ loop' = [loop EXCEPT !.act = TRUE]
  /\ Mark({"pending"}, "active")
  /\ UNCHANGED tree /\ LoopQuiet

\* The loop exits; on COMPLETE it has marked the row itself (an unguarded PATCH).
LoopExits ==
  /\ loop.pc = "run"
  /\ \E code \in {0, 1}, mark \in BOOLEAN :
       /\ mark => code = 0
       /\ loop' = [loop EXCEPT !.pc = "ended", !.exit = code]
       /\ row' = IF mark /\ IsRow(loop.id) THEN [row EXCEPT !.status = "completed"] ELSE row
  /\ UNCHANGED <<tree, faults>> /\ LoopQuiet

\* process complete or process fail, as the exit code says.
Settle ==
  /\ loop.pc = "ended" /\ loop.act
  /\ loop' = [loop EXCEPT !.pc = "over"]
  /\ IF loop.exit = 0 THEN Mark({"active"}, "completed") ELSE Mark({"pending", "active"}, "failed")
  /\ UNCHANGED tree /\ LoopQuiet

\* Teardown takes the path of the worktree from its .env: without one nothing is removed.
Teardown ==
  /\ loop.pc = "over"
  /\ loop' = NoLoop
  /\ \/ tree' = (IF tree.env = 0 THEN tree ELSE NoTree) /\ NoFault
     \/ tree.env # 0 /\ UNCHANGED tree /\ Fault
  /\ UNCHANGED row /\ LoopQuiet

LoopDies ==
  /\ loop # NoLoop
  /\ loop' = NoLoop /\ Fault
  /\ UNCHANGED <<tree, row>> /\ LoopQuiet

-----------------------------------------------------------------------------
(* Others who write the row. *)

\* The poller fails rows that are pending for ten minutes.
Reap ==
  /\ row.status = "pending"
  /\ row' = [row EXCEPT !.status = "failed"] /\ Fault
  /\ UNCHANGED <<cmd, wrapper, loop, tree, ids, launched, sweep, crossed>>

\* "Use 'duoidal process fail --id ...'": the user fails the row of a session that is gone.
UserFails ==
  /\ row.status = "active" /\ wrapper = NoWrapper /\ loop = NoLoop
  /\ row' = [row EXCEPT !.status = "failed"]
  /\ UNCHANGED <<cmd, wrapper, loop, tree, ids, launched, faults, sweep, crossed>>

\* The orphan job fails a row that is active for two hours and has had no event for as long,
\* a live loop or not.
OrphanFails ==
  /\ row.status = "active" /\ ~sweep
  /\ row' = [row EXCEPT !.status = "failed"]
  /\ sweep' = TRUE
  /\ IF AnyBusy \/ wrapper # NoWrapper \/ loop # NoLoop THEN Cross("orphans") ELSE UNCHANGED crossed
  /\ UNCHANGED <<cmd, wrapper, loop, tree, ids, launched, faults>>

\* Its second step, a teardown of the worktree that has the slug's name by then.
OrphanTeardown ==
  /\ sweep
  /\ sweep' = FALSE
  /\ \/ tree' = (IF tree.env = 0 THEN tree ELSE NoTree) /\ NoFault
     \/ tree.env # 0 /\ UNCHANGED tree /\ Fault
  /\ UNCHANGED <<cmd, wrapper, loop, row, ids, launched, crossed>>

CommandStep == \E c \in Commands : PruneTree(c) \/ PruneRow(c) \/ Open(c)
WrapperStep ==
  \/ ProvisionTree \/ ProvisionRow \/ ProvisionRest \/ WriteEnv \/ CheckStatus \/ LaunchLoop
LoopStep == Activate \/ LoopExits \/ Settle \/ Teardown

Next ==
  \/ \E c \in Commands : Execute(c) \/ ExecuteAnyway(c) \/ ExecuteGoal(c)
  \/ CommandStep
  \/ WrapperStep \/ WrapperDies
  \/ LoopStep \/ LoopDies
  \/ Reap \/ UserFails \/ OrphanFails \/ OrphanTeardown

Spec == Init /\ [][Next]_vars

\* What runs goes on.  The operator dispatches until a loop has started MaxLaunches times, some
\* day when no outer session is alive, and fails rows whose session is gone.
FairSpec ==
  /\ Spec
  /\ WF_vars(CommandStep) /\ WF_vars(WrapperStep) /\ WF_vars(LoopStep)
  /\ SF_vars(\E c \in Commands : Execute(c)) /\ SF_vars(UserFails)

-----------------------------------------------------------------------------
\* The .env of a worktree names the row of the slug, if there is one: a dispatch that takes
\* the process id from the .env does not work for another run's row.
EnvNamesRow == tree.env # 0 /\ row # NoRow => tree.env = row.id

\* Unless something crossed that no check keeps apart (a dispatch next to a live loop, two
\* commands at once, a prune next to a live outer session by --force or for want of an answer,
\* the orphan job next to any of them), a loop works in a provisioned worktree that names its
\* row, whatever failed, timed out or died before, and whoever dispatched meanwhile.
LoopOwnsTree == LoopRunning /\ crossed = "none" => tree.there /\ tree.env = loop.id

\* And unless the status check went without an answer, that row is there.
LoopHasRow == LoopRunning /\ crossed = "none" /\ ~loop.blind => IsRow(loop.id)

\* "blocks a new dispatch": whatever a failed run left behind, pruning and dispatching again
\* gets the skill to run, once commands stop failing.
Redispatched == <>(launched = MaxLaunches)

\* dispatch-prune.ts: "detects whether the prior run is STILL RUNNING (via tmux probe) and
\* aborts with a clear error if so, to avoid clobbering live work".
PruneSparesLive ==
  [][/\ LoopRunning /\ tree.env = loop.id
     /\ crossed \in {"none", "loop"}
     /\ \E c \in Commands : PruneTree(c)
     => tree' = tree]_vars
=============================================================================
