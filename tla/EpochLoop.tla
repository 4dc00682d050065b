----------------------------- MODULE EpochLoop ------------------------------
(***************************************************************************)
(* The epoch loop of one process (utils/loop/index.ts): sessions of an     *)
(* agent one after the other, each followed by commitEpoch, until one of   *)
(* the reasons to stop is found.  The loop may be killed at any step; a    *)
(* later launch in the same worktree goes on from workspace/state.json.    *)
(*                                                                         *)
(* A workspace is two files: state.json, with its epoch and the rest of it *)
(* (the thrashing check hashes both), and progress.md, with or without the *)
(* COMPLETE signal.  Either may be missing, and a state.json that cannot   *)
(* be parsed or has no valid epoch is one of epoch 0.  The clock and the   *)
(* row of the process are read at two places only: what they say there is  *)
(* a choice.                                                               *)
(***************************************************************************)
EXTENDS Naturals, Sequences

CONSTANTS
  Rest,        \* what else state.json may say
  Written,     \* what a session may make of progress.md
  Budget,      \* maxEpochs, the sessions of one launch
  Threshold,   \* THRASHING_THRESHOLD
  MaxStarts,   \* bound on launches
  None         \* no such file

ASSUME EpochLoopAssumption ==
  /\ Rest # {} /\ Written \subseteq {"none", "open", "complete"}
  /\ Budget \in Nat \ {0} /\ Threshold \in Nat \ {0} /\ MaxStarts \in Nat
  /\ None \notin [epoch: Nat, rest: Rest]

VARIABLES
  disk,      \* workspace/ in the worktree
  saved,     \* the copy commitEpoch keeps in /tmp
  branch,    \* workspace/ at the head of the local branch
  pushed,    \* whether that head is at origin
  starts,    \* launches so far
  pc,        \* where the loop is
  epoch,     \* i
  last,      \* endEpoch
  same,      \* noProgressCount
  signal,    \* whether this epoch ended with the COMPLETE signal
  fault,     \* whether a step of the last commitEpoch failed
  ends,      \* state.json as each judged epoch of this launch left it
  outcome,   \* why the loop returned
  done,      \* history: the last epoch a state.json on the branch had
  lost       \* history: a launch found no epoch though the branch had had one

files == <<disk, saved, branch, pushed>>
loop == <<starts, epoch, last, same, signal, ends>>
history == <<done, lost>>
vars == <<files, loop, pc, fault, outcome, history>>

State == [epoch: Nat, rest: Rest]
Work == [state: State \cup {None}, progress: {"none", "open", "complete"}]
Nothing == [state |-> None, progress |-> "none"]

\* What a launch makes of state.json, and what the thrashing check hashes.
EpochOf(w) == IF w.state = None THEN 0 ELSE w.state.epoch
Hash(w) == w.state

Committing == {"save", "checkout", "restore", "commit", "push"}
Running == Committing \cup {"top", "agent", "settle", "next"}
Outcomes == {"none", "complete", "sleeping", "time", "budget", "failed", "thrashing"}

TypeOK ==
  /\ disk \in Work /\ saved \in Work /\ branch \in Work
  /\ pushed \in BOOLEAN /\ signal \in BOOLEAN /\ fault \in BOOLEAN
  /\ starts \in 0..MaxStarts
  /\ pc \in Running \cup {"down", "over"}
  /\ epoch \in Nat /\ last \in Nat /\ epoch <= last /\ last < epoch + Budget
  /\ same \in 0..Threshold
  /\ ends \in Seq(State \cup {None}) /\ Len(ends) <= Budget
  /\ outcome \in Outcomes
  /\ done \in Nat /\ lost \in BOOLEAN

Init ==
  /\ disk = Nothing /\ saved = Nothing /\ branch = Nothing /\ pushed = FALSE
  /\ starts = 0
  /\ pc = "down" /\ epoch = 0 /\ last = 0
  /\ same = 0 /\ signal = FALSE /\ fault = FALSE
  /\ ends = <<>> /\ outcome = "none"
  /\ done = 0 /\ lost = FALSE

Return(why) == pc' = "over" /\ outcome' = why

\* The head of the branch is now w.
Committed(w) ==
  /\ branch' = w
  /\ done' = IF EpochOf(w) > 0 THEN EpochOf(w) ELSE done
  /\ UNCHANGED lost

\* What a copy of w over v, or a reset of v to w, that is stopped half way may leave: of each
\* file the old one, the new one, none, or a truncated one.
Halfway(v, w) ==
  [state: {v.state, w.state, None} \cup [epoch: {0}, rest: Rest],
   progress: {v.progress, w.progress, "none", "open"}]

-----------------------------------------------------------------------------
(* Launch, the head of an epoch, and the session. *)

\* Mutant: the last epoch is done again.
StartEpochAgain(w) == IF EpochOf(w) > 0 THEN EpochOf(w) ELSE 1

\* 1 when state.json is missing, invalid or cannot be parsed.
StartEpoch(w) == EpochOf(w) + 1

\* A launch by dispatch or resume.  Provisioning an existing worktree again strips a COMPLETE
\* signal from the first lines of progress.md, and the loop writes one that is missing.
Launch ==
  /\ pc \in {"down", "over"}
  /\ starts < MaxStarts                                          \* bound
  /\ starts' = starts + 1
  /\ \E g \in {disk.progress, "open"} \ {"none"} : disk' = [disk EXCEPT !.progress = g]
  /\ epoch' = StartEpoch(disk)
  /\ last' = StartEpoch(disk) + Budget - 1
  /\ pc' = "top" /\ outcome' = "none" /\ ends' = <<>> /\ same' = 0
  /\ signal' = FALSE /\ fault' = FALSE
  /\ lost' = (lost \/ (EpochOf(disk) = 0 /\ done > 0))
  /\ UNCHANGED <<saved, branch, pushed, done>>

\* The head of the for loop: the time is up, or the row is waiting (checkWaitingStatus fails
\* open), or a COMPLETE signal is already there, or a session begins.
Top ==
  /\ pc = "top"
  /\ \/ Return("time")
     \/ Return("sleeping")
     \/ disk.progress = "complete" /\ Return("complete")
     \/ disk.progress # "complete" /\ pc' = "agent" /\ UNCHANGED outcome
  /\ UNCHANGED <<files, loop, fault, history>>

\* The agent writes or deletes its files; if it sets the epoch, it sets the one it was told,
\* or something that is no epoch.
AgentWrites ==
  /\ pc = "agent"
  /\ disk' \in [state: [epoch: {EpochOf(disk), epoch, 0}, rest: Rest] \cup {None},
               progress: Written]
  /\ UNCHANGED <<saved, branch, pushed, loop, pc, fault, outcome, history>>

\* The agent, or a subagent of it, commits.
AgentCommits ==
  /\ pc = "agent"
  /\ Committed(disk) /\ pushed' = FALSE
  /\ UNCHANGED <<disk, saved, loop, pc, fault, outcome>>

\* run() throws, or returns the session of an agent that is not logged in.
SessionFails ==
  /\ pc = "agent"
  /\ Return("failed")
  /\ UNCHANGED <<files, loop, fault, history>>

\* The agent has written COMPLETE, or every story of its PRD passes and the loop appends it.
SessionCompletes ==
  /\ pc = "agent"
  /\ disk' = [disk EXCEPT !.progress = "complete"]
  /\ signal' = TRUE
  /\ pc' = "save"
  /\ UNCHANGED <<saved, branch, pushed, starts, epoch, last, same, ends, fault, outcome, history>>

\* Mutant: a changed state.json counts as the first one that is the same.
StillCountFromOne(h) == IF ends # <<>> /\ h = ends[Len(ends)] THEN same + 1 ELSE 1

\* lastStateHash is '' before the first epoch of a launch.
StillCount(h) == IF ends # <<>> /\ h = ends[Len(ends)] THEN same + 1 ELSE 0

\* No signal: the thrashing check, which returns without commitEpoch.
SessionEnds ==
  /\ pc = "agent" /\ disk.progress # "complete"
  /\ ends' = Append(ends, Hash(disk))
  /\ same' = StillCount(Hash(disk))
  /\ IF same' >= Threshold
       THEN Return("thrashing")
       ELSE pc' = "save" /\ UNCHANGED outcome
  /\ UNCHANGED <<files, starts, epoch, last, signal, fault, history>>

-----------------------------------------------------------------------------
(* commitEpoch.  A step that throws ends it; the copy is removed either way.  The upload of *)
(* the results to the database follows the push and changes nothing here.                   *)

Throws == pc' = "settle" /\ fault' = TRUE /\ saved' = Nothing

Save ==
  /\ pc = "save"
  /\ \/ pc' = "checkout" /\ saved' = disk /\ fault' = FALSE
     \/ Throws
  /\ UNCHANGED <<disk, branch, pushed, loop, outcome, history>>

\* What git checkout -f leaves of v: the files of the branch, and of those it has not each
\* stays if git knows nothing of it.
Reset(v) ==
  {w \in [state: {v.state, branch.state}, progress: {v.progress, branch.progress}] :
     /\ branch.state # None => w.state = branch.state
     /\ branch.progress # "none" => w.progress = branch.progress}

Checkout ==
  /\ pc = "checkout"
  /\ \/ pc' = "restore" /\ disk' \in Reset(disk) /\ UNCHANGED <<saved, fault>>
     \/ Throws /\ disk' \in Halfway(disk, branch)
  /\ UNCHANGED <<branch, pushed, loop, outcome, history>>

\* cp -a of v over the workspace: what v has replaces, what v has not stays.
Over(v) ==
  [state |-> IF v.state = None THEN disk.state ELSE v.state,
   progress |-> IF v.progress = "none" THEN disk.progress ELSE v.progress]

\* Mutant: the workspace of the branch is kept.
RestoreNothing ==
  /\ pc = "restore"
  /\ \/ pc' = "commit" /\ UNCHANGED <<disk, saved, fault>>
     \/ Throws /\ UNCHANGED disk
  /\ UNCHANGED <<branch, pushed, loop, outcome, history>>

Restore ==
  /\ pc = "restore"
  /\ \/ pc' = "commit" /\ disk' = Over(saved) /\ UNCHANGED <<saved, fault>>
     \/ Throws /\ disk' \in Halfway(disk, saved)
  /\ UNCHANGED <<branch, pushed, loop, outcome, history>>

\* git add may fail unseen, git commit throws; with nothing staged there is no commit.
Commit ==
  /\ pc = "commit"
  /\ \/ /\ pc' = "push" /\ Committed(disk) /\ pushed' = (pushed /\ branch = disk)
        /\ UNCHANGED <<saved, fault>>
     \/ pc' = "push" /\ fault' = TRUE /\ UNCHANGED <<branch, pushed, saved, history>>
     \/ Throws /\ UNCHANGED <<branch, pushed, history>>
  /\ UNCHANGED <<disk, loop, outcome>>

\* Mutant: a push that failed is tried again, from the save on.
PushRetries ==
  /\ pc = "push"
  /\ \/ pc' = "settle" /\ pushed' = TRUE /\ UNCHANGED fault
     \/ pc' = "save" /\ fault' = TRUE /\ UNCHANGED pushed
  /\ saved' = Nothing
  /\ UNCHANGED <<disk, branch, loop, outcome, history>>

Push ==
  /\ pc = "push"
  /\ pc' = "settle" /\ saved' = Nothing
  /\ \/ pushed' = TRUE /\ UNCHANGED fault
     \/ fault' = TRUE /\ UNCHANGED pushed
  /\ UNCHANGED <<disk, branch, loop, outcome, history>>

-----------------------------------------------------------------------------
\* After commitEpoch: with the signal the row is marked completed, best effort, and the loop
\* returns; else a waiting row makes it return.
Settle ==
  /\ pc = "settle"
  /\ \/ signal /\ Return("complete")
     \/ ~signal /\ Return("sleeping")
     \/ ~signal /\ pc' = "next" /\ UNCHANGED outcome
  /\ UNCHANGED <<files, loop, fault, history>>

\* Mutant: the bound of the for loop is one too high.
NextEpochOneMore ==
  /\ pc = "next"
  /\ \/ Len(ends) > Budget /\ Return("budget") /\ UNCHANGED epoch
     \/ Len(ends) <= Budget /\ pc' = "top" /\ epoch' = epoch + 1 /\ UNCHANGED outcome
  /\ UNCHANGED <<files, starts, last, same, signal, ends, fault, history>>

\* i++ and the condition of the for loop.
NextEpoch ==
  /\ pc = "next"
  /\ \/ epoch = last /\ Return("budget") /\ UNCHANGED epoch
     \/ epoch < last /\ pc' = "top" /\ epoch' = epoch + 1 /\ UNCHANGED outcome
  /\ UNCHANGED <<files, starts, last, same, signal, ends, fault, history>>

\* The session is killed or the machine restarts, maybe half way through a reset or a copy;
\* nobody looks for the copy in /tmp, whose name holds the process id.  Its memory is gone.
Crash ==
  /\ pc \in Running
  /\ pc' = "down" /\ saved' = Nothing
  /\ CASE pc = "checkout" -> disk' \in Halfway(disk, branch)
       [] pc = "restore" -> disk' \in Halfway(disk, saved)
       [] OTHER -> UNCHANGED disk
  /\ epoch' = 0 /\ last' = 0 /\ same' = 0 /\ ends' = <<>>
  /\ signal' = FALSE /\ fault' = FALSE
  /\ UNCHANGED <<branch, pushed, starts, outcome, history>>

LoopStep ==
  \/ Top \/ SessionFails \/ SessionCompletes \/ SessionEnds
  \/ Save \/ Checkout \/ Restore \/ Commit \/ Push \/ Settle \/ NextEpoch

Next == Launch \/ LoopStep \/ AgentWrites \/ AgentCommits \/ Crash

Spec == Init /\ [][Next]_vars

\* A loop that is not killed goes on, and the sessions of its agent end.
FairSpec == Spec /\ WF_vars(LoopStep)

-----------------------------------------------------------------------------
\* An epoch whose workspace is committed is not run again, wherever the loop was killed or a
\* step of commitEpoch failed, until a launch finds no epoch in state.json although the branch
\* has had one (the loop begins at 1 then): what a reset or a copy stopped half way, and the
\* branch itself, leave on disk has no epoch or none behind the last one committed.
CommittedNotRerun ==
  [][pc = "top" /\ pc' = "agent" /\ ~lost => done < epoch]_vars

\* state.json as it was at the ends of the last Threshold + 1 epochs is all the same.
Stuck ==
  /\ Len(ends) > Threshold
  /\ \A k \in (Len(ends) - Threshold)..Len(ends) : ends[k] = ends[Len(ends)]

\* The loop aborts for thrashing exactly when state.json has not changed over Threshold epochs
\* in a row of this launch, and it never goes on from there.
ThrashOnlyStuck == outcome = "thrashing" <=> Stuck

\* "Push branch so work is preserved even if the worktree is cleaned up": a loop that returns
\* after an epoch, with no step of its last commitEpoch failing, has committed and pushed its
\* workspace, and with it the files that epoch left, though they were reset to the branch in
\* between.  (A file it deleted may be back from there.)  Not so for thrashing and failed
\* sessions, which return without commitEpoch.
WorkPushed ==
  /\ pc = "over" /\ outcome \in {"complete", "sleeping", "time", "budget"}
  /\ ends # <<>> \/ signal
  /\ ~fault
  => /\ branch = disk /\ pushed
     /\ IF signal THEN branch.progress = "complete"
                  ELSE ends[Len(ends)] # None => branch.state = ends[Len(ends)]

\* A loop ends unless it is killed: by COMPLETE, budget, time, sleep, thrashing or failure.
LoopEnds == (pc \in Running) ~> (pc \in {"down", "over"})
=============================================================================
