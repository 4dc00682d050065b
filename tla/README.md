# Verification of the agent runtime

This directory holds TLA+ models of the part of the repository that runs agents: the `processes`
table and its writers, the cron poller that dispatches skills, dispatching and re-dispatching, the
epoch loop, the sleep and wake-up of a process with its worktree and its tmux session, the sandbox
of a user, and the relay of webhooks.  TLC checks the models on small instances, and TLAPS proves
the theorems for every value of the constants.  Paths are relative to the root of the repository;
`PROJECT.json` maps every definition to the lines it translates.

## 1. The system

| part | where | state it keeps | operations |
|---|---|---|---|
| processes table and `ProcessesService` | `packages/database/src/services/processes.ts`, `supabase/migrations` | one row per segment: status, parent, root, channel, project, resume_at | init, activate, complete, fail, reset, sleep, claim, restart, block, updateFields, the two queries of the scheduler |
| other writers of the table | RPCs of the migrations, `utils/loop/index.ts`, `packages/agent-core/src/lib/dispatch-prune.ts` | the same rows | init_process, fail_process, markProcessCompleted, DELETE of a re-dispatch |
| cron poller | `packages/scheduler/src/poller.ts`, `packages/database/src/services/cron-scheduler.ts` | the slots it inserts; a timer | poll (window, caps, gates 0-3, claim, dispatch or formula, final update), reaper |
| dispatch | `utils/dispatch`, `packages/agent-core/src/commands/execute.ts` | worktree and its `.env`, row, tmux sessions | execute, prune, provision, status check, launch, teardown |
| launch wrapper | `utils/dispatch/steps/launch.ts` | the bash script of a session; `workspace/.sleeping` | activate, run the loop, decide, complete or fail, tear down |
| epoch loop | `utils/loop/index.ts` | epoch counter, `workspace/` on disk, in /tmp and on the branch | epochs, commitEpoch, COMPLETE, thrashing, time limit, sleep check |
| process CLI | `packages/agent-core/src/commands/process.ts` | none | sleep, resume and the others |
| wake scheduler | `packages/scheduler/src/wake-scheduler.ts` | none; a 5 minute loop | wake-ups, compose job, worktree job |
| dependencies | migrations, `packages/database/src/utils` | `process_dependencies` and its cycle trigger | link, unlink |
| events and watchdog | `packages/agent-events` | `agent_events` | emit, stall detection |
| sandbox | `services/agent-livestream/server/routes/sandbox.ts`, `packages/sandbox`, `packages/duoidal-cli` | one row of `resources`, one VM and one SSH key per user | provision, deprovision, status, ready |
| webhooks | `services/agent-interceptor` | events in Workers KV | receive, list, read, delete, forward |
| everything else | ontology CLI, email, media, auth, credential proxy, web views, configuration | rows or files of their own | see `PROJECT.json`, components |

The parts meet in the database.  The poller and people dispatch; dispatch inits a row and starts
the wrapper in tmux; the wrapper runs the loop; the agent inside the loop calls the CLI to sleep;
the wake scheduler runs the CLI to resume; the loop, the wrapper, the scheduler, the poller and
people all update the same rows from processes that know nothing of each other, and nearly every
step of them may be killed, time out, or fail and be logged only.  PostgreSQL runs their statements
at READ COMMITTED.

What makes each part correct, and what is hard about it:

- **Table.**  A process is one line of segments and only the last one lives; a segment sleeps once
  and is woken once; lineage stays sound.  Hard: operations that read in one statement and write in
  another (sleep, restart), and writers that update by id alone.
- **Cron poller.**  Dispatches of a skill do not overlap, stay within the caps and stop after
  failures; a fire is dispatched once and not missed.  Hard: gates that read one after the other
  and before the claim, rows of two kinds that count alike, midnight or a crash in between, polls
  that take time.
- **Sleep and wake.**  One session per segment; the worktree of a sleeping process stays; every
  sleep ends; what nobody runs is cleaned up.  Hard: five actors, three kinds of state (rows,
  files, tmux), a 30 s timeout around a command that may take minutes.
- **Epoch loop.**  It ends, and for one reason only; no committed epoch runs again; what a session
  left is pushed.  Hard: commitEpoch moves the workspace to /tmp, resets to the branch and back, and
  may be killed or fail in each of a dozen git commands.
- **Dispatch.**  What an earlier run left is neither taken for this run's nor in its way, and a
  re-dispatch removes nothing that still lives.  Hard: a worktree, a `.env`, a row and two tmux
  sessions that are made and removed one by one, each step with its own way to fail.
- **Sandbox.**  No VM runs that no row tells of; the key the CLI keeps opens the VM; a user always
  gets out of a failed state.  Hard: two services without a transaction over both, answers that
  get lost, a CLI that retries and times out, a VM that reports once.
- **Webhooks.**  A stored event is forwarded, once if possible.  Hard: consumers that overlap, a
  store that is eventually consistent, deletion before delivery.

## 2. Modules

| module | models | state and actions |
|---|---|---|
| `ProcessTable` | the table and all its writers | `rows` (by order of `created_at`; a deleted id is not reused), `tx` (what a client has read for the sleep or restart it has open), `rejected` (updates that a constraint refused). One action per statement, or per transaction nobody sees half of |
| `LogicalProcess` | what a process promises, with no rows | `phase[p]`: pending, running, asleep, done, failed, blocked |
| `ProcessLines` | the refinement | the phase of a process is the status of the last row of its line |
| `ProcessTableProofs` | theorems about `ProcessTable`, and the refinement | |
| `CronSlots` | the decisions of the poller about one skill | `rows` of the skill (slots and runs), `day`, `recorded` keys of `metric_snapshots` and how many of them the formula `computed`, `pc`/`mine` of each poller, `cron` its configuration (also which key gate 1 looks for). One action per statement of `poll()`; agents, midnight and crashes between any two |
| `CronSlotsProofs` | theorems about `CronSlots` | |
| `PollWindow` | the timing of the daemon | `clock`, `timer`, `started`, `seen` fires, `reached` instants |
| `PollWindowProofs` | theorems about `PollWindow` | |
| `SleepWake` | one process over its sleeps | `status` of its rows, `session` and `launched` per segment, `tree` (whether the worktree is there, and whether the worktree job ever tore it down), `flag` (`.sleeping`), `resume` commands, `daemon`, `quiet` (what the orphan query returns) |
| `SleepWakeProofs` | theorems about `SleepWake` | |
| `EpochLoop` | one worktree through several launches of the loop | `disk`, `saved`, `branch`, `pushed` (the workspace and its copies: `state.json`, which may be missing or unreadable, and `progress.md`), `pc`, `epoch`, `same`, `ends`, `outcome`; `done` and `lost` remember the last epoch committed and whether a launch found none. One action per step of `commitEpoch` and per exit of `executeLoop`; a reset or a copy may stop half way |
| `EpochLoopProofs` | theorems about `EpochLoop` | |
| `DispatchRuns` | dispatches of one skill | `cmd` per shell (execute, also with `--force`), `wrapper` (the outer session with `collect()`), `loop` (the inner session and its script), `tree`, `row`, `sweep` (the orphan job between its two steps); `crossed` remembers the first time that two were at work which nothing keeps apart. One action per step that can fail alone |
| `DispatchRunsProofs` | theorems about `DispatchRuns` | |
| `SandboxLifecycle` | the sandbox of one user | `row`, `vm`, `sshKey`, `cli` per terminal, `entries` (the local entries, in the config file the terminals share), `prov` per try of POST /provision, `dep` per DELETE /deprovision. One action per call to the database or the provider |
| `SandboxLifecycleProofs` | theorems about `SandboxLifecycle` | |
| `WebhookRelay` | events from the interceptor to the gateway | `events`, `kv`, `stale` (deleted and still readable), `con` per consumer, `delivered`. One action per call to the store or the gateway |
| `WebhookRelayProofs` | theorems about `WebhookRelay` | |
| `MCProcessTable`, `MCPollWindow` | definitions the configurations use | |

How they fit: `SleepWake` takes each statement on a row for one step, which `ProcessTable`
justifies (`SleepHandsOver`: a sleep hands over in one step; `WokenAtMostOnce`: a claim succeeds
once).  `CronSlots` takes the life of a run from the same table, with the moves
`markProcessCompleted` adds.  `PollWindow` supplies what `CronSlots!StartPoll` assumes: a poll
sees the fires of its window and may start at any time.  `EpochLoop` is the inside of one
session of `SleepWake` and of one `LoopRunning` of `DispatchRuns`; the wrapper script appears in
both, in `SleepWake` around a process that sleeps and in `DispatchRuns` around one that is
dispatched again.  `SandboxLifecycle` and `WebhookRelay` share no state with the rest.

Abstractions.  Names, branches, notes and prompts are dropped; a channel or project is a model
value.  `MaxRows`, `MaxInits`, `MaxDay`, `MaxTime` and `MaxSegs` bound inserts, days, time and
segments in the guards.  In `SleepWake` a waiting segment counts as due, `quiet` holds the rows
older than the orphan threshold without an event since, and "dead" covers a scheduler that has
lost the database.  The compose job, which changes no row, is left out.
In `EpochLoop` a workspace is two files: `state.json` with its epoch (0 if it cannot be read) and
the rest of it, and `progress.md` with or without the COMPLETE signal.  The clock and the row are
choices where they are read, and the guards of `EVAL_BRANCH` and the upload of the process record
are left out.  `DispatchRuns` has one skill on one server.  `crossed` is set when a dispatch meets a
live loop, another command or the orphan job between its two steps, when a command prunes next to a
live outer session (`--force`, or a probe without an answer), and when the orphan job fails a row
that something is at work on.  `SandboxLifecycle` has one user, who gives each run of provision a
name of its own (with the `--name` of an earlier entry the CLI would write over it) and runs the
CLI on one machine; Cloudflare is left out, `overlap` records a command given while a handler was at
work, `blind` a lookup that failed.  Carelessness of a person counts as a fault.  In `CronSlots` an
operator may fail a poller's slot but does not reset it.
In `WebhookRelay` an event is its place in key order.

## 3. Runs

| run | shows | instance |
|---|---|---|
| `TableService` | `CompletedIsFinal`, `SleepsOnce` and the refinement `ImplementsLogicalProcess` while all writers use `ProcessesService` | 2 clients, 3 rows, of which one by init: two sleeps of one row, a sleep against a restart, a chain of three |
| `TableAllWriters` | `TypeOK`, `ChainShape`, `SleepHandsOver`, `WokenAtMostOnce` under every writer | 1 client against all the single-statement writers, 3 rows, 2 of them roots or parent and child, 1 channel to compete for, 1 project |
| `CronOnePoller` | `SlotExclusive`, `DispatchCap`, `HaltsAfterFailures`, `FormulaOnce` | one poller, all configurations of a cron (bypass, cap, formula, key of gate 1), 5 rows, 2 days; caps of 3 and 2 so that both bite |
| `PollWindow` | `SeenOnce`, `GapBounded` | window 3, polls up to 3, timers up to 2 late, a schedule with neighbouring and distant fires |
| `SleepWake` | `OneLive`, `ResumedOnce`, `FlagKeepsWorktree`, `SleepEnds`, `GhostsReaped` | 2 segments, 2 resume commands, either kind of loop |
| `EpochLoop` | `ThrashOnlyStuck`, `WorkPushed`, `CommittedNotRerun`, `LoopEnds` | 2 launches of 3 epochs, threshold 2, kills and failures of git anywhere, also half way through a reset or a copy, and sessions that delete or spoil `state.json` |
| `DispatchRuns` | `EnvNamesRow`, `LoopOwnsTree`, `LoopHasRow`, `Redispatched` | 2 shells, 2 loops started, 3 faults, the orphan job at any moment |
| `SandboxLifecycle` | `VmHasRow`, `KeyWorks`, `GetsSandbox` | 2 terminals, 5 runs of provision, 3 faults |
| `WebhookRelay` | `LossBounded`, `DeliveriesBounded`, `Drained` | 2 consumers, batches of 2, 3 events of 2 webhooks, one of them always rejected, 2 faults |
| `DispatchLiveLoop` | a dispatch removes the worktree of a live loop | 1 shell, 2 loops, 1 fault |
| `SandboxRetry` | a retried provision is refused because of its own first try | as `SandboxLifecycle` |
| `SleepTreeLost` | the worktree of a sleeping process is torn down | 1 resume command, 2 segments |

Why the bounds are enough: what goes wrong in this code takes at most two clients with one open
operation each and three rows (old segment, new segment, one unrelated or child row).  The
`Row`, `Seg` and `Day` bounds are large enough for every action to fire and for each mutated
definition of `PROJECT.json` (a dropped guard, a swapped status) to be caught.  The theorems of
section 5 remove the bounds for the properties they state.

Deadlock is not checked in the table and cron runs: with the rows of the bound used up and every
segment in a final status nothing is left to do, which is how the system rests.  In the
other instances it is the end of the launches, runs or events of the bound, in `PollWindow` the end
of the bounded time.  `SleepWake` checks it.

In `EpochLoop` two launches are what the property about committed epochs needs (one that is killed,
one that reads what it left), and three epochs are one more than the threshold; `state.json` says
nothing but its epoch (`Rest` has one member), so two states are equal when their epochs are or when
both are missing, and that is enough for thrashing to be found and not to be found.  In
`SandboxLifecycle` a fault may spoil the run it hits and the next; TLC refutes `GetsSandbox` when the
runs are too few for the user to try again, and with five she can after three faults.

**Fairness.**  In `SleepWake!FairSpec` the wake scheduler is a daemon kept alive by
a process manager: strong fairness of its steps, and it does not die for ever
(`<>[][~DaemonDies]_vars`; without this it may die right before each orphan search).  A resume
command that is not killed goes on (weak fairness); it may be killed each time.  Time passes:
a segment whose loop is not running falls quiet, since only loops emit events.  Nothing is assumed
there of loops, agents or people, who may stop at any point.

`EpochLoop!FairSpec`: a loop that is not killed goes on and the sessions of its agent end (they
are child processes with a time limit); kills are never fair.  `DispatchRuns!FairSpec`: what runs
goes on; the operator dispatches again (strong fairness, since a session may come and go) and
fails rows whose session is gone, which is what the error message of the refused dispatch tells
her to do.  `SandboxLifecycle!FairSpec`: handlers, commands and VMs go on, and the user provisions
or deprovisions in the end, whichever there is reason to.  `WebhookRelay!FairSpec`: cron starts
consumers again and the store becomes consistent.  No fault is ever due, so a liveness property
says that finitely many faults do no lasting harm.

## 4. What the code does otherwise than it says

Each is a run that TLC refutes; `PROJECT.json` quotes the sentences.

1. `SleepTreeLost`: sleep turns the row of the running segment to completed and makes a *new* row
   waiting; the loop and the wrapper look at their own row.  Only a script that writes `.sleeping`
   (in the repository, `utils/loop/e2e-child-loop.ts`) is recognised.  For the epoch loop, the next
   segment finds no worktree and is failed.
2. `DispatchLiveLoop`: the probe of a re-dispatch looks for the outer session, which ends when the
   loop has been launched in a session of its own; the worktree goes from under the live loop.
3. `SandboxRetry`: a 504 is no sign that the first request was not handled.  The second gets 409,
   and the CLI exits without the local entry that deprovision asks for.

Seen while modelling, without a run of their own:

Table and poller

- `markProcessCompleted` and the last update of the poller are by id alone
  (`utils/loop/index.ts:122`, `poller.ts:394`): a row that was failed meanwhile becomes completed
  without a reset, where `docs/packages/agent-core.mdx:305` speaks of guarded transitions.
- sleep inserts the `channel_id` it read before its UPDATE (`processes.ts:394`); one written in
  between is on no row any more.
- restart decides on a status it read outside its transaction (`processes.ts:428`).
- No migration admits `blocked` to `processes_status_check` (`baseline.sql:141`): block always fails.
- The claim of the poller, INSERT ... WHERE NOT EXISTS, does not exclude a concurrent one
  (`poller.ts:270`, against the comment at 244-246): two pollers dispatch a skill twice.
  The run has one poller, as deployed; the theorems say what more of them add (section 5).
- A slot is completed when tmux has the session, so gate 3 (`cron-scheduler.ts:126`) sees a success
  however often the agents fail.
- Two dependencies inserted at once pass the cycle trigger (`baseline.sql:231`), which sees neither
  the other's row nor more than 100 steps of a path.
- restart inserts no `project_id` (`processes.ts:446`), though
  `supabase/migrations/20260422000003_fix_restart_project_id_backfill_rpc.sql:1-6` says it does.
- `poller.ts:11` wants the window at least as long as the poll interval "so no cron fire falls
  outside the window", but the next poll is scheduled after the last has returned.
  `GapBounded` says how much can be missed.
- Gate 1 looks for `metricKey`, the formula is recorded under `formulaMetricKey` (`poller.ts:213-226`
  and 354-364).  Where they differ the code warns that the gate of `metricKey` takes precedence, and
  then the formula is recorded at every fire of the day: `FormulaOnce` is about the others.

Sleep and wake

- A segment that slept longer than the orphan threshold has an old `created_at` and no events.  The
  worktree job runs right after the wake-ups in the same poll, so it fails and tears down the
  segment just woken unless the loop's first event is already there (`processes.ts:673`,
  `wake-scheduler.ts:196`).  In `SleepWake`: `FallsQuiet`, `ResumeClaims`, `DaemonFinds`.
- The 30 s timeout of a wake-up (`wake-scheduler.ts:125`) ends the package manager; resume gives the
  provisioner alone 120 s, may go on below it, and launches a session for a row that is failed.
- The worktree job tears down even if its `fail` changed nothing because the row slept meanwhile.
  `.sleeping` goes with the worktree, so a wrapper that looks only then also tears down, under
  whatever segment waits by that time; hence the condition on the cleanup in `FlagKeepsWorktree`.
- A woken session runs without the wrapper: when its loop ends other than by COMPLETE the row stays
  active until the worktree job takes it (`GhostsReaped` is what remains true).
- Segment numbers are counts of a chain and may repeat when sleeps overlap or a row is pruned.
- The watchdog's own PROCESS_STALE events count as activity and re-arm its timer.

Epoch loop

- A deletion in `workspace/` does not last: `git checkout -f` brings the file back and `cp -a` only
  overlays (`utils/loop/index.ts:554-564`), though the comment there says the agent's actual
  workspace is restored.  Uncommitted edits outside `workspace/` and `results/` are discarded.
- Killed between the reset and the restore, the next launch reads the epoch of the branch.  A
  `state.json` that is missing or cannot be read, because a session deleted or spoilt it or a copy was
  stopped half way, starts again at epoch 1 (`utils/loop/index.ts:242-258`), and epochs that are on
  the branch run again: `CommittedNotRerun` is claimed until that happens (`lost`).
- A budget that is used up ends with exit code 0 and the row completed; `SYSTEM.md:417-420` says failed.
- Thrashing, an authentication failure and a session that throws return without `commitEpoch`.

Dispatch

- When `tmux new-session` finds the session of a live loop, the launch fails and its error path
  fails the row of that loop (`dispatch.ts:267-296`).
- The worktree of a sleeping process is removed before its row is found not to be stale.
- Nothing keeps two commands for one skill apart: both probe before either prunes or opens a session
  (`dispatch-prune.ts:57-73`), and the later prune takes the worktree and the pending row from the
  session that the earlier opened.  `--force` (`execute.ts:144`) and a probe that gets no answer
  (`dispatch-prune.ts:135-142`) do the same with one command.
- The orphan job fails a row that is active for two hours without an event, whether its loop is live
  or not, and then tears down whatever worktree has the name by that time
  (`wake-scheduler.ts:196-247`): that of a new dispatch, if one came in between.
- `LoopOwnsTree` and `LoopHasRow` are claimed until one of these things happens, or a dispatch next to
  a live loop (`crossed`).  `EnvNamesRow` and `Redispatched` hold through all of them.
- A row that is pending because the wrapper has not yet run `process active` can be pruned.
- A remote probe takes a failing ssh for "no session"; teardown without a `.env` removes nothing;
  the refusal mentions an option `--fresh` that does not exist.

Sandbox

- A lookup by name that fails answers `deleted: true` while the VM runs (`sandbox.ts:553`).  Only a
  further provision, which fails on the name, and a further deprovision get rid of it.
- The comment at `sandbox.ts:432` expects /ready to set `hetznerServerId`; it sets another key,
  `hetzner_server_id`.
- The loser of two provisions that both pass the limit keeps a key that the VM does not know.
- Deprovision asks for a local entry before it sends anything (CLI `sandbox.ts:475-480`), and the entry
  is written when the provision has been answered (206-228).  After a provision that failed with 500,
  or whose answer was lost, there may be a row and no entry: provision is refused with 409 and
  deprovision by the CLI, for good.  So it is after a time-out whose clean-up failed, since the entry is
  removed in any case (259-264), although the message says "Please manually deprovision: duoidal
  sandbox deprovision" (257).  A provision that meets a VM without a row may end there too.  `Stranded`
  is this state, and `GetsSandbox` says that it is the only one without a way out.

Webhooks

- The comment at `consume.ts:119` calls read and delete "atomic on KV level": two consumers may both
  read an event before either deletes it.  `DeliveriesBounded` is what remains true.
- The id is made per request (`app.ts:317`), so a webhook sent again after a 500 or a lost 202 is
  another event; the idempotency of `kv.ts:23-24` does not reach the sender.
- An event that is deleted and then rejected, or not answered by the gateway, is gone.

## 5. Proofs

`ProcessTableProofs`, for any number of clients, rows, channels and projects, and any CHECK
constraint that admits at least the baseline statuses:

- The inductive invariant is `IInv == TypeOK /\ TxOK /\ ChainShape`.  `ChainShape` is not inductive
  alone: sleep and restart insert with the root (and sleep with the project) they read some steps
  ago, so `TxOK` says that these are still the root and project of that row.  `Invariance` has a step per action; lemmas say what
  an UPDATE of one row and an INSERT at the end preserve.
- From it: `TypeCorrect`, `Lineage` (`ChainShape`), `HandOver` (`SleepHandsOver`), `WokenOnce`
  (`WokenAtMostOnce`) under every writer; `CompletedForever` (`CompletedIsFinal`) and
  `SleepsAtMostOnce` (`SleepsOnce`) under `ServiceSpec`.
- `ServiceImplements`: `ServiceSpec => ImplementsLogicalProcess`, for any number of clients and rows.
  The mapping follows parents back to the head of a line, a recursion that the provers cannot
  handle by induction over the table; the proof carries along the behaviour that the recursion has
  one solution (`HeadsDefined`) and extends it row by row.  `LinesOK` adds that every line has a last
  segment and that a segment which is not completed is the last of its line, so whatever a client
  does to a row that can still change is done to the phase of one process: a row changed in place
  is a move of that process (`RewriteImplements`), an INSERT by init or restart begins one
  (`InsertImplements`), the transaction of sleep is one `Nap` (`SleepImplements`), and reads,
  refusals and channel updates stutter.

`CronSlotsProofs`, for any limit, caps, rows and days:

- `TypeCorrect`, and `GatesKeepRoom`, for any number of pollers.  A claim reads before it inserts
  and nothing serialises two pollers (section 4), so `SlotExclusive`, `DispatchCap` and
  `FormulaOnce` allow `Overlap` more, one for each poller beyond the first: with one poller they are
  what the code promises.  The inductive invariant is `TypeOK /\ CountInv /\ RecordInv`.  A gate lets a
  poller pass when a count is below a limit, and until it inserts others may have inserted too;
  `Room(n, S, limit)` says that the count `n` and the pollers `S` that have passed come to no more than
  `limit + Overlap`.  It is kept for the slots of the day and the pollers past the cap (`Passed`), for
  the active slots and the claims that saw the day free (`Claiming`), and, where gate 1 looks for the
  formula's key, for the values computed that day and the pollers past gate 1 (`Recording`): a step lets pollers go (`RoomStays`), lets one pass while there
  is room (`RoomOpens`), or turns one that passed into one more of the count (`RoomUsed`); at
  midnight the count starts again and who passed has passed (`RoomAtMidnight`).
- From it: `OneSlotAtATime` (`SlotExclusive`), `CapsHold` (`DispatchCap`), `FormulaRecordedOnce`
  (`FormulaOnce`).
- `FailuresHalt` (`HaltsAfterFailures`) assumes one poller: the success on which one of several
  counts may be taken back by another, whose launch throws after the agent has completed.  `PInv`
  has `Hand`, the slot of the poller is one that nobody else completes and its run exists, and
  `Halting`: on each day there is a success the poller cannot take back by failing its run, or the
  slots that are active or failed are no more than the limit, and fewer when the poller is about to
  claim.  A slot uses up the limit when it is claimed, so it does not matter who fails it, the poller or
  the orphan job.  `Quiet` and `Advance` sum up the steps that neither claim, nor finish, nor are
  midnight.

`PollWindowProofs`, for every schedule, window, length of polls and lateness of timers:

- `TypeCorrect`; `NeverTwice` (`SeenOnce`): between polls the timer is a whole window after the last poll or more
  (`PauseInv`), and what was seen lies before the last poll (`SeenInv`).
- `GapsAreBounded` (`GapBounded`): a poll that starts late is late by at most `MaxPoll + MaxLate`
  and its own window is covered (`LateInv`).

`SleepWakeProofs`, for any number of segments and resume commands:

- The inductive invariant is `IInv == TypeOK /\ AtRows /\ OneLive /\ ClaimOK /\ KeptInv`.  `OneLive` rests on
  `StatusSteps`: every step other than a sleep leaves the rows as many as they are and brings none
  back to life, which needs `AtRows` (commands and scheduler are at rows of the table).
  `ResumedOnce` is not inductive: `ClaimOK` adds that a segment has one command past its claim at
  most, and that nothing was launched for one that waits, is not there yet or is so claimed.
  `KeptInv` says that segment 1 never waits, so that no command is ever at it, and that the flag of
  a script that slept stays until its wrapper has decided, as long as the worktree job has torn
  nothing down.
- From it: `TypeCorrect`, `OneSegmentLives` (`OneLive`), `LaunchedOnce` (`ResumedOnce`),
  `WorktreeKept` (`FlagKeepsWorktree`).
- `SleeperIsNear` and `GhostIsNear`: `TurnsToWake` and `TurnsToReap` count the steps the scheduler has
  left until it has dealt with a segment that sleeps (8 at most) or that nobody runs (5 at most).
  Each of its steps lowers the count or ends the matter, and no other step but its death raises it; a
  segment that was woken never waits again (`NoRowWaitsAgain`).  `OneLive` makes the scheduler find
  that segment and no other, and `WakeInv` excludes that it goes on, with the segment still waiting,
  because its command exited with 0.

`EpochLoopProofs`, for any budget, threshold and number of launches:

- The inductive invariant joins the budget with `Ahead` (until an epoch is lost, a `state.json` that has
  an epoch has none behind the last one committed, on disk and in /tmp: a reset or a copy, whole or
  half way, leaves one of the epochs there were or none), `Counted` (`noProgressCount` is the length
  of the last run of equal states), `Decided` and `Kept` (what the session left is where the phase of
  `commitEpoch` keeps it, and comes back over what the reset left: `ResetLeaves`, `HalfwayLeaves`).
- From it: `TypeCorrect`, `NoEpochTwice` (`CommittedNotRerun`), `ThrashingExact`
  (`ThrashOnlyStuck`), `PushedWork` (`WorkPushed`).
- `LoopGetsDone`: `StepsLeft`, nine statements for each session left in the budget at most, falls with
  every step of the loop, whatever the agent does, and is 0 only when the loop is over or killed.

`DispatchRunsProofs`, for any number of shells, loops and faults:

- Until something crosses, commands, outer session, loop and orphan job take turns (`Apart`), so nobody
  takes the worktree or the row away between the step that made sure of it and the one that relies
  on it (`WrapperKnows`).  `EnvNamesRow` needs no such condition: there is one outer session at a time,
  whatever crosses, and only it makes rows and writes the `.env`.
- From it: `TypeCorrect`, `EnvNamesTheRow`, `LoopInItsTree`, `LoopWithItsRow`.
- `DispatchGoesThrough`: an execute that begins with no loop, no active row and nobody crossing is
  `OnTrack`, and stays so without a fault or a crossing until a loop starts; it has one to nine
  statements before it (`StepsLeft`), and each one taken leaves fewer.  `LoopRank` says the same of a
  loop that runs: every step of its script comes nearer to its end.

`SandboxLifecycleProofs`, for any number of terminals, runs and faults:

- Without an overlap all that is at work belongs to one terminal (`OneAtWork`, `CliAtWork`), so the
  row a handler claimed is there until it is done (`ClaimedRow`), and a deprovision that goes on to
  forget the row has deleted the VM (`DeleteKnows`).  Most of the proof says which steps leave
  what alone (`Calm`, `ServerKept`, `ClaimsKept`, `DeletesKept`).
- `KeyInv` adds the keys: what is at work is at work for one run (`OneRun`), one handler at most has
  claimed the row (`OneClaim`), and row, key at the provider and VM are made with the key of that
  run (`RowOfRun`, `KeyMade`, `VmOfRow`); a row that a command waits for is active only while its VM
  is there (`ActiveVm`), since keys are never used twice (`KeysCounted`).
- From it: `TypeCorrect`, `VmHasItsRow` (`VmHasRow`), `KeyIsOfVm` (`KeyWorks`).
- `SandboxIsNear`: 27 places lie between a quiet system with whatever faults have left (no VM, a row
  stuck half made, a row being cleared, a VM without its row, a VM on its way) and a login with the
  VM's key.  Every quiet state but the stranded ones is at one of them (`OnTrack`), and each faultless
  step, whoever takes it, gets in or leads to a nearer one.  From the places beyond 15, where the VM is
  not that of the row, it may also strand the user: her next provision fails on the VM's name and
  leaves a row that no entry tells of.  If no VM is without its row she is not stranded any more, and
  the way is no longer than 16.  `Sound` is what the steps need of the invariant.

`WebhookRelayProofs`, for any number of consumers, webhooks and faults:

- An event still in the store was forwarded once for each delete that failed at most (`Early`), which
  leaves room for every reader it has when the store lets it go (`Within`); `Moves` counts how one
  consumer changes the sets of those that hold an event.
- From it: `TypeCorrect`, `DeliveriesAreBounded` (`DeliveriesBounded`).  `LossesAreBounded`
  (`LossBounded`) follows step by step from `LosesOne`: a step loses no event, or is a fault and
  loses one.
- `BatchGetsDone`: a poll lists no more than `Limit` keys (`BatchSize`), and of the three steps for each
  every step of the consumer leaves fewer.  `StoreLetsGo`: a listed event leaves the store before a
  faultless batch is done (`Leaves`), and what has left does not come back nor, but for a read after
  its delete, get another reader (`StaysOut`).

Only model-checked: the liveness properties themselves (`SleepEnds`, `GhostsReaped`, `LoopEnds`,
`Redispatched`, `GetsSandbox`, `Drained`), since fairness and ENABLED are out of the provers' reach.  For
each the part that is safety is proved, in the theorems on steps left and places above: how far
it is at most, which steps come nearer and which leave it where it is.  What TLC adds, on the
small instances, is that fairness takes such a step again and again: that one is enabled, that the
system becomes quiet for `GetsSandbox`, that a command is free for the scheduler to wake with in
`SleepEnds`, and that the batches come to every event for `Drained`.  Every
invariant, every action property and the refinement that passing runs check are also theorems.

## 6. Not modelled, and what could come next

Not modelled: the ontology CLI, mail, media, auth, the credential proxy, the web views,
configuration and prompts are sequential, stateless or pure I/O; the dependencies are SQL over one
table; see the components.  Left out of the modelled parts: the upload of
the record of a loop, remote targets of a dispatch, the compose job, Cloudflare hostnames (two
users who provision at once may lose an ingress rule, `cloudflare-tunnel.ts:98`), local entries that
are overwritten or kept on several machines, and `POST /hooks/agent`.

Next would be the poller composed with `SleepWake`, where a sleeping run does not hold back the
cron, and several users in `SandboxLifecycle` with the ingress rules they share.
