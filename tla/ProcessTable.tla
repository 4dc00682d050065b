---------------------------- MODULE ProcessTable ----------------------------
(***************************************************************************)
(* The `processes` table and everything that writes it.                    *)
(*                                                                         *)
(* A row is one segment of an agent process.  ProcessesService guards its  *)
(* updates with the current status; other writers (the loop, the dispatch  *)
(* script, the cron poller) update a row by id alone, and a re-dispatch    *)
(* deletes old rows.  One action is one SQL statement, or one transaction  *)
(* that no client sees half of; an operation that reads first and writes   *)
(* later (sleep, restart) is several actions of the client that runs it,   *)
(* because the transactions run at READ COMMITTED and take no lock when    *)
(* they read.                                                              *)
(***************************************************************************)
EXTENDS Integers, Sequences, FiniteSets

CONSTANTS
  Clients,       \* CLI invocations and services that hold a read-then-write operation open
  Channels,      \* session routing ids that may be stored in channel_id
  Projects,      \* projects a process may be dispatched under
  Null,          \* SQL NULL
  CheckStatuses, \* what the CHECK constraint processes_status_check admits
  MaxRows,       \* bound on the number of rows ever inserted
  MaxInits       \* bound on those of them that no other row's sleep or restart made

Baseline == {"pending", "active", "paused", "waiting", "completed", "failed"}
Statuses == Baseline \cup {"blocked", "queued"}

ASSUME ConstantsAssumption ==
  /\ Null \notin Channels \cup Projects
  /\ CheckStatuses \subseteq Statuses
  /\ Baseline \subseteq CheckStatuses
  /\ MaxRows \in Nat
  /\ MaxInits \in Nat

VARIABLES
  rows,      \* the table: rows in the order of created_at; a row's id is its index,
             \* and the index of a deleted row is not used again
  tx,        \* tx[c]: what client c has read for the operation it has open
  rejected   \* updates of active rows that a constraint of the database has refused

vars == <<rows, tx, rejected>>

Ids == {i \in DOMAIN rows : rows[i].status # "deleted"}   \* the rows in the table
Origins == {"init", "sleep", "restart", "cron"}  \* which INSERT made the row
Row == [status: CheckStatuses \cup {"deleted"}, parent: Nat, root: Nat, origin: Origins,
        channel: Channels \cup {Null}, project: Projects \cup {Null}]

NoTx == [op |-> "none", id |-> 0, root |-> 0, channel |-> Null, project |-> Null]
Tx == [op: {"none", "sleep", "restart"}, id: Nat, root: Nat,
       channel: Channels \cup {Null}, project: Projects \cup {Null}]

TypeOK ==
  /\ rows \in Seq(Row)
  /\ tx \in [Clients -> Tx]
  /\ rejected \subseteq {"block", "sleep"}

-----------------------------------------------------------------------------
(* Reading and writing the table. *)

\* channel_id is UNIQUE: no row but i may hold ch.
ChannelFree(ch, i) == ch = Null \/ \A j \in Ids \ {i} : rows[j].channel # ch

Update(i, fields) == [rows EXCEPT ![i] = fields]
WithStatus(i, s) == [rows[i] EXCEPT !.status = s]

\* UPDATE processes SET status = s WHERE id = i AND status IN from.  A row in
\* another status is left alone: the service answers with an error or a no-op.
Guarded(i, from, s) ==
  /\ i \in Ids
  /\ rows[i].status \in from
  /\ rows' = Update(i, WithStatus(i, s))
  /\ UNCHANGED <<tx, rejected>>

NewRow(st, par, rt, org) ==
  [status |-> st, parent |-> par, root |-> rt, origin |-> org,
   channel |-> Null, project |-> Null]

HasRoom == Len(rows) < MaxRows
HasInitRoom == HasRoom /\ Cardinality({i \in Ids : rows[i].origin \in {"init", "cron"}}) < MaxInits
NextId == Len(rows) + 1

Init ==
  /\ rows = <<>>
  /\ tx = [c \in Clients |-> NoTx]
  /\ rejected = {}

-----------------------------------------------------------------------------
(* ProcessesService. *)

\* init: the caller chooses the status, the parent and the channel; an INSERT that
\* breaks a constraint is an error and changes nothing.  It names no root, so the
\* trigger makes the row its own root.
InitProcess(st, par, ch, pr) ==
  /\ HasInitRoom
  /\ par \in Ids \cup {0}
  /\ st \in CheckStatuses
  /\ ChannelFree(ch, 0)
  /\ rows' = Append(rows, [NewRow(st, par, NextId, "init") EXCEPT !.channel = ch, !.project = pr])
  /\ UNCHANGED <<tx, rejected>>

\* init_process, the RPC of the worktree provisioner: a child joins the chain of
\* its parent.
InitProcessRpc(par, pr) ==
  /\ HasInitRoom
  /\ par \in Ids \cup {0}
  /\ LET rt == IF par = 0 THEN NextId ELSE rows[par].root
     IN  rows' = Append(rows, [NewRow("pending", par, rt, "init") EXCEPT !.project = pr])
  /\ UNCHANGED <<tx, rejected>>

Activate(i) == Guarded(i, {"pending", "waiting"}, "active")

Claim(i) == Guarded(i, {"waiting"}, "active")

Complete(i) == Guarded(i, {"active"}, "completed")

\* Mutant: fail also takes rows that are completed.
FailAny(i) == Guarded(i, {"active", "pending", "waiting", "completed"}, "failed")

Fail(i) == Guarded(i, {"active", "pending", "waiting"}, "failed")

\* Mutant: reset puts a segment that failed while it slept back to wait.
ResetToWaiting(i) == Guarded(i, {"failed"}, IF rows[i].origin = "sleep" THEN "waiting" ELSE "pending")

Reset(i) == Guarded(i, {"failed"}, "pending")

\* Mutant: the CHECK constraint is not there.
BlockUnchecked(i) == Guarded(i, {"active"}, "blocked")

\* block: the CHECK constraint decides whether the status exists.
Block(i) ==
  IF "blocked" \in CheckStatuses
  THEN Guarded(i, {"active"}, "blocked")
  ELSE /\ i \in Ids
       /\ rows[i].status = "active"
       /\ rejected' = rejected \cup {"block"}
       /\ UNCHANGED <<rows, tx>>

\* updateFields with a channel: UPDATE ... WHERE id = i, whatever the status.
UpdateChannel(i, ch) ==
  /\ i \in Ids
  /\ ChannelFree(ch, i)
  /\ rows' = Update(i, [rows[i] EXCEPT !.channel = ch])
  /\ UNCHANGED <<tx, rejected>>

\* sleep, the SELECTs: the row, refused unless it is active, and the count of its chain,
\* which only numbers the name of the new segment.
SleepRead(c, i) ==
  /\ i \in Ids
  /\ tx[c].op = "none"
  /\ rows[i].status = "active"
  /\ tx' = [tx EXCEPT ![c] = [op |-> "sleep", id |-> i, root |-> rows[i].root,
                              channel |-> rows[i].channel, project |-> rows[i].project]]
  /\ UNCHANGED <<rows, rejected>>

\* Mutant: the UPDATE of sleep is by id alone.
SleepAnyStatus(c) == TRUE

SleepStillActive(c) == rows[tx[c].id].status = "active"

\* The segment that waits, made of what the transaction read.
SleepSegment(c) ==
  [NewRow("waiting", tx[c].id, tx[c].root, "sleep")
     EXCEPT !.channel = tx[c].channel, !.project = tx[c].project]

\* sleep, UPDATE ... AND status = 'active', INSERT and COMMIT: the old segment is
\* completed and gives up its channel, the new one waits.
SleepCommit(c) ==
  /\ tx[c].op = "sleep"
  /\ HasRoom
  /\ SleepStillActive(c)
  /\ ChannelFree(tx[c].channel, tx[c].id)
  /\ LET i == tx[c].id
     IN  rows' = Append(Update(i, [WithStatus(i, "completed") EXCEPT !.channel = Null]),
                        SleepSegment(c))
  /\ tx' = [tx EXCEPT ![c] = NoTx]
  /\ UNCHANGED rejected

\* sleep: the row is no longer active, or the INSERT breaks the UNIQUE
\* constraint on channel_id; the transaction rolls back.
SleepAbort(c) ==
  /\ tx[c].op = "sleep"
  /\ \/ ~SleepStillActive(c) /\ UNCHANGED rejected
     \/ /\ SleepStillActive(c)
        /\ ~ChannelFree(tx[c].channel, tx[c].id)
        /\ rejected' = rejected \cup {"sleep"}
  /\ tx' = [tx EXCEPT ![c] = NoTx]
  /\ UNCHANGED rows

Restartable == {"failed", "completed", "blocked"}

\* restart, getById: the status is checked outside the transaction.
RestartRead(c, i) ==
  /\ i \in Ids
  /\ tx[c].op = "none"
  /\ rows[i].status \in Restartable
  /\ tx' = [tx EXCEPT ![c] = [NoTx EXCEPT !.op = "restart", !.id = i, !.root = rows[i].root]]
  /\ UNCHANGED <<rows, rejected>>

\* restart, the transaction: INSERT the child.  No project is copied.
RestartInsert(c) ==
  /\ tx[c].op = "restart"
  /\ HasRoom
  /\ tx[c].id \in Ids
  /\ rows' = Append(rows, NewRow("pending", tx[c].id, tx[c].root, "restart"))
  /\ tx' = [tx EXCEPT ![c] = NoTx]
  /\ UNCHANGED rejected

\* restart: the process was deleted meanwhile, and the foreign key refuses the INSERT.
RestartAbort(c) ==
  /\ tx[c].op = "restart"
  /\ tx[c].id \notin Ids
  /\ tx' = [tx EXCEPT ![c] = NoTx]
  /\ UNCHANGED <<rows, rejected>>

ServiceNext ==
  \/ \E st \in {"pending", "queued"}, par \in Ids \cup {0}, ch \in Channels \cup {Null},
        pr \in Projects \cup {Null} : InitProcess(st, par, ch, pr)
  \/ \E par \in Ids \cup {0}, pr \in Projects \cup {Null} : InitProcessRpc(par, pr)
  \/ \E i \in Ids : Activate(i) \/ Claim(i) \/ Complete(i) \/ Fail(i) \/ Reset(i) \/ Block(i)
  \/ \E i \in Ids, ch \in Channels : UpdateChannel(i, ch)
  \/ \E c \in Clients, i \in Ids : SleepRead(c, i) \/ RestartRead(c, i)
  \/ \E c \in Clients : SleepCommit(c) \/ SleepAbort(c)
                        \/ RestartInsert(c) \/ RestartAbort(c)

-----------------------------------------------------------------------------
(* Writers that do not go through ProcessesService. *)

\* markProcessCompleted of the loop: PATCH of the row its environment names, by id alone.
MarkProcessCompleted(i) ==
  /\ i \in Ids
  /\ rows' = Update(i, WithStatus(i, "completed"))
  /\ UNCHANGED <<tx, rejected>>

\* fail_process, called when the dispatch script throws: UPDATE by id.
FailProcessRpc(i) ==
  /\ i \in Ids
  /\ rows' = Update(i, WithStatus(i, "failed"))
  /\ UNCHANGED <<tx, rejected>>

\* The poller's slot: a row that is born active.
CronClaim ==
  /\ HasInitRoom
  /\ rows' = Append(rows, NewRow("active", 0, NextId, "cron"))
  /\ UNCHANGED <<tx, rejected>>

\* The poller's last statement for a slot: UPDATE by id, whatever the status.
CronFinish(i, s) ==
  /\ i \in Ids
  /\ rows[i].origin = "cron"
  /\ rows' = Update(i, WithStatus(i, s))
  /\ UNCHANGED <<tx, rejected>>

\* reapStalePending: one UPDATE of every pending row older than ten minutes; the
\* rows up to k are the ones that old.
ReapStalePending(k) ==
  /\ \E i \in DOMAIN rows : i <= k /\ rows[i].status = "pending"
  /\ rows' = [i \in DOMAIN rows |-> IF i <= k /\ rows[i].status = "pending"
                            THEN WithStatus(i, "failed") ELSE rows[i]]
  /\ UNCHANGED <<tx, rejected>>

Prunable == {"failed", "completed", "pending"}

\* Mutant: the foreign keys on parent and root are not there.
PruneReferenced(i) ==
  /\ i \in Ids
  /\ rows[i].origin = "init"
  /\ rows[i].status \in Prunable
  /\ rows' = Update(i, WithStatus(i, "deleted"))
  /\ UNCHANGED <<tx, rejected>>

\* prunePendingProcessRow, before a skill is dispatched again: DELETE the row that
\* bears the name of the dispatch, unless another row refers to it.
PruneProcessRow(i) ==
  /\ i \in Ids
  /\ rows[i].origin = "init"
  /\ rows[i].status \in Prunable
  /\ \A j \in Ids \ {i} : rows[j].parent # i /\ rows[j].root # i
  /\ rows' = Update(i, [WithStatus(i, "deleted") EXCEPT !.channel = Null])
  /\ UNCHANGED <<tx, rejected>>

RawNext ==
  \/ \E i \in Ids : MarkProcessCompleted(i) \/ FailProcessRpc(i) \/ PruneProcessRow(i)
  \/ CronClaim
  \/ \E i \in Ids, s \in {"completed", "failed"} : CronFinish(i, s)
  \/ \E k \in Ids : ReapStalePending(k)

Next == ServiceNext \/ RawNext

Spec == Init /\ [][Next]_vars                 \* every writer
ServiceSpec == Init /\ [][ServiceNext]_vars   \* ProcessesService alone

-----------------------------------------------------------------------------
(* Properties under every writer. *)

\* A row made by sleep or restart.
Continues(i) == rows[i].origin \in {"sleep", "restart"}

Placed(i) ==
  /\ rows[i].parent < i /\ rows[i].parent \in Ids \cup {0}
  /\ rows[i].root <= i /\ rows[i].root \in Ids
  /\ rows[rows[i].root].root = rows[i].root
  /\ Continues(i) => rows[i].parent # 0 /\ rows[rows[i].parent].root = rows[i].root
  /\ rows[i].origin = "sleep" => rows[i].project = rows[rows[i].parent].project

\* Lineage is sound whoever writes or deletes: a parent is in the table and older
\* than its child, the root of a row is a row that is its own root, and a row that
\* continues another is in the same chain, so resolveChain finds every segment from
\* any of them; the segment after a sleep also stays in the project.
ChainShape == \A i \in Ids : Placed(i)

\* Going to sleep hands over in one step: the segment before was active until
\* the very step that made the new one, and is completed after it; a transaction
\* that read an active row which somebody failed meanwhile must not commit.
SleepHandsOver ==
  [][\A i \in DOMAIN rows' :
       i \notin DOMAIN rows /\ rows'[i].origin = "sleep" =>
         /\ rows[rows'[i].parent].status = "active"
         /\ rows'[rows'[i].parent].status = "completed"]_vars

\* A row waits only from its birth in a sleep, and never again once it has left
\* that status, whoever writes it.  With the status guard of claim and activate, a
\* wake-up is therefore taken at most once, however many schedulers race for it.
WokenAtMostOnce ==
  [][\A i \in DOMAIN rows' :
       rows'[i].status = "waiting" =>
         IF i \in DOMAIN rows THEN rows[i].status = "waiting" ELSE rows'[i].origin = "sleep"]_vars

-----------------------------------------------------------------------------
(* Properties of ProcessesService alone. *)

\* A completed segment is over: the service never changes its status again.
CompletedIsFinal ==
  [][\A i \in Ids : rows[i].status = "completed" => rows'[i].status = "completed"]_vars

\* Each segment sleeps at most once, even when two clients sleep it at the same
\* time, and once it has a successor it is completed for good: an agent process
\* never has two sleeping or running continuations of one segment.
SleepsOnce ==
  \A i, j \in Ids :
    /\ rows[i].origin = "sleep" => rows[rows[i].parent].status = "completed"
    /\ rows[i].origin = "sleep" /\ rows[j].origin = "sleep" /\ rows[i].parent = rows[j].parent
         => i = j
=============================================================================
