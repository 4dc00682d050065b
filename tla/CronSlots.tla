----------------------------- MODULE CronSlots ------------------------------
(***************************************************************************)
(* How the cron poller decides to dispatch one skill, and what the rows    *)
(* it leaves behind make it decide next time.                              *)
(*                                                                         *)
(* A dispatch leaves two rows of the skill in `processes`: the slot the    *)
(* poller claims, and the run that the provisioner inits for the agent.    *)
(* Every gate of poll() counts rows of the current day and does not tell   *)
(* one kind from the other.  One action is one statement of the poller:    *)
(* the agent, another poller, midnight or a crash may come between two.    *)
(***************************************************************************)
EXTENDS Integers, Sequences, FiniteSets

CONSTANTS
  Pollers,       \* instances of the poller daemon
  FailureLimit,  \* max_failures_per_day (gate 3)
  DailyCap,      \* max_dispatches_per_day
  BypassCap,     \* the cap on bypass claims, 50 in the code
  MaxRows,       \* bound on the rows of the skill
  MaxDay         \* bound on the days

ASSUME CronAssumption ==
  /\ FailureLimit \in Nat \ {0} /\ DailyCap \in Nat /\ BypassCap \in Nat
  /\ MaxRows \in Nat /\ MaxDay \in Nat
  /\ IsFiniteSet(Pollers) /\ Pollers # {}

VARIABLES
  cron,      \* the configuration of the cron and its skill, which does not change
  rows,      \* the rows of the skill in order of created_at
  day,       \* the day of NOW()
  recorded,  \* recorded[d]: the keys with a row of the skill in metric_snapshots on day d
  computed,  \* computed[d]: how many of those rows the formula's INSERT made
  pc,        \* pc[p]: the statement poller p runs next
  mine       \* mine[p]: the slot and the run of the dispatch p is at, 0 if none yet;
             \* free: whether its claim saw the day free; outcome: dispatchStatus

vars == <<cron, rows, day, recorded, computed, pc, mine>>

Row == [kind: {"slot", "run"},
        status: {"pending", "active", "waiting", "completed", "failed"},
        day: Nat]

Steps == {"idle", "cap", "metric", "busy", "failures", "success", "claim", "insert",
          "provision", "check", "launch", "finish"}

NoDispatch == [slot |-> 0, run |-> 0, free |-> FALSE, outcome |-> "failed"]

\* The keys of metric_snapshots that matter: metricKey, and formulaMetricKey, under which
\* a formula's value is recorded.
Keys == {"metric", "formula"}

\* Whether it bypasses the gates, whether it is an agent with a daily cap, whether the
\* poller computes a formula instead of launching an agent, and the key gate 1 looks for:
\* metricKey, and the formula's only when there is no metricKey or the two are equal.
Crons == {c \in [bypass: BOOLEAN, capped: BOOLEAN, formula: BOOLEAN, key: Keys \cup {"none"}] :
            IF c.formula THEN c.key # "none" ELSE c.key # "formula"}

Ids == DOMAIN rows

TypeOK ==
  /\ cron \in Crons
  /\ rows \in Seq(Row)
  /\ day \in 0..MaxDay
  /\ recorded \in [0..MaxDay -> SUBSET Keys]
  /\ computed \in [0..MaxDay -> Nat]
  /\ pc \in [Pollers -> Steps]
  /\ mine \in [Pollers -> [slot: Ids \cup {0}, run: Ids \cup {0}, free: BOOLEAN,
                           outcome: {"completed", "failed"}]]

Init ==
  /\ cron \in Crons
  /\ rows = <<>>
  /\ day = 0
  /\ recorded = [d \in 0..MaxDay |-> {}]
  /\ computed = [d \in 0..MaxDay |-> 0]
  /\ pc = [p \in Pollers |-> "idle"]
  /\ mine = [p \in Pollers |-> NoDispatch]

-----------------------------------------------------------------------------
(* Queries and updates. *)

OnDay(d) == {i \in Ids : rows[i].day = d}
Today(statuses) == {i \in OnDay(day) : rows[i].status \in statuses}

\* Mutant: a slot that is active does not keep the day busy.
BusyPending == Today({"pending"})

\* What gate 2 and the claim ask for: a row that is under way today.
Busy == Today({"active", "pending"})

SetStatus(i, s) == rows' = [rows EXCEPT ![i].status = s]
Insert(k, s) ==
  /\ Len(rows) < MaxRows
  /\ rows' = Append(rows, [kind |-> k, status |-> s, day |-> day])

Goto(p, s) == pc' = [pc EXCEPT ![p] = s]
Skip(p) == Goto(p, "idle")

\* A gate reads, lets the poll go on to the next statement or skips the cron.
Gate(p, at, open, next) ==
  /\ pc[p] = at
  /\ IF open THEN Goto(p, next) ELSE Skip(p)
  /\ UNCHANGED <<cron, rows, day, recorded, computed, mine>>

-----------------------------------------------------------------------------
(* poll() for a cron that is due. *)

\* reapStalePending fails every pending row older than ten minutes, here the
\* pending ones among the first k.
StartPoll(p, k) ==
  /\ pc[p] = "idle"
  /\ rows' = [i \in Ids |-> IF i <= k /\ rows[i].status = "pending"
                            THEN [rows[i] EXCEPT !.status = "failed"] ELSE rows[i]]
  /\ Goto(p, "cap")
  /\ mine' = [mine EXCEPT ![p] = NoDispatch]
  /\ UNCHANGED <<cron, day, recorded, computed>>

\* Mutant: the cap counts only the rows that have not failed.
CapGateLive(p) ==
  Gate(p, "cap", cron.capped => Cardinality({i \in OnDay(day) : rows[i].status # "failed"}) < DailyCap,
       IF cron.bypass THEN "claim" ELSE "metric")

CapGate(p) ==
  Gate(p, "cap", cron.capped => Cardinality(OnDay(day)) < DailyCap,
       IF cron.bypass THEN "claim" ELSE "metric")

\* Mutant: gate 1 is skipped for a skill with a formula.
MetricGateAgents(p) == Gate(p, "metric", cron.formula \/ cron.key \notin recorded[day], "busy")

MetricGate(p) == Gate(p, "metric", cron.key \notin recorded[day], "busy")

BusyGate(p) == Gate(p, "busy", Busy = {}, "failures")

\* Gate 3, SELECT COUNT(*) of the failed rows of today.
FailureGate(p) ==
  /\ pc[p] = "failures"
  /\ Goto(p, IF Cardinality(Today({"failed"})) >= FailureLimit THEN "success" ELSE "claim")
  /\ UNCHANGED <<cron, rows, day, recorded, computed, mine>>

\* Mutant: a day with no success is not halted.
SuccessGateOpen(p) == Gate(p, "success", TRUE, "claim")

\* Gate 3, the completed rows of today.
SuccessGate(p) == Gate(p, "success", Today({"completed"}) # {}, "claim")

\* The claim is one INSERT ... SELECT ... WHERE; at READ COMMITTED its subquery
\* reads the rows that were committed when the statement began.
ClaimRead(p) ==
  /\ pc[p] = "claim"
  /\ mine' = [mine EXCEPT ![p].free =
        IF cron.bypass THEN Cardinality(OnDay(day)) < BypassCap
                  ELSE Busy = {}]
  /\ Goto(p, "insert")
  /\ UNCHANGED <<cron, rows, day, recorded, computed>>

ClaimInsert(p) ==
  /\ pc[p] = "insert"
  /\ IF mine[p].free
     THEN /\ Insert("slot", "active")
          /\ mine' = [mine EXCEPT ![p].slot = Len(rows) + 1]
          /\ Goto(p, "provision")
     ELSE /\ Skip(p)
          /\ UNCHANGED <<rows, mine>>
  /\ UNCHANGED <<cron, day, recorded, computed>>

\* Mutant: the dispatch goes on with the id of a run that was never inserted.
ProvisionUnchecked(p) ==
  /\ ~cron.formula
  /\ pc[p] = "provision"
  /\ mine' = [mine EXCEPT ![p].run = Len(rows) + 1]
  /\ Goto(p, "check")
  /\ Insert("run", "pending") \/ UNCHANGED rows
  /\ UNCHANGED <<cron, day, recorded, computed>>

\* The poller evaluates a formula and INSERTs its value under the formula's key, whatever
\* gate 1 looked for; a missing ingredient or a bad formula fails the slot.
EvaluateFormula(p) ==
  /\ cron.formula
  /\ pc[p] = "provision"
  /\ Goto(p, "finish")
  /\ \/ /\ recorded' = [recorded EXCEPT ![day] = @ \cup {"formula"}]
        /\ computed' = [computed EXCEPT ![day] = @ + 1]
        /\ mine' = [mine EXCEPT ![p].outcome = "completed"]
     \/ UNCHANGED <<recorded, computed, mine>>
  /\ UNCHANGED <<cron, rows, day>>

\* The provisioner inits the row of the run; it may throw before or after.
Provision(p) ==
  /\ ~cron.formula
  /\ pc[p] = "provision"
  /\ \/ /\ Insert("run", "pending")
        /\ mine' = [mine EXCEPT ![p].run = Len(rows) + 1]
        /\ \/ Goto(p, "check")
           \/ Goto(p, "finish")
     \/ /\ Goto(p, "finish")
        /\ UNCHANGED <<rows, mine>>
  /\ UNCHANGED <<cron, day, recorded, computed>>

\* The guard against launching a run in a terminal state is best effort: when the
\* status cannot be read the dispatch proceeds.
CheckStatus(p) ==
  /\ pc[p] = "check"
  /\ \/ Goto(p, "launch")
     \/ rows[mine[p].run].status \in {"completed", "failed"} /\ Goto(p, "finish")
  /\ UNCHANGED <<cron, rows, day, recorded, computed, mine>>

\* dispatch returns 'completed' as soon as tmux has the session; when the launch throws
\* it tries to fail the row of the run.
Launch(p) ==
  /\ pc[p] = "launch"
  /\ Goto(p, "finish")
  /\ \/ /\ mine' = [mine EXCEPT ![p].outcome = "completed"]
        /\ UNCHANGED rows
     \/ /\ SetStatus(mine[p].run, "failed") \/ UNCHANGED rows
        /\ UNCHANGED mine
  /\ UNCHANGED <<cron, day, recorded, computed>>

\* UPDATE processes SET status = dispatchStatus WHERE id = the slot.
Finish(p) ==
  /\ pc[p] = "finish"
  /\ SetStatus(mine[p].slot, mine[p].outcome)
  /\ Skip(p)
  /\ mine' = [mine EXCEPT ![p] = NoDispatch]
  /\ UNCHANGED <<cron, day, recorded, computed>>

\* The daemon dies and is started again; what it had committed stays.
Crash(p) ==
  /\ pc[p] # "idle"
  /\ Skip(p)
  /\ mine' = [mine EXCEPT ![p] = NoDispatch]
  /\ UNCHANGED <<cron, rows, day, recorded, computed>>

-----------------------------------------------------------------------------
(* The agents and the clock. *)

\* activate, claim, complete, fail and reset of ProcessesService, and the loop's
\* markProcessCompleted, by id: it also takes a run that was failed while it worked, or
\* one that was never activated.
Moves == ({"pending", "waiting"} \X {"active"}) \cup ({"pending", "active", "failed"} \X {"completed"})
         \cup ({"active", "pending", "waiting"} \X {"failed"}) \cup {<<"failed", "pending">>}

\* The launch wrapper, the agent or an operator moves the row of a run.
RunMoves(i, s) ==
  /\ rows[i].kind = "run"
  /\ <<rows[i].status, s>> \in Moves
  /\ SetStatus(i, s)
  /\ UNCHANGED <<cron, day, recorded, computed, pc, mine>>

\* A slot that stays active, the one of a dead poller or of a long dispatch, is a row like
\* any other to the orphan job and to an operator, who fail it.
SlotFails(i) ==
  /\ rows[i].kind = "slot"
  /\ rows[i].status = "active"
  /\ SetStatus(i, "failed")
  /\ UNCHANGED <<cron, day, recorded, computed, pc, mine>>

\* sleep completes the row and inserts the next segment, which bears the same skill.
RunSleeps(i) ==
  /\ rows[i].kind = "run"
  /\ rows[i].status = "active"
  /\ Len(rows) < MaxRows
  /\ rows' = Append([rows EXCEPT ![i].status = "completed"],
                    [kind |-> "run", status |-> "waiting", day |-> day])
  /\ UNCHANGED <<cron, day, recorded, computed, pc, mine>>

\* An agent or an operator records the metric that gate 1 looks for.
RecordMetric ==
  /\ cron.key # "none"
  /\ recorded' = [recorded EXCEPT ![day] = @ \cup {cron.key}]
  /\ UNCHANGED <<cron, rows, day, computed, pc, mine>>

Midnight ==
  /\ day < MaxDay
  /\ day' = day + 1
  /\ UNCHANGED <<cron, rows, recorded, computed, pc, mine>>

Next ==
  \/ \E p \in Pollers, k \in Ids \cup {0} : StartPoll(p, k)
  \/ \E p \in Pollers :
       \/ CapGate(p) \/ MetricGate(p) \/ BusyGate(p) \/ FailureGate(p) \/ SuccessGate(p)
       \/ ClaimRead(p) \/ ClaimInsert(p) \/ EvaluateFormula(p) \/ Provision(p) \/ CheckStatus(p) \/ Launch(p)
       \/ Finish(p) \/ Crash(p)
  \/ \E i \in Ids : RunSleeps(i) \/ SlotFails(i) \/ \E s \in {"active", "completed", "failed", "pending"} : RunMoves(i, s)
  \/ RecordMetric
  \/ Midnight

Spec == Init /\ [][Next]_vars

-----------------------------------------------------------------------------
Slots(d, statuses) == {i \in OnDay(d) : rows[i].kind = "slot" /\ rows[i].status \in statuses}

\* What each poller beyond the first may add, since nothing excludes it from the others
\* between a count and the INSERT: the daemon is deployed once, and then it is nothing.
Overlap == Cardinality(Pollers) - 1

\* The INSERT "prevents double-firing": two dispatches of a skill by one poller are never
\* under way on one day, also after a poller died in the middle of one.
SlotExclusive ==
  ~cron.bypass => \A d \in 0..MaxDay : Cardinality(Slots(d, {"active"})) <= 1 + Overlap

\* One poller dispatches an agent at most max_dispatches_per_day times a day, and with bypass
\* at most as often as its cap allows, whatever else writes rows of the skill.
DispatchCap ==
  \A d \in 0..MaxDay :
    LET n == Cardinality(Slots(d, {"active", "completed", "failed"}))
    IN  (cron.capped => n <= DailyCap + Overlap) /\ (cron.bypass => n <= BypassCap + Overlap)

\* On a day on which nothing was completed, a skill whose dispatches fail is not
\* dispatched again after FailureLimit of them.
HaltsAfterFailures ==
  ~cron.bypass => \A d \in 0..MaxDay :
    (\A i \in OnDay(d) : rows[i].status # "completed")
      => Cardinality(Slots(d, {"failed"})) <= FailureLimit

\* When gate 1 looks for the key a formula records under, one poller computes it at most once
\* a day, also when it dies after the INSERT of the metric, midnight passes before it, or the
\* orphan job closes its slot under it.  With another metricKey nothing keeps it to once a day.
FormulaOnce ==
  cron.key = "formula" /\ ~cron.bypass => \A d \in 0..MaxDay : computed[d] <= 1 + Overlap
=============================================================================
