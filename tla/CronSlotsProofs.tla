--------------------------- MODULE CronSlotsProofs --------------------------
(***************************************************************************)
(* Proofs about CronSlots, for any limits, caps, rows and days.  One       *)
(* poller keeps what gate 3 is for; what the claim, the caps and gate 1    *)
(* are for is kept by any number of pollers but for one more by each of    *)
(* them beyond the first.  Each of the four needs to know what the gates   *)
(* a poller has passed still say when it inserts.                          *)
(***************************************************************************)
EXTENDS CronSlots, FiniteSetTheorems, TLAPS

\* Past the caps and before the claim, and past the claim.
Deciding == {"metric", "busy", "failures", "success", "claim", "insert"}
Dispatching == {"provision", "check", "launch", "finish"}

SlotsOn(d) == {i \in Ids : rows[i].kind = "slot" /\ rows[i].day = d}
ActiveOn(d) == Slots(d, {"active"})
\* Slots that have failed and those that still may.
UsedOn(d) == {i \in SlotsOn(d) : rows[i].status \in {"active", "failed"}}

\* Rows bear a day that has come, and a slot is never pending or waiting.
RowsOK ==
  \A i \in Ids : /\ rows[i].day <= day
                 /\ rows[i].kind = "slot" => rows[i].status \in {"active", "completed", "failed"}

\* What poller p is at: its slot, which only p completes, and the run.
Hand(p) ==
  /\ mine[p].slot # 0 <=> pc[p] \in Dispatching
  /\ pc[p] \in Dispatching =>
       mine[p].slot \in Ids /\ rows[mine[p].slot].kind = "slot" /\ rows[mine[p].slot].status # "completed"
  /\ pc[p] \in {"check", "launch"} => mine[p].run \in Ids /\ rows[mine[p].run].kind = "run"
  /\ mine[p].run # 0 => pc[p] \in Dispatching

\* A success that gate 3 may count on: no run the poller may still fail.
Succeeded(p, d) == \E i \in Ids : rows[i].day = d /\ rows[i].status = "completed" /\ i # mine[p].run

\* Slots use up the limit of gate 3 when they are claimed, and p claims one only below it.
Halting(p) ==
  ~cron.bypass => \A d \in 0..MaxDay :
    \/ Succeeded(p, d)
    \/ /\ Cardinality(UsedOn(d)) <= FailureLimit
       /\ d = day /\ pc[p] \in {"failures", "success"} => ActiveOn(d) = {}
       /\ d = day /\ pc[p] \in {"claim", "insert"} => Cardinality(UsedOn(d)) < FailureLimit

-----------------------------------------------------------------------------
Statuses == {"pending", "active", "waiting", "completed", "failed"}

\* A change of status keeps the kinds and the days.
LEMMA StatusSet ==
  ASSUME rows \in Seq(Row), NEW i, NEW s \in Statuses, SetStatus(i, s)
  PROVE  /\ rows' \in Seq(Row) /\ Len(rows') = Len(rows) /\ Ids' = Ids
         /\ \A j \in Ids : /\ rows'[j].kind = rows[j].kind /\ rows'[j].day = rows[j].day
                           /\ rows'[j].status = IF j = i THEN s ELSE rows[j].status
<1>0. \A j \in Ids : rows[j] \in Row
  BY DEF Ids
<1>1. \A j \in Ids : rows[j] \in Row /\ [rows[j] EXCEPT !.status = s] \in Row
  BY <1>0 DEF Row, Statuses
<1>2. rows' = [j \in Ids |-> IF j = i THEN [rows[j] EXCEPT !.status = s] ELSE rows[j]]
  BY DEF SetStatus, Ids
<1>3. Ids = 1..Len(rows) /\ Len(rows) \in Nat
  BY DEF Ids
<1>4. rows' \in [1..Len(rows) -> Row]
  BY <1>1, <1>2, <1>3
<1>5. rows' \in Seq(Row) /\ Len(rows') = Len(rows) /\ Ids' = Ids
  BY <1>3, <1>4 DEF Ids
<1>6. \A j \in Ids : rows'[j] = IF j = i THEN [rows[j] EXCEPT !.status = s] ELSE rows[j]
  BY <1>2
<1> QED
  BY <1>1, <1>5, <1>6 DEF Row

\* An insert adds a last row of the day.
LEMMA Inserted ==
  ASSUME rows \in Seq(Row), day \in Nat, NEW k \in {"slot", "run"}, NEW s \in Statuses, Insert(k, s)
  PROVE  /\ rows' \in Seq(Row) /\ Ids' = Ids \cup {Len(rows) + 1} /\ Len(rows) + 1 \notin Ids
         /\ Ids \subseteq Nat \ {0} /\ Len(rows) \in Nat
         /\ \A j \in Ids : rows'[j] = rows[j]
         /\ rows'[Len(rows) + 1] = [kind |-> k, status |-> s, day |-> day]
BY DEF Insert, Row, Statuses, Ids

\* The reaper fails pending rows and leaves the others.
LEMMA Reaped ==
  ASSUME rows \in Seq(Row), NEW p, NEW k, StartPoll(p, k)
  PROVE  /\ rows' \in Seq(Row) /\ Ids' = Ids
         /\ \A i \in Ids : /\ rows'[i].kind = rows[i].kind /\ rows'[i].day = rows[i].day
                           /\ rows'[i].status # rows[i].status => rows[i].status = "pending" /\ rows'[i].status = "failed"
<1>1. \A i \in Ids : rows[i] \in Row
  BY DEF Ids
<1>2. \A i \in Ids : [rows[i] EXCEPT !.status = "failed"] \in Row
  BY <1>1 DEF Row
<1>3. Ids = 1..Len(rows) /\ Len(rows) \in Nat
  BY DEF Ids
<1>4. rows' = [i \in Ids |-> IF i <= k /\ rows[i].status = "pending"
                             THEN [rows[i] EXCEPT !.status = "failed"] ELSE rows[i]]
  BY DEF StartPoll
<1>5. rows' \in [1..Len(rows) -> Row]
  BY <1>1, <1>2, <1>3, <1>4
<1>6. rows' \in Seq(Row) /\ Ids' = Ids
  BY <1>3, <1>5 DEF Ids
<1> QED
  BY <1>1, <1>4, <1>6 DEF Row

\* A sleep completes the row of a run and appends the next one.
LEMMA SleepRows ==
  ASSUME rows \in Seq(Row), day \in Nat, NEW i \in Ids, RunSleeps(i)
  PROVE  /\ rows' \in Seq(Row) /\ Ids' = Ids \cup {Len(rows) + 1} /\ Len(rows) + 1 \notin Ids
         /\ \A j \in Ids : /\ rows'[j].kind = rows[j].kind /\ rows'[j].day = rows[j].day
                           /\ rows'[j].status = IF j = i THEN "completed" ELSE rows[j].status
         /\ rows'[Len(rows) + 1] = [kind |-> "run", status |-> "waiting", day |-> day]
<1> DEFINE old == [rows EXCEPT ![i].status = "completed"]
           new == [kind |-> "run", status |-> "waiting", day |-> day]
<1>1. \A j \in Ids : rows[j] \in Row /\ [rows[j] EXCEPT !.status = "completed"] \in Row
  <2>1. \A j \in Ids : rows[j] \in Row
    BY DEF Ids
  <2> QED
    BY <2>1 DEF Row
<1>2. Ids = 1..Len(rows) /\ Len(rows) \in Nat
  BY DEF Ids
<1>3. old \in [1..Len(rows) -> Row]
  BY <1>1, <1>2
<1>4. old \in Seq(Row) /\ Len(old) = Len(rows)
  BY <1>2, <1>3
<1>5. \A j \in Ids : old[j] = IF j = i THEN [rows[j] EXCEPT !.status = "completed"] ELSE rows[j]
  BY <1>2, <1>3
<1>6. rows' = Append(old, new) /\ new \in Row
  BY DEF RunSleeps, Row
<1> HIDE DEF old, new
<1>7. /\ rows' \in Seq(Row) /\ Ids' = Ids \cup {Len(rows) + 1} /\ Len(rows) + 1 \notin Ids
      /\ \A j \in Ids : rows'[j] = old[j]
      /\ rows'[Len(rows) + 1] = new
  BY <1>2, <1>4, <1>6 DEF Ids
<1>8. \A j \in Ids : /\ rows'[j].kind = rows[j].kind /\ rows'[j].day = rows[j].day
                     /\ rows'[j].status = IF j = i THEN "completed" ELSE rows[j].status
  <2>1. \A j \in Ids : rows'[j] = IF j = i THEN [rows[j] EXCEPT !.status = "completed"] ELSE rows[j]
    BY <1>5, <1>7
  <2>2. \A j \in Ids : rows[j] \in Row
    BY <1>1
  <2> HIDE DEF old
  <2> QED
    BY <2>1, <2>2 DEF Row
<1> QED
  BY <1>7, <1>8 DEF new

-----------------------------------------------------------------------------
(* Types, for any number of pollers. *)

\* What a poller has in hand.
Mines == [slot: Ids \cup {0}, run: Ids \cup {0}, free: BOOLEAN, outcome: {"completed", "failed"}]

LEMMA InitType == Init => TypeOK
<1> SUFFICES ASSUME Init PROVE TypeOK
  OBVIOUS
<1>1. rows \in Seq(Row) /\ day \in 0..MaxDay
  BY CronAssumption DEF Init
<1> QED
  BY <1>1 DEF Init, TypeOK, NoDispatch, Steps

\* The steps that change no status and insert nothing.
LEMMA PollerTyped ==
  ASSUME TypeOK, UNCHANGED <<cron, day>>, rows' \in Seq(Row), Ids \subseteq Ids',
         recorded' \in [0..MaxDay -> SUBSET Keys], computed' \in [0..MaxDay -> Nat], NEW p \in Pollers,
         pc' = pc \/ \E s \in Steps : Goto(p, s),
         mine' = mine \/ \E m \in Mines' : mine' = [mine EXCEPT ![p] = m]
  PROVE  TypeOK'
<1>1. pc' \in [Pollers -> Steps]
  BY DEF TypeOK, Goto
<1>2. mine \in [Pollers -> Mines']
  BY DEF TypeOK, Mines
<1>3. mine' \in [Pollers -> Mines']
  BY <1>2
<1> QED
  BY <1>1, <1>3 DEF TypeOK, Mines

LEMMA NoDispatchIsMine == NoDispatch \in Mines /\ NoDispatch \in Mines'
BY DEF NoDispatch, Mines

LEMMA MineIsMine ==
  ASSUME TypeOK, NEW p \in Pollers
  PROVE  /\ mine[p] \in Mines /\ pc[p] \in Steps
         /\ Ids \subseteq Ids' => mine[p] \in Mines'
BY DEF TypeOK, Mines

LEMMA PollerType ==
  ASSUME TypeOK, NEW p \in Pollers,
         \/ CapGate(p) \/ MetricGate(p) \/ BusyGate(p) \/ FailureGate(p) \/ SuccessGate(p)
         \/ ClaimRead(p) \/ ClaimInsert(p) \/ EvaluateFormula(p) \/ Provision(p) \/ CheckStatus(p)
         \/ Launch(p) \/ Finish(p) \/ Crash(p) \/ \E k \in Ids \cup {0} : StartPoll(p, k)
  PROVE  TypeOK'
<1>0. rows \in Seq(Row) /\ day \in Nat /\ recorded \in [0..MaxDay -> SUBSET Keys] /\ computed \in [0..MaxDay -> Nat]
      /\ mine \in [Pollers -> Mines]
      /\ mine[p] \in Mines /\ (Ids \subseteq Ids' => mine[p] \in Mines')
  BY MineIsMine DEF TypeOK, Mines
<1>1. CASE CapGate(p) \/ MetricGate(p) \/ BusyGate(p) \/ FailureGate(p) \/ SuccessGate(p) \/ CheckStatus(p)
  <2>1. UNCHANGED <<cron, day, rows, recorded, computed, mine>>
    BY <1>1 DEF CapGate, MetricGate, BusyGate, FailureGate, SuccessGate, CheckStatus, Gate
  <2>2. \E s \in Steps : Goto(p, s)
    BY <1>1 DEF CapGate, MetricGate, BusyGate, FailureGate, SuccessGate, CheckStatus, Gate, Skip, Steps
  <2> QED
    BY <1>0, <2>1, <2>2, PollerTyped DEF Ids
<1>2. CASE ClaimRead(p)
  <2>1. UNCHANGED <<cron, day, rows, recorded, computed>> /\ Goto(p, "insert")
    BY <1>2 DEF ClaimRead
  <2>2. PICK b \in BOOLEAN : mine' = [mine EXCEPT ![p].free = b]
    <3> DEFINE room == IF cron.bypass THEN Cardinality(OnDay(day)) < BypassCap ELSE Busy = {}
    <3>1. mine' = [mine EXCEPT ![p].free = room]
      BY <1>2 DEF ClaimRead
    <3>2. room \in BOOLEAN
      <4>1. CASE cron.bypass
        BY <4>1
      <4>2. CASE ~cron.bypass
        BY <4>2
      <4> QED
        BY <4>1, <4>2
    <3> HIDE DEF room
    <3> QED
      BY <3>1, <3>2
  <2>3. mine' = [mine EXCEPT ![p] = [mine[p] EXCEPT !.free = b]] /\ [mine[p] EXCEPT !.free = b] \in Mines'
    BY <1>0, <2>1, <2>2 DEF Mines, Ids
  <2> QED
    BY <1>0, <2>1, <2>3, PollerTyped DEF Ids, Steps
<1>3. CASE ClaimInsert(p)
  <2>1. CASE mine[p].free
    <3>1. /\ Insert("slot", "active") /\ mine' = [mine EXCEPT ![p].slot = Len(rows) + 1]
          /\ Goto(p, "provision") /\ UNCHANGED <<cron, day, recorded, computed>>
      BY <1>3, <2>1 DEF ClaimInsert
    <3>2. rows' \in Seq(Row) /\ Ids \subseteq Ids' /\ Len(rows) + 1 \in Ids'
      BY <1>0, <3>1, Inserted DEF Statuses
    <3>3. mine' = [mine EXCEPT ![p] = [mine[p] EXCEPT !.slot = Len(rows) + 1]]
          /\ [mine[p] EXCEPT !.slot = Len(rows) + 1] \in Mines'
      BY <1>0, <3>1, <3>2 DEF Mines
    <3> QED
      BY <1>0, <3>1, <3>2, <3>3, PollerTyped DEF Steps
  <2>2. CASE ~mine[p].free
    BY <1>0, <1>3, <2>2, PollerTyped DEF ClaimInsert, Skip, Steps, Ids
  <2> QED
    BY <2>1, <2>2
<1>4. CASE EvaluateFormula(p)
  <2>1. UNCHANGED <<cron, day, rows>> /\ Goto(p, "finish")
    BY <1>4 DEF EvaluateFormula
  <2>2. recorded' \in [0..MaxDay -> SUBSET Keys] /\ computed' \in [0..MaxDay -> Nat]
    BY <1>0, <1>4 DEF EvaluateFormula, TypeOK, Keys
  <2>3. mine' = mine \/ mine' = [mine EXCEPT ![p] = [mine[p] EXCEPT !.outcome = "completed"]]
    BY <1>0, <1>4 DEF EvaluateFormula
  <2>4. [mine[p] EXCEPT !.outcome = "completed"] \in Mines'
    BY <1>0, <2>1 DEF Mines, Ids
  <2> QED
    BY <1>0, <2>1, <2>2, <2>3, <2>4, PollerTyped DEF Ids, Steps
<1>5. CASE Provision(p)
  <2>1. UNCHANGED <<cron, day, recorded, computed>> /\ \E s \in Steps : Goto(p, s)
    BY <1>5 DEF Provision, Steps
  <2>2. CASE Insert("run", "pending") /\ mine' = [mine EXCEPT ![p].run = Len(rows) + 1]
    <3>1. rows' \in Seq(Row) /\ Ids \subseteq Ids' /\ Len(rows) + 1 \in Ids'
      BY <1>0, <2>2, Inserted DEF Statuses
    <3>2. mine' = [mine EXCEPT ![p] = [mine[p] EXCEPT !.run = Len(rows) + 1]]
          /\ [mine[p] EXCEPT !.run = Len(rows) + 1] \in Mines'
      BY <1>0, <2>2, <3>1 DEF Mines
    <3> QED
      BY <1>0, <2>1, <3>1, <3>2, PollerTyped
  <2>3. CASE UNCHANGED <<rows, mine>>
    BY <1>0, <2>1, <2>3, PollerTyped DEF Ids
  <2> QED
    BY <1>5, <2>2, <2>3 DEF Provision
<1>6. CASE Launch(p)
  <2>1. UNCHANGED <<cron, day, recorded, computed>> /\ Goto(p, "finish")
    BY <1>6 DEF Launch
  <2>2. rows' \in Seq(Row) /\ Ids' = Ids
    BY <1>0, <1>6, StatusSet DEF Launch, Statuses, Ids
  <2>3. mine' = mine \/ mine' = [mine EXCEPT ![p] = [mine[p] EXCEPT !.outcome = "completed"]]
    BY <1>0, <1>6 DEF Launch
  <2>4. [mine[p] EXCEPT !.outcome = "completed"] \in Mines'
    BY <1>0, <2>2 DEF Mines
  <2> QED
    BY <1>0, <2>1, <2>2, <2>3, <2>4, PollerTyped DEF Steps
<1>7. CASE Finish(p)
  <2>1. UNCHANGED <<cron, day, recorded, computed>> /\ Goto(p, "idle") /\ mine' = [mine EXCEPT ![p] = NoDispatch]
    BY <1>7 DEF Finish, Skip
  <2>2. SetStatus(mine[p].slot, mine[p].outcome) /\ mine[p].outcome \in Statuses
    BY <1>0, <1>7 DEF Finish, Mines, Statuses
  <2>3. rows' \in Seq(Row) /\ Ids' = Ids
    BY <1>0, <2>2, StatusSet
  <2> QED
    BY <1>0, <2>1, <2>3, NoDispatchIsMine, PollerTyped DEF Steps
<1>8. CASE Crash(p)
  BY <1>0, <1>8, NoDispatchIsMine, PollerTyped DEF Crash, Skip, Steps, Ids
<1>9. CASE \E k \in Ids \cup {0} : StartPoll(p, k)
  <2>1. /\ UNCHANGED <<cron, day, recorded, computed>> /\ Goto(p, "cap")
        /\ mine' = [mine EXCEPT ![p] = NoDispatch]
    BY <1>9 DEF StartPoll
  <2>2. rows' \in Seq(Row) /\ Ids' = Ids
    BY <1>0, <1>9, Reaped
  <2> QED
    BY <1>0, <2>1, <2>2, NoDispatchIsMine, PollerTyped DEF Steps
<1> QED
  BY <1>1, <1>2, <1>3, <1>4, <1>5, <1>6, <1>7, <1>8, <1>9

\* What agents, operators and the clock do.
LEMMA AgentType ==
  ASSUME TypeOK,
         \/ \E i \in Ids : RunSleeps(i) \/ SlotFails(i) \/ \E s \in {"active", "completed", "failed", "pending"} : RunMoves(i, s)
         \/ RecordMetric \/ Midnight
  PROVE  TypeOK'
<1>0. rows \in Seq(Row) /\ day \in Nat
  BY DEF TypeOK
<1>1. ASSUME NEW i \in Ids, RunSleeps(i) PROVE TypeOK'
  <2>1. rows' \in Seq(Row) /\ Ids \subseteq Ids'
    BY <1>0, <1>1, SleepRows
  <2> QED
    BY <1>1, <2>1 DEF RunSleeps, TypeOK
<1>2. ASSUME NEW i \in Ids, NEW s \in {"active", "completed", "failed", "pending"}, RunMoves(i, s) PROVE TypeOK'
  <2>1. rows' \in Seq(Row) /\ Ids' = Ids
    BY <1>0, <1>2, StatusSet DEF RunMoves, Statuses
  <2> QED
    BY <1>2, <2>1 DEF RunMoves, TypeOK
<1>3. CASE RecordMetric
  <2>1. recorded' \in [0..MaxDay -> SUBSET Keys]
    BY <1>3 DEF RecordMetric, TypeOK, Crons
  <2> QED
    BY <1>3, <2>1 DEF RecordMetric, TypeOK, Ids
<1>4. CASE Midnight
  BY <1>4, CronAssumption DEF Midnight, TypeOK, Ids
<1>5. ASSUME NEW i \in Ids, SlotFails(i) PROVE TypeOK'
  <2>1. rows' \in Seq(Row) /\ Ids' = Ids
    BY <1>0, <1>5, StatusSet DEF SlotFails, Statuses
  <2> QED
    BY <1>5, <2>1 DEF SlotFails, TypeOK
<1> QED
  BY <1>1, <1>2, <1>3, <1>4, <1>5

LEMMA TypeStep == TypeOK /\ [Next]_vars => TypeOK'
<1> SUFFICES ASSUME TypeOK, [Next]_vars PROVE TypeOK'
  OBVIOUS
<1>1. CASE Next
  BY <1>1, PollerType, AgentType DEF Next
<1>2. CASE UNCHANGED vars
  BY <1>2 DEF vars, TypeOK, Ids
<1> QED
  BY <1>1, <1>2

\* With any number of pollers the rows are slots and runs with a status of the schema, and the
\* poller that gives up, crashes or finishes has nothing in hand.
THEOREM TypeCorrect == Spec => []TypeOK
BY InitType, TypeStep, PTL DEF Spec

-----------------------------------------------------------------------------
(* What a step does that neither claims a slot nor finishes one, nor is midnight. *)

\* Slots stay as they are or fail, what gate 3 may count on stays, and new rows are runs of the day.
Quiet(p) ==
  /\ cron' = cron /\ day' = day /\ Ids \subseteq Ids'
  /\ \A i \in Ids :
       /\ rows'[i].kind = rows[i].kind /\ rows'[i].day = rows[i].day
       /\ rows[i].kind = "slot" =>
            \/ rows'[i].status = rows[i].status
            \/ rows[i].status = "active" /\ rows'[i].status = "failed"
       /\ rows[i].status = "completed" /\ i # mine[p].run =>
            rows'[i].status = "completed" /\ i # mine'[p].run
  /\ \A i \in Ids' \ Ids : rows'[i].kind = "run" /\ rows'[i].day = day

\* The poller stays where it is, skips the cron or starts again, passes a gate, reads the day for
\* its claim, or goes on with its dispatch.
Drops(p) == pc'[p] \in {"idle", "cap"} /\ mine'[p].slot = 0 /\ mine'[p].run = 0
Passes(p) ==
  /\ mine'[p] = mine[p]
  /\ \/ pc[p] = "cap" /\ pc'[p] = (IF cron.bypass THEN "claim" ELSE "metric")
     \/ pc[p] = "metric" /\ pc'[p] = "busy"
     \/ pc[p] = "busy" /\ pc'[p] = "failures" /\ Busy = {}
     \/ pc[p] = "failures" /\ pc'[p] = "success"
     \/ pc[p] = "failures" /\ pc'[p] = "claim" /\ Cardinality(Today({"failed"})) < FailureLimit
     \/ pc[p] = "success" /\ pc'[p] = "claim" /\ Today({"completed"}) # {}
Reads(p) ==
  /\ pc[p] = "claim" /\ pc'[p] = "insert"
  /\ mine'[p].slot = mine[p].slot /\ mine'[p].run = mine[p].run
Works(p) ==
  /\ pc[p] \in Dispatching /\ pc'[p] \in {"check", "launch", "finish"}
  /\ mine'[p].slot = mine[p].slot
  /\ pc'[p] \in {"check", "launch"} => mine'[p].run \in Ids' /\ rows'[mine'[p].run].kind = "run"
Advance(p) == (pc'[p] = pc[p] /\ mine'[p] = mine[p]) \/ Drops(p) \/ Passes(p) \/ Reads(p) \/ Works(p)

\* The rows are finitely many, and so are those of a day.
LEMMA Finite ==
  ASSUME rows \in Seq(Row), NEW S \in SUBSET Ids
  PROVE  IsFiniteSet(S) /\ Cardinality(S) \in Nat
<1>1. Ids = 1..Len(rows) /\ IsFiniteSet(1..Len(rows))
  BY FS_Interval DEF Ids
<1> QED
  BY <1>1, FS_Subset, FS_CardinalityType

LEMMA DayCounts ==
  ASSUME TypeOK
  PROVE  /\ \A s : Cardinality(Today(s)) \in Nat
         /\ \A d : /\ Cardinality(OnDay(d)) \in Nat
                   /\ Cardinality(SlotsOn(d)) \in Nat /\ Cardinality(SlotsOn(d)) <= Cardinality(OnDay(d))
                   /\ Cardinality(UsedOn(d)) \in Nat
         /\ ActiveOn(day) = {} => Cardinality(UsedOn(day)) <= Cardinality(Today({"failed"}))
<1>1. rows \in Seq(Row)
  BY DEF TypeOK
<1>2. \A d, s : OnDay(d) \in SUBSET Ids /\ SlotsOn(d) \in SUBSET OnDay(d) 
                /\ SlotsOn(d) \in SUBSET Ids /\ UsedOn(d) \in SUBSET Ids /\ Today(s) \in SUBSET Ids
  BY DEF OnDay, SlotsOn, UsedOn, Today
<1>3. ActiveOn(day) = {} => UsedOn(day) \in SUBSET Today({"failed"})
  BY DEF OnDay, SlotsOn, UsedOn, Today, ActiveOn, Slots
<1>4. \A s : Cardinality(Today(s)) \in Nat /\ IsFiniteSet(Today(s))
  BY <1>1, <1>2, Finite
<1>5. \A d : /\ Cardinality(OnDay(d)) \in Nat /\ IsFiniteSet(OnDay(d))
             /\ Cardinality(SlotsOn(d)) \in Nat /\ IsFiniteSet(SlotsOn(d))
             /\ Cardinality(UsedOn(d)) \in Nat
  BY <1>1, <1>2, Finite
<1>6. \A d : Cardinality(SlotsOn(d)) <= Cardinality(OnDay(d))
  BY <1>2, <1>5, FS_Subset
<1>7. ActiveOn(day) = {} => Cardinality(UsedOn(day)) <= Cardinality(Today({"failed"}))
  BY <1>3, <1>4, FS_Subset
<1> QED
  BY <1>4, <1>5, <1>6, <1>7

\* A poller that goes to a step and takes something in hand is there and has it.
LEMMA Gone ==
  ASSUME TypeOK, NEW p \in Pollers
  PROVE  /\ \A s : Goto(p, s) => pc'[p] = s
         /\ \A m : mine' = [mine EXCEPT ![p] = m] => mine'[p] = m
         /\ UNCHANGED mine => mine'[p] = mine[p]
BY DEF TypeOK, Goto

\* Rows that stay as they are.
LEMMA RowsStay ==
  ASSUME NEW p, UNCHANGED <<cron, day, rows>>, mine'[p].run \in {0, mine[p].run}, rows \in Seq(Row)
  PROVE  Quiet(p)
<1>1. 0 \notin Ids /\ Ids' = Ids
  BY DEF Ids
<1> QED
  BY <1>1 DEF Quiet

LEMMA GatesAdvance ==
  ASSUME TypeOK, NEW p \in Pollers, Hand(p),
         CapGate(p) \/ MetricGate(p) \/ BusyGate(p) \/ FailureGate(p) \/ SuccessGate(p)
  PROVE  Quiet(p) /\ Advance(p)
<1>1. UNCHANGED <<cron, rows, day, recorded, computed, mine>> /\ mine'[p] = mine[p]
  BY Gone DEF CapGate, MetricGate, BusyGate, FailureGate, SuccessGate, Gate
<1>2. Quiet(p)
  BY <1>1, RowsStay DEF TypeOK
<1>3. pc[p] \in {"cap", "metric", "busy", "failures", "success"} => mine[p].slot = 0 /\ mine[p].run = 0
  BY DEF Hand, Dispatching
<1>5. CASE CapGate(p)
  <2>1. pc[p] = "cap" /\ IF (cron.capped => Cardinality(OnDay(day)) < DailyCap) THEN pc'[p] = (IF cron.bypass THEN "claim" ELSE "metric") ELSE pc'[p] = "idle"
    BY <1>5, Gone DEF CapGate, Gate, Skip
  <2> QED
    BY <1>1, <1>2, <1>3, <2>1 DEF Advance, Passes, Drops
<1>6. CASE MetricGate(p)
  <2>1. pc[p] = "metric" /\ IF cron.key \notin recorded[day] THEN pc'[p] = "busy" ELSE pc'[p] = "idle"
    BY <1>6, Gone DEF MetricGate, Gate, Skip
  <2> QED
    BY <1>1, <1>2, <1>3, <2>1 DEF Advance, Passes, Drops
<1>7. CASE BusyGate(p)
  <2>1. pc[p] = "busy" /\ IF Busy = {} THEN pc'[p] = "failures" ELSE pc'[p] = "idle"
    BY <1>7, Gone DEF BusyGate, Gate, Skip
  <2> QED
    BY <1>1, <1>2, <1>3, <2>1 DEF Advance, Passes, Drops
<1>8. CASE FailureGate(p)
  <2>1. Cardinality(Today({"failed"})) \in Nat /\ FailureLimit \in Nat
    BY DayCounts, CronAssumption
  <2>2. pc[p] = "failures" /\ pc'[p] = IF Cardinality(Today({"failed"})) >= FailureLimit THEN "success" ELSE "claim"
    BY <1>8, Gone DEF FailureGate
  <2>3. pc'[p] = "success" \/ (pc'[p] = "claim" /\ Cardinality(Today({"failed"})) < FailureLimit)
    BY <2>1, <2>2
  <2> QED
    BY <1>1, <1>2, <2>2, <2>3 DEF Advance, Passes
<1>9. CASE SuccessGate(p)
  <2>1. pc[p] = "success" /\ IF Today({"completed"}) # {} THEN pc'[p] = "claim" ELSE pc'[p] = "idle"
    BY <1>9, Gone DEF SuccessGate, Gate, Skip
  <2> QED
    BY <1>1, <1>2, <1>3, <2>1 DEF Advance, Passes, Drops
<1> QED
  BY <1>2, <1>5, <1>6, <1>7, <1>8, <1>9

\* Runs that change and runs that are new leave the slots.
LEMMA RunsChange ==
  ASSUME TypeOK, NEW p, UNCHANGED <<cron, day>>, Ids \subseteq Ids',
         mine'[p].run \in {0, mine[p].run} \cup (Ids' \ Ids),
         \A i \in Ids : /\ rows'[i].kind = rows[i].kind /\ rows'[i].day = rows[i].day
                        /\ rows'[i].status # rows[i].status =>
                             rows[i].kind = "run" /\ (rows[i].status = "completed" => i = mine[p].run),
         \A i \in Ids' \ Ids : rows'[i].kind = "run" /\ rows'[i].day = day
  PROVE  Quiet(p)
<1>1. 0 \notin Ids
  BY DEF Ids, TypeOK
<1> QED
  BY <1>1 DEF Quiet

LEMMA PollsQuietly ==
  ASSUME TypeOK, RowsOK, NEW p \in Pollers, Hand(p),
         \/ ClaimRead(p) \/ (ClaimInsert(p) /\ ~mine[p].free) \/ EvaluateFormula(p) \/ Provision(p)
         \/ CheckStatus(p) \/ Launch(p) \/ Crash(p) \/ \E k \in Ids \cup {0} : StartPoll(p, k)
  PROVE  Quiet(p) /\ Advance(p)
<1>0. rows \in Seq(Row) /\ day \in Nat /\ mine[p] \in Mines /\ 0 \notin Ids
  BY MineIsMine, CronAssumption DEF TypeOK, Ids
<1>1. CASE ClaimRead(p)
  <2>1. UNCHANGED <<cron, rows, day>> /\ pc[p] = "claim" /\ pc'[p] = "insert"
    BY <1>1, Gone DEF ClaimRead
  <2>2. mine'[p].slot = mine[p].slot /\ mine'[p].run = mine[p].run
    BY <1>0, <1>1 DEF ClaimRead, TypeOK, Mines
  <2>3. Quiet(p)
    BY <1>0, <2>1, <2>2, RowsStay
  <2> QED
    BY <2>1, <2>2, <2>3 DEF Advance, Reads
<1>2. CASE ClaimInsert(p) /\ ~mine[p].free
  <2>1. UNCHANGED <<cron, rows, day>> /\ pc[p] = "insert" /\ pc'[p] = "idle" /\ mine'[p] = mine[p]
    BY <1>2, Gone DEF ClaimInsert, Skip
  <2>2. mine[p].slot = 0 /\ mine[p].run = 0
    BY <2>1 DEF Hand, Dispatching
  <2>3. Quiet(p)
    BY <1>0, <2>1, RowsStay
  <2> QED
    BY <2>1, <2>2, <2>3 DEF Advance, Drops
<1>3. CASE EvaluateFormula(p)
  <2>1. UNCHANGED <<cron, rows, day>> /\ pc[p] = "provision" /\ pc'[p] = "finish"
    BY <1>3, Gone DEF EvaluateFormula
  <2>2. mine'[p].slot = mine[p].slot /\ mine'[p].run = mine[p].run
    BY <1>0, <1>3 DEF EvaluateFormula, TypeOK, Mines
  <2>3. Quiet(p)
    BY <1>0, <2>1, <2>2, RowsStay
  <2> QED
    BY <2>1, <2>2, <2>3 DEF Advance, Works, Dispatching
<1>4. CASE Provision(p)
  <2>1. UNCHANGED <<cron, day>> /\ pc[p] = "provision" /\ pc'[p] \in {"check", "finish"}
    BY <1>4, Gone DEF Provision
  <2>2. CASE Insert("run", "pending") /\ mine' = [mine EXCEPT ![p].run = Len(rows) + 1]
    <3> DEFINE n == Len(rows) + 1
    <3>1. /\ Ids' = Ids \cup {n} /\ n \notin Ids
          /\ \A j \in Ids : rows'[j] = rows[j]
          /\ rows'[n] = [kind |-> "run", status |-> "pending", day |-> day]
      BY <1>0, <2>2, Inserted DEF Statuses
    <3>2. mine'[p].slot = mine[p].slot /\ mine'[p].run = n
      BY <1>0, <2>2 DEF TypeOK, Mines
    <3> HIDE DEF n
    <3>3. rows'[n].kind = "run" /\ rows'[n].day = day
      BY <3>1
    <3>4. Quiet(p)
      BY <2>1, <3>1, <3>2, <3>3, RunsChange
    <3> QED
      BY <2>1, <3>1, <3>2, <3>3, <3>4 DEF Advance, Works, Dispatching
  <2>3. CASE UNCHANGED <<rows, mine>> /\ Goto(p, "finish")
    BY <1>0, <2>1, <2>3, Gone, RowsStay DEF Advance, Works, Dispatching
  <2> QED
    BY <1>4, <2>2, <2>3 DEF Provision
<1>5. CASE CheckStatus(p)
  <2>1. UNCHANGED <<cron, rows, day>> /\ pc[p] = "check" /\ pc'[p] \in {"launch", "finish"} /\ mine'[p] = mine[p]
    BY <1>5, Gone DEF CheckStatus
  <2>2. Quiet(p) /\ mine[p].run \in Ids' /\ rows'[mine[p].run].kind = "run"
    BY <1>0, <2>1, RowsStay DEF Hand, Ids
  <2> QED
    BY <2>1, <2>2 DEF Advance, Works, Dispatching
<1>6. CASE Launch(p)
  <2>1. UNCHANGED <<cron, day>> /\ pc[p] = "launch" /\ pc'[p] = "finish"
    BY <1>6, Gone DEF Launch
  <2>2. mine'[p].slot = mine[p].slot /\ mine'[p].run = mine[p].run
    BY <1>0, <1>6 DEF Launch, TypeOK, Mines
  <2>3. mine[p].run \in Ids /\ rows[mine[p].run].kind = "run"
    BY <2>1 DEF Hand
  <2>4. CASE SetStatus(mine[p].run, "failed")
    <3>1. /\ Ids' = Ids
          /\ \A j \in Ids : /\ rows'[j].kind = rows[j].kind /\ rows'[j].day = rows[j].day
                            /\ rows'[j].status = IF j = mine[p].run THEN "failed" ELSE rows[j].status
      BY <1>0, <2>4, StatusSet DEF Statuses
    <3> QED
      BY <2>1, <2>2, <2>3, <3>1, RunsChange DEF Advance, Works, Dispatching
  <2>5. CASE UNCHANGED rows
    BY <1>0, <2>1, <2>2, <2>5, RowsStay DEF Advance, Works, Dispatching
  <2> QED
    BY <1>6, <2>4, <2>5 DEF Launch
<1>7. CASE Crash(p)
  <2>1. UNCHANGED <<cron, rows, day>> /\ pc'[p] = "idle" /\ mine'[p] = NoDispatch
    BY <1>7, Gone DEF Crash, Skip
  <2> QED
    BY <1>0, <2>1, RowsStay DEF NoDispatch, Advance, Drops
<1>8. CASE \E k \in Ids \cup {0} : StartPoll(p, k)
  <2>1. UNCHANGED <<cron, day>> /\ pc'[p] = "cap" /\ mine'[p] = NoDispatch
    BY <1>8, Gone DEF StartPoll
  <2>2. /\ Ids' = Ids
        /\ \A i \in Ids : /\ rows'[i].kind = rows[i].kind /\ rows'[i].day = rows[i].day
                          /\ rows'[i].status # rows[i].status => rows[i].status = "pending"
    BY <1>0, <1>8, Reaped
  <2>3. \A i \in Ids : rows[i].kind \in {"slot", "run"}
    <3>1. \A i \in Ids : rows[i] \in Row
      BY <1>0 DEF Ids
    <3> QED
      BY <3>1 DEF Row
  <2>4. Quiet(p)
    BY <2>1, <2>2, <2>3, RunsChange DEF RowsOK, NoDispatch
  <2> QED
    BY <2>1, <2>4 DEF NoDispatch, Advance, Drops
<1> QED
  BY <1>1, <1>2, <1>3, <1>4, <1>5, <1>6, <1>7, <1>8

LEMMA AgentsQuietly ==
  ASSUME TypeOK, NEW p \in Pollers,
         \/ \E i \in Ids : RunSleeps(i) \/ SlotFails(i) \/ \E s \in {"active", "completed", "failed", "pending"} : RunMoves(i, s)
         \/ RecordMetric
  PROVE  Quiet(p) /\ Advance(p)
<1>0. rows \in Seq(Row) /\ day \in Nat
  BY DEF TypeOK
<1>1. ASSUME NEW i \in Ids, RunSleeps(i) PROVE Quiet(p) /\ Advance(p)
  <2>1. UNCHANGED <<cron, day, pc, mine>> /\ rows[i].kind = "run"
    BY <1>1 DEF RunSleeps
  <2>2. /\ Ids' = Ids \cup {Len(rows) + 1} /\ Len(rows) + 1 \notin Ids
        /\ \A j \in Ids : /\ rows'[j].kind = rows[j].kind /\ rows'[j].day = rows[j].day
                          /\ rows'[j].status = IF j = i THEN "completed" ELSE rows[j].status
        /\ rows'[Len(rows) + 1] = [kind |-> "run", status |-> "waiting", day |-> day]
    BY <1>0, <1>1, SleepRows
  <2> QED
    BY <2>1, <2>2, RunsChange DEF Advance
<1>2. ASSUME NEW i \in Ids, NEW s \in {"active", "completed", "failed", "pending"}, RunMoves(i, s)
      PROVE  Quiet(p) /\ Advance(p)
  <2>1. UNCHANGED <<cron, day, pc, mine>> /\ rows[i].kind = "run" /\ rows[i].status # "completed"
    BY <1>2 DEF RunMoves, Moves
  <2>2. /\ Ids' = Ids
        /\ \A j \in Ids : /\ rows'[j].kind = rows[j].kind /\ rows'[j].day = rows[j].day
                          /\ rows'[j].status = IF j = i THEN s ELSE rows[j].status
    BY <1>0, <1>2, StatusSet DEF RunMoves, Statuses
  <2> QED
    BY <2>1, <2>2, RunsChange DEF Advance
<1>3. CASE RecordMetric
  BY <1>0, <1>3, RowsStay DEF RecordMetric, Advance
<1>4. ASSUME NEW i \in Ids, SlotFails(i) PROVE Quiet(p) /\ Advance(p)
  <2>1. UNCHANGED <<cron, day, pc, mine>> /\ rows[i].kind = "slot" /\ rows[i].status = "active"
    BY <1>4 DEF SlotFails
  <2>2. /\ Ids' = Ids
        /\ \A j \in Ids : /\ rows'[j].kind = rows[j].kind /\ rows'[j].day = rows[j].day
                          /\ rows'[j].status = IF j = i THEN "failed" ELSE rows[j].status
    BY <1>0, <1>4, StatusSet DEF SlotFails, Statuses
  <2> QED
    BY <2>1, <2>2 DEF Advance, Quiet
<1> QED
  BY <1>1, <1>2, <1>3, <1>4

-----------------------------------------------------------------------------
(* The invariant of one poller. *)

PInv(p) == RowsOK /\ Hand(p) /\ Halting(p)

\* A quiet step leaves the slots of every day and what they use up, makes none active, and leaves what
\* gate 3 may count on.
LEMMA QuietSets ==
  ASSUME NEW p, Quiet(p)
  PROVE  /\ \A d : UsedOn(d)' = UsedOn(d) /\ ActiveOn(d)' \in SUBSET ActiveOn(d)
         /\ \A d : Succeeded(p, d) => Succeeded(p, d)'
<1>1. \A i \in Ids' : rows'[i].kind = "slot" => i \in Ids
  BY DEF Quiet
<1>2. \A d : UsedOn(d)' = UsedOn(d)
  BY <1>1 DEF Quiet, SlotsOn, UsedOn
<1>3. \A d : ActiveOn(d)' \in SUBSET ActiveOn(d)
  BY <1>1 DEF Quiet, ActiveOn, Slots, OnDay
<1>4. \A d : Succeeded(p, d) => Succeeded(p, d)'
  BY DEF Quiet, Succeeded
<1> QED
  BY <1>2, <1>3, <1>4

LEMMA QuietRows ==
  ASSUME TypeOK, NEW p \in Pollers, RowsOK, Hand(p), Quiet(p), Advance(p)
  PROVE  RowsOK' /\ Hand(p)'
<1>1. RowsOK'
  BY DEF Quiet, RowsOK, TypeOK
<1>2. CASE pc'[p] = pc[p] /\ mine'[p] = mine[p]
  BY <1>1, <1>2 DEF Hand, Quiet
<1>3. CASE Drops(p)
  BY <1>1, <1>3 DEF Drops, Hand, Dispatching
<1>4. CASE Passes(p)
  BY <1>1, <1>4 DEF Passes, Hand, Dispatching
<1>5. CASE Reads(p)
  BY <1>1, <1>5 DEF Reads, Hand, Dispatching
<1>6. CASE Works(p)
  BY <1>1, <1>6 DEF Works, Hand, Dispatching, Quiet
<1> QED
  BY <1>1, <1>2, <1>3, <1>4, <1>5, <1>6 DEF Advance

\* A poller at a gate has no run.
LEMMA NotInHand ==
  ASSUME TypeOK, NEW p, Hand(p), pc[p] \notin Dispatching
  PROVE  \A i \in Ids : i # mine[p].run
BY DEF Hand, Ids, TypeOK

LEMMA QuietHalting ==
  ASSUME TypeOK, NEW p \in Pollers, RowsOK, Hand(p), Halting(p), Quiet(p), Advance(p)
  PROVE  Halting(p)'
<1>1. /\ day' = day /\ cron' = cron /\ \A d : UsedOn(d)' = UsedOn(d) /\ ActiveOn(d)' \in SUBSET ActiveOn(d)
      /\ \A d : Succeeded(p, d) => Succeeded(p, d)'
  BY QuietSets DEF Quiet
<1> SUFFICES ASSUME ~cron.bypass, NEW d \in 0..MaxDay, ~Succeeded(p, d)'
             PROVE  /\ Cardinality(UsedOn(d)) <= FailureLimit
                    /\ d = day /\ pc'[p] \in {"failures", "success"} => ActiveOn(d)' = {}
                    /\ d = day /\ pc'[p] \in {"claim", "insert"} => Cardinality(UsedOn(d)) < FailureLimit
  BY <1>1 DEF Halting
<1>2. ~Succeeded(p, d)
  BY <1>1
<1>3. /\ Cardinality(UsedOn(d)) <= FailureLimit
      /\ d = day /\ pc[p] \in {"failures", "success"} => ActiveOn(d) = {}
      /\ d = day /\ pc[p] \in {"claim", "insert"} => Cardinality(UsedOn(d)) < FailureLimit
  BY <1>2 DEF Halting
<1>4. CASE d # day \/ pc'[p] \notin {"failures", "success", "claim", "insert"}
  BY <1>3, <1>4
<1>5. CASE d = day /\ pc'[p] = pc[p]
  BY <1>1, <1>3, <1>5
<1>6. CASE d = day /\ Passes(p)
  <2>1. pc[p] = "busy" /\ Busy = {} => ActiveOn(d) = {}
    BY <1>6 DEF Busy, Today, ActiveOn, Slots
  <2>2. ~ (pc[p] = "success" /\ Today({"completed"}) # {})
    BY <1>2, <1>6, NotInHand DEF Succeeded, Today, OnDay, Dispatching
  <2>3. /\ Cardinality(UsedOn(d)) \in Nat /\ Cardinality(Today({"failed"})) \in Nat /\ FailureLimit \in Nat
        /\ ActiveOn(d) = {} => Cardinality(UsedOn(d)) <= Cardinality(Today({"failed"}))
    BY <1>6, DayCounts, CronAssumption
  <2>4. CASE pc'[p] = "failures"
    BY <1>1, <1>3, <1>6, <2>1, <2>4 DEF Passes
  <2>5. CASE pc[p] = "failures"
    BY <1>1, <1>3, <1>6, <2>3, <2>5 DEF Passes
  <2>6. CASE pc[p] \in {"cap", "metric", "success"} /\ pc'[p] # "failures"
    BY <1>3, <1>6, <2>2, <2>6 DEF Passes
  <2> QED
    BY <1>6, <2>4, <2>5, <2>6 DEF Passes
<1>7. CASE d = day /\ Reads(p)
  BY <1>3, <1>7 DEF Reads
<1>8. Advance(p) => (pc'[p] = pc[p] \/ Passes(p) \/ Reads(p)) \/ pc'[p] \notin {"failures", "success", "claim", "insert"}
  BY DEF Advance, Drops, Works
<1> QED
  BY <1>4, <1>5, <1>6, <1>7, <1>8

LEMMA QuietStep ==
  ASSUME TypeOK, NEW p \in Pollers, PInv(p), Quiet(p), Advance(p)
  PROVE  PInv(p)'
BY QuietRows, QuietHalting DEF PInv

\* The claim inserts a slot below the limit.
LEMMA ClaimStep ==
  ASSUME TypeOK, NEW p \in Pollers, PInv(p), ClaimInsert(p), mine[p].free
  PROVE  PInv(p)'
<1> DEFINE n == Len(rows) + 1
<1>0. rows \in Seq(Row) /\ day \in Nat /\ day \in 0..MaxDay
  BY CronAssumption DEF TypeOK
<1>1. UNCHANGED <<cron, day, recorded, computed>> /\ pc[p] = "insert" /\ pc'[p] = "provision"
  BY Gone DEF ClaimInsert
<1>2. /\ Ids' = Ids \cup {n} /\ n \notin Ids /\ n # 0
      /\ \A j \in Ids : rows'[j] = rows[j]
      /\ rows'[n] = [kind |-> "slot", status |-> "active", day |-> day]
  BY <1>0, Inserted DEF ClaimInsert, Statuses
<1>3. mine'[p].slot = n /\ mine'[p].run = 0
  <2>1. mine[p].run = 0
    BY <1>1 DEF PInv, Hand, Dispatching
  <2>2. mine' = [mine EXCEPT ![p].slot = n] /\ mine[p] \in Mines
    BY MineIsMine DEF ClaimInsert
  <2> QED
    BY <2>1, <2>2 DEF TypeOK, Mines
<1> HIDE DEF n
<1>4. /\ rows'[n].kind = "slot" /\ rows'[n].status = "active" /\ rows'[n].day = day
  BY <1>2
<1>5. RowsOK' /\ Hand(p)'
  BY <1>0, <1>1, <1>2, <1>3, <1>4 DEF PInv, RowsOK, Hand, Dispatching
<1>6. Halting(p)'
  <2>1. \A d : d # day => UsedOn(d)' = UsedOn(d)
    BY <1>2, <1>4 DEF UsedOn, SlotsOn
  <2>2. \A d : Succeeded(p, d) => Succeeded(p, d)'
    <3>1. \A i \in Ids : i # 0
      BY <1>0 DEF Ids
    <3> QED
      BY <1>2, <1>3, <3>1 DEF Succeeded
  <2> PICK today \in 0..MaxDay : today = day
    BY <1>0
  <2>3. Cardinality(UsedOn(today)') = Cardinality(UsedOn(day)) + 1 /\ Cardinality(UsedOn(day)) \in Nat /\ FailureLimit \in Nat
    <3>1. UsedOn(today)' = UsedOn(today) \cup {n} /\ n \notin UsedOn(today)
      BY <1>2, <1>4 DEF UsedOn, SlotsOn
    <3>2. IsFiniteSet(UsedOn(today)) /\ Cardinality(UsedOn(today)) \in Nat
      <4>1. UsedOn(today) \in SUBSET Ids
        BY DEF UsedOn, SlotsOn
      <4> QED
        BY <1>0, <4>1, Finite
    <3>3. Cardinality(UsedOn(today) \cup {n}) = Cardinality(UsedOn(today)) + 1
      BY <3>1, <3>2, FS_AddElement
    <3> QED
      BY <3>1, <3>2, <3>3, CronAssumption
  <2> SUFFICES ASSUME ~cron.bypass, NEW d \in 0..MaxDay, ~Succeeded(p, d)'
               PROVE  Cardinality(UsedOn(d)') <= FailureLimit
    BY <1>1 DEF Halting
  <2>4. ~Succeeded(p, d)
    BY <2>2
  <2>5. /\ Cardinality(UsedOn(d)) <= FailureLimit
        /\ d = day => Cardinality(UsedOn(d)) < FailureLimit
    BY <1>1, <2>4 DEF PInv, Halting
  <2>6. CASE d = today
    BY <2>3, <2>5, <2>6
  <2>7. CASE d # today
    BY <2>1, <2>5, <2>7
  <2> QED
    BY <2>6, <2>7
<1> QED
  BY <1>5, <1>6 DEF PInv

\* The poller closes its slot, which its day had counted from the claim on.
LEMMA FinishStep ==
  ASSUME TypeOK, NEW p \in Pollers, PInv(p), Finish(p)
  PROVE  PInv(p)'
<1> DEFINE n == mine[p].slot
<1>0. rows \in Seq(Row) /\ 0 \notin Ids
  BY DEF TypeOK, Ids
<1>1. /\ UNCHANGED <<cron, day, recorded, computed>> /\ pc[p] = "finish" /\ pc'[p] = "idle"
      /\ mine'[p].slot = 0 /\ mine'[p].run = 0
  <2>1. mine'[p] = NoDispatch
    BY Gone DEF Finish
  <2> QED
    BY <2>1, Gone DEF Finish, Skip, NoDispatch
<1>2. n \in Ids /\ rows[n].kind = "slot" /\ rows[n].status \in {"active", "failed"}
  BY <1>1 DEF PInv, Hand, RowsOK, Dispatching
<1>3. PICK s \in {"completed", "failed"} : SetStatus(n, s)
  BY MineIsMine DEF Finish, Mines
<1>4. /\ Ids' = Ids
      /\ \A j \in Ids : /\ rows'[j].kind = rows[j].kind /\ rows'[j].day = rows[j].day
                        /\ rows'[j].status = IF j = n THEN s ELSE rows[j].status
  BY <1>0, <1>3, StatusSet DEF Statuses
<1> HIDE DEF n
<1>5. RowsOK' /\ Hand(p)'
  BY <1>1, <1>4 DEF PInv, RowsOK, Hand, Dispatching
<1>6. Halting(p)'
  <2> SUFFICES ASSUME ~cron.bypass, NEW d \in 0..MaxDay, ~Succeeded(p, d)'
               PROVE  Cardinality(UsedOn(d)') <= FailureLimit
    BY <1>1 DEF Halting
  <2>1. ~Succeeded(p, d)
    BY <1>0, <1>1, <1>2, <1>4 DEF Succeeded
  <2>2. Cardinality(UsedOn(d)) <= FailureLimit
    BY <1>1, <2>1 DEF PInv, Halting
  <2>3. UsedOn(d)' \in SUBSET UsedOn(d)
    BY <1>2, <1>4 DEF UsedOn, SlotsOn
  <2>4. UsedOn(d) \in SUBSET Ids
    BY DEF UsedOn, SlotsOn
  <2>5. Cardinality(UsedOn(d)') <= Cardinality(UsedOn(d)) /\ Cardinality(UsedOn(d)') \in Nat /\ Cardinality(UsedOn(d)) \in Nat
    BY <1>0, <2>3, <2>4, Finite, FS_Subset
  <2> QED
    BY <2>2, <2>5, CronAssumption
<1> QED
  BY <1>5, <1>6 DEF PInv

\* The day that begins has no row yet.
LEMMA MidnightStep ==
  ASSUME TypeOK, NEW p \in Pollers, PInv(p), Midnight
  PROVE  PInv(p)'
<1>0. /\ day \in 0..MaxDay /\ day + 1 \in 0..MaxDay /\ day \in Nat /\ \A i \in Ids : rows[i].day \in Nat
      /\ FailureLimit \in Nat \ {0} /\ DailyCap \in Nat /\ BypassCap \in Nat
  <2>1. \A i \in Ids : rows[i] \in Row
    BY DEF TypeOK, Ids
  <2>2. \A i \in Ids : rows[i].day \in Nat
    BY <2>1 DEF Row
  <2> QED
    BY <2>2, CronAssumption DEF TypeOK, Midnight
<1>1. UNCHANGED <<cron, rows, recorded, computed, pc, mine>> /\ day' = day + 1 /\ Ids' = Ids
  BY DEF Midnight, Ids
<1>2. \A i \in Ids : rows[i].day <= day
  BY DEF PInv, RowsOK
<1>3. \A i \in Ids : rows[i].day # day + 1
  BY <1>0, <1>2
<1>4. \A d : UsedOn(d)' = UsedOn(d) /\ ActiveOn(d)' = ActiveOn(d)
  BY <1>1 DEF SlotsOn, UsedOn, ActiveOn, Slots, OnDay
<1>5. ActiveOn(day + 1) = {} /\ Cardinality(UsedOn(day + 1)) = 0
  <2>1. ActiveOn(day + 1) = {} /\ UsedOn(day + 1) = {}
    BY <1>3 DEF SlotsOn, UsedOn, ActiveOn, Slots, OnDay
  <2> QED
    BY <2>1, FS_EmptySet
<1>6. RowsOK' /\ Hand(p)'
  BY <1>0, <1>1, <1>2 DEF PInv, RowsOK, Hand
<1>7. Halting(p)'
  <2>1. \A d : Succeeded(p, d)' <=> Succeeded(p, d)
    BY <1>1 DEF Succeeded
  <2> SUFFICES ASSUME ~cron.bypass, NEW d \in 0..MaxDay, ~Succeeded(p, d)
               PROVE  /\ Cardinality(UsedOn(d)) <= FailureLimit
                      /\ d = day + 1 => ActiveOn(d) = {} /\ Cardinality(UsedOn(d)) < FailureLimit
    BY <1>1, <1>4, <2>1 DEF Halting
  <2> QED
    BY <1>0, <1>5 DEF PInv, Halting
<1> QED
  BY <1>6, <1>7 DEF PInv

LEMMA PInvInit == ASSUME NEW p \in Pollers, Init PROVE PInv(p)
<1>1. Ids = {} /\ day = 0 /\ pc[p] = "idle" /\ mine[p] = NoDispatch
  BY DEF Init, Ids
<1>2. mine[p].slot = 0 /\ mine[p].run = 0
  BY <1>1 DEF NoDispatch
<1>3. \A d : Cardinality(UsedOn(d)) = 0
  <2>1. \A d : UsedOn(d) = {}
    BY <1>1 DEF SlotsOn, UsedOn
  <2> QED
    BY <2>1, FS_EmptySet
<1>4. RowsOK /\ Hand(p)
  BY <1>1, <1>2 DEF RowsOK, Hand, Dispatching
<1>5. Halting(p)
  BY <1>1, <1>3, CronAssumption DEF Halting
<1> QED
  BY <1>4, <1>5 DEF PInv

LEMMA PInvStep ==
  ASSUME NEW p, Pollers = {p}, TypeOK, PInv(p), [Next]_vars
  PROVE  PInv(p)'
<1>0. p \in Pollers /\ RowsOK /\ Hand(p)
  BY DEF PInv
<1>1. CASE \/ CapGate(p) \/ MetricGate(p) \/ BusyGate(p) \/ FailureGate(p) \/ SuccessGate(p)
           \/ ClaimRead(p) \/ (ClaimInsert(p) /\ ~mine[p].free) \/ EvaluateFormula(p) \/ Provision(p)
           \/ CheckStatus(p) \/ Launch(p) \/ Crash(p) \/ \E k \in Ids \cup {0} : StartPoll(p, k)
  BY <1>0, <1>1, GatesAdvance, PollsQuietly, QuietStep
<1>2. CASE \/ \E i \in Ids : RunSleeps(i) \/ SlotFails(i) \/ \E s \in {"active", "completed", "failed", "pending"} : RunMoves(i, s)
           \/ RecordMetric
  BY <1>0, <1>2, AgentsQuietly, QuietStep
<1>3. CASE ClaimInsert(p) /\ mine[p].free
  BY <1>0, <1>3, ClaimStep
<1>4. CASE Finish(p)
  BY <1>0, <1>4, FinishStep
<1>5. CASE Midnight
  BY <1>0, <1>5, MidnightStep
<1>6. CASE UNCHANGED vars
  <2>1. Quiet(p) /\ Advance(p)
    BY <1>0, <1>6, RowsStay DEF vars, Advance, TypeOK
  <2> QED
    BY <1>0, <2>1, QuietStep
<1> QED
  BY <1>1, <1>2, <1>3, <1>4, <1>5, <1>6 DEF Next

\* One poller keeps the invariant.
THEOREM PollerInvariant ==
  ASSUME NEW CONSTANT p, Pollers = {p}
  PROVE  Spec => [](TypeOK /\ PInv(p))
<1>1. Init => TypeOK /\ PInv(p)
  BY InitType, PInvInit
<1>2. (TypeOK /\ PInv(p)) /\ [Next]_vars => (TypeOK /\ PInv(p))'
  BY TypeStep, PInvStep
<1> QED
  BY <1>1, <1>2, PTL DEF Spec

\* One poller stops dispatching a skill on a day whose dispatches failed FailureLimit times and of
\* which nothing was completed: the slot it claimed below the limit is the last one that may fail.
THEOREM FailuresHalt ==
  ASSUME NEW CONSTANT p, Pollers = {p}
  PROVE  Spec => []HaltsAfterFailures
<1>1. TypeOK /\ PInv(p) => HaltsAfterFailures
  <2> SUFFICES ASSUME TypeOK, Halting(p), ~cron.bypass, NEW d \in 0..MaxDay,
                      \A i \in OnDay(d) : rows[i].status # "completed"
               PROVE  Cardinality(Slots(d, {"failed"})) <= FailureLimit
    BY DEF PInv, HaltsAfterFailures
  <2>1. ~Succeeded(p, d)
    BY DEF Succeeded, OnDay
  <2>2. Slots(d, {"failed"}) \in SUBSET UsedOn(d) /\ UsedOn(d) \in SUBSET Ids
    BY DEF Slots, OnDay, UsedOn, SlotsOn
  <2>3. /\ Cardinality(Slots(d, {"failed"})) <= Cardinality(UsedOn(d))
        /\ Cardinality(Slots(d, {"failed"})) \in Nat /\ Cardinality(UsedOn(d)) \in Nat
    BY <2>2, Finite, FS_Subset DEF TypeOK
  <2> QED
    BY <2>1, <2>3, CronAssumption DEF Halting
<1> QED
  BY <1>1, PollerInvariant, PTL

-----------------------------------------------------------------------------
(* What the gates keep free, for any number of pollers. *)

RecordingSteps == (Deciding \ {"metric"}) \cup {"provision"}

\* Pollers that the cap has let pass, that saw room for their claim, and that may record.
Passed == {p \in Pollers : pc[p] \in Deciding}
Claiming == {p \in Pollers : pc[p] = "insert" /\ mine[p].free}
Recording == {p \in Pollers : pc[p] \in RecordingSteps}

\* Of what a gate keeps below a limit there are n, and each poller of S may add one: every
\* one of them was let pass when there were fewer than the limit.
Room(n, S, limit) == n + Cardinality(S) <= limit + Overlap /\ (S # {} => limit > 0)

\* What the gates leave of each limit, and what was so on the days before.
CountInv ==
  /\ \A i \in Ids : rows[i].day <= day
  /\ cron.capped => Room(Cardinality(SlotsOn(day)), Passed, DailyCap)
  /\ cron.bypass => Room(Cardinality(SlotsOn(day)), Claiming, BypassCap)
  /\ ~cron.bypass => Room(Cardinality(ActiveOn(day)), Claiming, 1)
  /\ \A d \in 0..MaxDay :
       /\ cron.capped => Cardinality(SlotsOn(d)) <= DailyCap + Overlap
       /\ cron.bypass => Cardinality(SlotsOn(d)) <= BypassCap + Overlap
       /\ ~cron.bypass => Cardinality(ActiveOn(d)) <= 1 + Overlap

\* The same for the metric, which a formula records once for each poller that found none.
RecordInv ==
  /\ \A d \in 0..MaxDay :
       /\ computed[d] > 0 => "formula" \in recorded[d]
       /\ d > day => computed[d] = 0
  /\ cron.key = "formula" /\ ~cron.bypass =>
       /\ Room(computed[day], Recording, 1)
       /\ \A d \in 0..MaxDay : computed[d] <= 1 + Overlap

LEMMA PollersFinite ==
  /\ IsFiniteSet(Pollers) /\ Cardinality(Pollers) \in Nat \ {0} /\ Overlap \in Nat
  /\ \A S \in SUBSET Pollers : /\ Cardinality(S) \in Nat
                               /\ Cardinality(S) <= 1 + Overlap
<1>1. IsFiniteSet(Pollers) /\ Pollers # {}
  BY CronAssumption
<1>2. Cardinality(Pollers) \in Nat \ {0}
  BY <1>1, FS_CardinalityType, FS_EmptySet
<1>3. \A S \in SUBSET Pollers : Cardinality(S) \in Nat /\ Cardinality(S) <= Cardinality(Pollers)
  BY <1>1, FS_Subset, FS_CardinalityType
<1> QED
  BY <1>1, <1>2, <1>3 DEF Overlap

\* Leaving a count as it is or lowering it, and letting pollers go.
LEMMA RoomStays ==
  ASSUME NEW n \in Nat, NEW m \in Nat, m <= n, NEW limit \in Nat,
         NEW S \in SUBSET Pollers, NEW T \in SUBSET S, Room(n, S, limit)
  PROVE  Room(m, T, limit)
<1>1. Cardinality(T) <= Cardinality(S) /\ Cardinality(T) \in Nat /\ Cardinality(S) \in Nat
  <2>1. IsFiniteSet(S)
    BY PollersFinite, FS_Subset
  <2> QED
    BY <2>1, FS_Subset, FS_CardinalityType
<1> QED
  BY <1>1, PollersFinite DEF Room

\* Letting any pollers pass while the count is below the limit.
LEMMA RoomOpens ==
  ASSUME NEW m \in Nat, NEW limit \in Nat, m < limit, NEW T \in SUBSET Pollers
  PROVE  Room(m, T, limit)
BY PollersFinite DEF Room

\* A poller that was let pass adds its one.
LEMMA RoomUsed ==
  ASSUME NEW n \in Nat, NEW limit \in Nat, NEW S \in SUBSET Pollers, NEW p \in S, NEW T \in SUBSET (S \ {p}),
         Room(n, S, limit)
  PROVE  Room(n + 1, T, limit)
<1>1. IsFiniteSet(S) /\ Cardinality(S) \in Nat
  BY PollersFinite, FS_Subset
<1>2. Cardinality(S \ {p}) = Cardinality(S) - 1 /\ IsFiniteSet(S \ {p})
  BY <1>1, FS_RemoveElement
<1>3. Cardinality(T) <= Cardinality(S) - 1 /\ Cardinality(T) \in Nat
  BY <1>2, FS_Subset, FS_CardinalityType
<1> QED
  BY <1>1, <1>3, PollersFinite DEF Room

\* The count begins again with the day, but whoever has passed has passed.
LEMMA RoomAtMidnight ==
  ASSUME NEW n \in Nat, NEW limit \in Nat, NEW S \in SUBSET Pollers, Room(n, S, limit)
  PROVE  Room(0, S, limit)
<1>1. CASE S = {}
  <2>1. Cardinality(S) = 0
    BY <1>1, FS_EmptySet
  <2> QED
    BY <1>1, <2>1, PollersFinite DEF Room
<1>2. CASE S # {}
  BY <1>2, PollersFinite DEF Room
<1> QED
  BY <1>1, <1>2

\* No slot is added or made active again; what is new is a run of the day.
SlotsKept ==
  /\ cron' = cron /\ day' = day /\ Ids \subseteq Ids'
  /\ \A i \in Ids : /\ rows'[i].kind = rows[i].kind /\ rows'[i].day = rows[i].day
                    /\ rows[i].kind = "slot" /\ rows'[i].status = "active" => rows[i].status = "active"
  /\ \A i \in Ids' \ Ids : rows'[i].kind = "run" /\ rows'[i].day = day

\* Poller p alone moves, and it is let pass only by what the gates read.
Enters(p) ==
  /\ \A q \in Pollers \ {p} : pc'[q] = pc[q] /\ mine'[q] = mine[q]
  /\ pc'[p] \in Deciding => pc[p] \in Deciding \/ (cron.capped => Cardinality(OnDay(day)) < DailyCap)
  /\ pc'[p] = "insert" /\ mine'[p].free =>
       \/ pc[p] = "insert" /\ mine[p].free
       \/ IF cron.bypass THEN Cardinality(OnDay(day)) < BypassCap ELSE Busy = {}
  /\ ~cron.bypass /\ pc'[p] \in RecordingSteps =>
       pc[p] \in RecordingSteps \/ cron.key \notin recorded[day]

\* Where a poller goes, the others stay where they are.
LEMMA OthersStay ==
  ASSUME TypeOK, NEW p \in Pollers
  PROVE  /\ \A s : Goto(p, s) => pc'[p] = s /\ \A q \in Pollers \ {p} : pc'[q] = pc[q]
         /\ \A m : mine' = [mine EXCEPT ![p] = m] => mine'[p] = m /\ \A q \in Pollers \ {p} : mine'[q] = mine[q]
         /\ UNCHANGED mine => \A q \in Pollers : mine'[q] = mine[q]
         /\ UNCHANGED pc => \A q \in Pollers : pc'[q] = pc[q]
BY DEF TypeOK, Goto

LEMMA SameRows ==
  ASSUME UNCHANGED <<cron, day, rows>>
  PROVE  SlotsKept
BY DEF SlotsKept, Ids

\* A row that is completed or failed is no active slot, whichever row it is.
LEMMA EndedRow ==
  ASSUME TypeOK, UNCHANGED <<cron, day>>, NEW i, NEW s \in {"completed", "failed"}, SetStatus(i, s)
  PROVE  SlotsKept /\ Ids' = Ids
<1>1. /\ Ids' = Ids
      /\ \A j \in Ids : /\ rows'[j].kind = rows[j].kind /\ rows'[j].day = rows[j].day
                        /\ rows'[j].status = IF j = i THEN s ELSE rows[j].status
  BY StatusSet DEF TypeOK, Statuses
<1> QED
  BY <1>1 DEF SlotsKept

LEMMA GateEnters ==
  ASSUME TypeOK, NEW p \in Pollers,
         CapGate(p) \/ MetricGate(p) \/ BusyGate(p) \/ FailureGate(p) \/ SuccessGate(p)
  PROVE  SlotsKept /\ Enters(p) /\ UNCHANGED <<recorded, computed>>
<1>1. UNCHANGED <<cron, rows, day, recorded, computed, mine>> /\ \A q \in Pollers : mine'[q] = mine[q]
  BY OthersStay DEF CapGate, MetricGate, BusyGate, FailureGate, SuccessGate, Gate
<1>2. SlotsKept /\ Ids' = Ids
  BY <1>1, SameRows DEF Ids
<1>3. \E s : Goto(p, s)
  BY DEF CapGate, MetricGate, BusyGate, FailureGate, SuccessGate, Gate, Skip
<1>4. \A q \in Pollers \ {p} : pc'[q] = pc[q] /\ mine'[q] = mine[q]
  BY <1>1, <1>3, OthersStay
<1>5. CASE CapGate(p)
  <2>1. IF (cron.capped => Cardinality(OnDay(day)) < DailyCap) THEN pc'[p] = (IF cron.bypass THEN "claim" ELSE "metric")
                                              ELSE pc'[p] = "idle"
    BY <1>5, OthersStay DEF CapGate, Gate, Skip
  <2> QED
    BY <1>1, <1>2, <1>4, <2>1 DEF Enters, Deciding, RecordingSteps
<1>6. CASE MetricGate(p)
  <2>1. pc[p] = "metric" /\ IF cron.key \notin recorded[day] THEN pc'[p] = "busy" ELSE pc'[p] = "idle"
    BY <1>6, OthersStay DEF MetricGate, Gate, Skip
  <2> QED
    BY <1>1, <1>2, <1>4, <2>1 DEF Enters, Deciding, RecordingSteps
<1>7. CASE BusyGate(p) \/ FailureGate(p) \/ SuccessGate(p)
  <2>1. pc[p] \in {"busy", "failures", "success"} /\ pc'[p] \in {"idle", "failures", "success", "claim"}
    BY <1>7, OthersStay DEF BusyGate, FailureGate, SuccessGate, Gate, Skip
  <2> QED
    BY <1>1, <1>2, <1>4, <2>1 DEF Enters, Deciding, RecordingSteps
<1> QED
  BY <1>5, <1>6, <1>7

\* A poller that goes where no gate stands before it enters nothing.
LEMMA EntersNothing ==
  ASSUME TypeOK, NEW p \in Pollers, NEW s \in {"idle", "cap", "check", "launch", "finish"}, Goto(p, s),
         mine' = mine \/ \E m : mine' = [mine EXCEPT ![p] = m]
  PROVE  Enters(p)
<1>1. pc'[p] = s /\ \A q \in Pollers \ {p} : pc'[q] = pc[q] /\ mine'[q] = mine[q]
  BY OthersStay
<1> QED
  BY <1>1 DEF Enters, Deciding, RecordingSteps

\* The other steps of a poller but the claim of a day it saw free.
LEMMA PollEnters ==
  ASSUME TypeOK, NEW p \in Pollers,
         \/ ClaimRead(p) \/ (ClaimInsert(p) /\ ~mine[p].free) \/ EvaluateFormula(p) \/ Provision(p)
         \/ CheckStatus(p) \/ Launch(p) \/ Finish(p) \/ Crash(p) \/ \E k \in Ids \cup {0} : StartPoll(p, k)
  PROVE  SlotsKept /\ Enters(p) /\ (EvaluateFormula(p) \/ UNCHANGED <<recorded, computed>>)
<1>0. rows \in Seq(Row) /\ day \in Nat /\ mine[p] \in Mines
  BY MineIsMine, CronAssumption DEF TypeOK
<1>1. CASE ClaimRead(p)
  <2>1. UNCHANGED <<cron, rows, day, recorded, computed>> /\ pc[p] = "claim" /\ Goto(p, "insert")
    BY <1>1 DEF ClaimRead
  <2> DEFINE room == IF cron.bypass THEN Cardinality(OnDay(day)) < BypassCap ELSE Busy = {}
  <2>2. mine' = [mine EXCEPT ![p] = [mine[p] EXCEPT !.free = room]]
    BY <1>1 DEF ClaimRead
  <2>3. room \in BOOLEAN
    <3>1. CASE cron.bypass
      BY <3>1
    <3>2. CASE ~cron.bypass
      BY <3>2
    <3> QED
      BY <3>1, <3>2
  <2> HIDE DEF room
  <2>4. mine'[p].free = room
    <3>1. mine'[p] = [mine[p] EXCEPT !.free = room]
      BY <2>2, OthersStay
    <3> QED
      BY <1>0, <2>3, <3>1 DEF Mines
  <2>5. pc'[p] = "insert" /\ \A q \in Pollers \ {p} : pc'[q] = pc[q] /\ mine'[q] = mine[q]
    BY <2>1, <2>2, OthersStay
  <2>6. Enters(p)
    BY <2>1, <2>4, <2>5 DEF Enters, Deciding, RecordingSteps, room
  <2> QED
    BY <2>1, <2>6, SameRows DEF Ids
<1>2. CASE ClaimInsert(p) /\ ~mine[p].free
  <2>1. UNCHANGED <<cron, rows, day, recorded, computed, mine>> /\ Goto(p, "idle")
    BY <1>2 DEF ClaimInsert, Skip
  <2> QED
    BY <2>1, SameRows, EntersNothing DEF Ids
<1>3. CASE EvaluateFormula(p)
  <2>1. UNCHANGED <<cron, rows, day>> /\ Goto(p, "finish")
    BY <1>3 DEF EvaluateFormula
  <2>2. mine' = mine \/ mine' = [mine EXCEPT ![p] = [mine[p] EXCEPT !.outcome = "completed"]]
    BY <1>3 DEF EvaluateFormula
  <2> QED
    BY <1>3, <2>1, <2>2, SameRows, EntersNothing DEF Ids
<1>4. CASE Provision(p)
  <2>1. UNCHANGED <<cron, day, recorded, computed>> /\ ~cron.formula /\ \E s \in {"check", "finish"} : Goto(p, s)
    BY <1>4 DEF Provision
  <2>2. mine' = mine \/ mine' = [mine EXCEPT ![p] = [mine[p] EXCEPT !.run = Len(rows) + 1]]
    BY <1>4 DEF Provision
  <2>3. CASE UNCHANGED rows
    BY <2>1, <2>2, <2>3, SameRows, EntersNothing
  <2>4. CASE Insert("run", "pending")
    <3> DEFINE n == Len(rows) + 1
    <3>1. /\ Ids' = Ids \cup {n} /\ \A j \in Ids : rows'[j] = rows[j]
          /\ rows'[n] = [kind |-> "run", status |-> "pending", day |-> day]
      BY <1>0, <2>4, Inserted DEF Statuses
    <3> HIDE DEF n
    <3>2. SlotsKept
      BY <2>1, <3>1 DEF SlotsKept
    <3> QED
      BY <2>1, <2>2, <3>2, EntersNothing
  <2> QED
    BY <1>4, <2>3, <2>4 DEF Provision
<1>5. CASE CheckStatus(p)
  <2>1. UNCHANGED <<cron, rows, day, recorded, computed, mine>> /\ \E s \in {"launch", "finish"} : Goto(p, s)
    BY <1>5 DEF CheckStatus
  <2> QED
    BY <2>1, SameRows, EntersNothing DEF Ids
<1>6. CASE Launch(p)
  <2>1. UNCHANGED <<cron, day, recorded, computed>> /\ Goto(p, "finish")
    BY <1>6 DEF Launch
  <2>2. mine' = mine \/ mine' = [mine EXCEPT ![p] = [mine[p] EXCEPT !.outcome = "completed"]]
    BY <1>6 DEF Launch
  <2>3. SlotsKept /\ Ids' = Ids
    BY <1>6, <2>1, EndedRow, SameRows DEF Launch, Ids
  <2> QED
    BY <2>1, <2>2, <2>3, EntersNothing
<1>7. CASE Finish(p)
  <2>1. UNCHANGED <<cron, day, recorded, computed>> /\ Goto(p, "idle") /\ mine' = [mine EXCEPT ![p] = NoDispatch]
    BY <1>7 DEF Finish, Skip
  <2>2. SetStatus(mine[p].slot, mine[p].outcome) /\ mine[p].outcome \in {"completed", "failed"}
    BY <1>0, <1>7 DEF Finish, Mines
  <2>3. SlotsKept /\ Ids' = Ids
    BY <2>1, <2>2, EndedRow
  <2> QED
    BY <2>1, <2>3, EntersNothing
<1>8. CASE Crash(p)
  <2>1. UNCHANGED <<cron, rows, day, recorded, computed>> /\ Goto(p, "idle") /\ mine' = [mine EXCEPT ![p] = NoDispatch]
    BY <1>8 DEF Crash, Skip
  <2> QED
    BY <2>1, SameRows, EntersNothing DEF Ids
<1>9. CASE \E k \in Ids \cup {0} : StartPoll(p, k)
  <2>1. UNCHANGED <<cron, day, recorded, computed>> /\ Goto(p, "cap") /\ mine' = [mine EXCEPT ![p] = NoDispatch]
    BY <1>9 DEF StartPoll
  <2>2. /\ Ids' = Ids
        /\ \A i \in Ids : /\ rows'[i].kind = rows[i].kind /\ rows'[i].day = rows[i].day
                          /\ rows'[i].status # rows[i].status => rows[i].status = "pending" /\ rows'[i].status = "failed"
    BY <1>0, <1>9, Reaped
  <2>3. SlotsKept
    BY <2>1, <2>2 DEF SlotsKept
  <2> QED
    BY <2>1, <2>2, <2>3, EntersNothing
<1> QED
  BY <1>1, <1>2, <1>3, <1>4, <1>5, <1>6, <1>7, <1>8, <1>9

\* What agents and operators do, who need the row of a run.
LEMMA AgentsEnter ==
  ASSUME TypeOK, NEW p \in Pollers,
         \/ \E i \in Ids : RunSleeps(i) \/ SlotFails(i) \/ \E s \in {"active", "completed", "failed", "pending"} : RunMoves(i, s)
         \/ RecordMetric
  PROVE  /\ SlotsKept /\ Enters(p) /\ UNCHANGED <<cron, day, pc, mine>>
         /\ UNCHANGED computed /\ \A d \in 0..MaxDay : recorded[d] \subseteq recorded'[d]
<1>0. rows \in Seq(Row) /\ day \in Nat
  BY CronAssumption DEF TypeOK
<1>1. /\ UNCHANGED <<cron, day, pc, mine>>
      /\ UNCHANGED computed /\ \A d \in 0..MaxDay : recorded[d] \subseteq recorded'[d]
  BY DEF RunSleeps, SlotFails, RunMoves, RecordMetric, TypeOK
<1>2. Enters(p)
  BY <1>1 DEF Enters
<1>3. ASSUME NEW i \in Ids, RunSleeps(i) PROVE SlotsKept
  <2> DEFINE n == Len(rows) + 1
  <2>1. /\ Ids' = Ids \cup {n} /\ rows[i].kind = "run"
        /\ \A j \in Ids : /\ rows'[j].kind = rows[j].kind /\ rows'[j].day = rows[j].day
                          /\ rows'[j].status = IF j = i THEN "completed" ELSE rows[j].status
        /\ rows'[n] = [kind |-> "run", status |-> "waiting", day |-> day]
    BY <1>0, <1>3, SleepRows DEF RunSleeps
  <2> HIDE DEF n
  <2> QED
    BY <1>1, <2>1 DEF SlotsKept
<1>4. ASSUME NEW i \in Ids, NEW s \in {"active", "completed", "failed", "pending"}, RunMoves(i, s)
      PROVE  SlotsKept
  <2>1. /\ Ids' = Ids /\ rows[i].kind = "run"
        /\ \A j \in Ids : /\ rows'[j].kind = rows[j].kind /\ rows'[j].day = rows[j].day
                          /\ rows'[j].status = IF j = i THEN s ELSE rows[j].status
    BY <1>0, <1>4, StatusSet DEF RunMoves, Statuses
  <2> QED
    BY <1>1, <2>1 DEF SlotsKept
<1>5. ASSUME RecordMetric PROVE SlotsKept
  BY <1>5, SameRows DEF RecordMetric
<1>6. ASSUME NEW i \in Ids, SlotFails(i) PROVE SlotsKept
  BY <1>1, <1>6, EndedRow DEF SlotFails
<1> QED
  BY <1>1, <1>2, <1>3, <1>4, <1>5, <1>6

-----------------------------------------------------------------------------
\* The slots of a day, and the active ones, are counted.
LEMMA SlotsCounted ==
  ASSUME TypeOK
  PROVE  \A d : /\ Cardinality(SlotsOn(d)) \in Nat /\ Cardinality(ActiveOn(d)) \in Nat
                /\ SlotsOn(d) \in SUBSET Ids /\ ActiveOn(d) \in SUBSET SlotsOn(d)
                /\ IsFiniteSet(SlotsOn(d)) /\ IsFiniteSet(ActiveOn(d))
<1>1. \A d : ActiveOn(d) \in SUBSET Ids /\ SlotsOn(d) \in SUBSET Ids /\ ActiveOn(d) \in SUBSET SlotsOn(d)
  BY DEF ActiveOn, Slots, OnDay, SlotsOn
<1> QED
  BY <1>1, Finite DEF TypeOK

\* A step that keeps the slots keeps what was counted.
LEMMA CountsKept ==
  ASSUME TypeOK, SlotsKept
  PROVE  \A d : /\ SlotsOn(d)' = SlotsOn(d)
                /\ Cardinality(ActiveOn(d)') \in Nat /\ Cardinality(ActiveOn(d)') <= Cardinality(ActiveOn(d))
<1>1. \A d : SlotsOn(d)' = SlotsOn(d)
  BY DEF SlotsKept, SlotsOn
<1>2. \A d : ActiveOn(d)' \in SUBSET ActiveOn(d)
  BY DEF SlotsKept, ActiveOn, Slots, OnDay
<1>3. \A d : Cardinality(ActiveOn(d)') \in Nat /\ Cardinality(ActiveOn(d)') <= Cardinality(ActiveOn(d))
  BY <1>2, SlotsCounted, FS_Subset, FS_CardinalityType
<1> QED
  BY <1>1, <1>3

LEMMA CountStays ==
  ASSUME TypeOK, CountInv, NEW p \in Pollers, SlotsKept, Enters(p)
  PROVE  CountInv'
<1>0. /\ cron' = cron /\ day' = day /\ day \in 0..MaxDay
      /\ DailyCap \in Nat /\ BypassCap \in Nat /\ Overlap \in Nat
      /\ Passed \in SUBSET Pollers /\ Passed' \in SUBSET Pollers
      /\ Claiming \in SUBSET Pollers /\ Claiming' \in SUBSET Pollers
  BY CronAssumption, PollersFinite DEF TypeOK, SlotsKept, Passed, Claiming
<1> PICK today \in 0..MaxDay : today = day
  BY <1>0
<1>1. /\ \A d : SlotsOn(d)' = SlotsOn(d)
      /\ \A d : Cardinality(SlotsOn(d)) \in Nat /\ Cardinality(ActiveOn(d)) \in Nat
      /\ \A d : Cardinality(ActiveOn(d)') \in Nat /\ Cardinality(ActiveOn(d)') <= Cardinality(ActiveOn(d))
  BY CountsKept, SlotsCounted
<1>2. \A i \in Ids' : rows'[i].day <= day'
  BY <1>0 DEF SlotsKept, CountInv
<1>3. /\ Cardinality(SlotsOn(day)) <= Cardinality(OnDay(day)) /\ Cardinality(OnDay(day)) \in Nat
  BY DayCounts
<1>4. ASSUME cron.capped PROVE Room(Cardinality(SlotsOn(day)), Passed', DailyCap)
  <2>1. CASE Cardinality(OnDay(day)) < DailyCap
    BY <1>0, <1>1, <1>3, <2>1, RoomOpens
  <2>2. CASE ~(Cardinality(OnDay(day)) < DailyCap)
    <3>1. Passed' \in SUBSET Passed
      BY <1>4, <2>2 DEF Passed, Enters
    <3> QED
      BY <1>0, <1>1, <1>4, <3>1, RoomStays DEF CountInv
  <2> QED
    BY <2>1, <2>2
<1>5. ASSUME cron.bypass PROVE Room(Cardinality(SlotsOn(day)), Claiming', BypassCap)
  <2>1. CASE Cardinality(OnDay(day)) < BypassCap
    BY <1>0, <1>1, <1>3, <2>1, RoomOpens
  <2>2. CASE ~(Cardinality(OnDay(day)) < BypassCap)
    <3>1. Claiming' \in SUBSET Claiming
      BY <1>5, <2>2 DEF Claiming, Enters
    <3> QED
      BY <1>0, <1>1, <1>5, <3>1, RoomStays DEF CountInv
  <2> QED
    BY <2>1, <2>2
<1>6. ASSUME ~cron.bypass PROVE Room(Cardinality(ActiveOn(today)'), Claiming', 1)
  <2>1. CASE Busy = {}
    <3>1. ActiveOn(day) = {}
      BY <2>1 DEF Busy, Today, ActiveOn, Slots
    <3>2. Cardinality(ActiveOn(day)) = 0
      BY <3>1, FS_EmptySet
    <3>3. Cardinality(ActiveOn(today)') < 1
      BY <1>1, <3>2
    <3> QED
      BY <1>0, <1>1, <3>3, RoomOpens
  <2>2. CASE Busy # {}
    <3>1. Claiming' \in SUBSET Claiming
      BY <1>6, <2>2 DEF Claiming, Enters
    <3>2. Room(Cardinality(ActiveOn(day)), Claiming, 1)
      BY <1>6 DEF CountInv
    <3> QED
      BY <1>0, <1>1, <3>1, <3>2, RoomStays
  <2> QED
    BY <2>1, <2>2
<1>7. ASSUME NEW d \in 0..MaxDay
      PROVE  /\ cron.capped => Cardinality(SlotsOn(d)') <= DailyCap + Overlap
             /\ cron.bypass => Cardinality(SlotsOn(d)') <= BypassCap + Overlap
             /\ ~cron.bypass => Cardinality(ActiveOn(d)') <= 1 + Overlap
  BY <1>0, <1>1 DEF CountInv
<1> QED
  BY <1>0, <1>1, <1>2, <1>4, <1>5, <1>6, <1>7 DEF CountInv

\* What may be recorded stays when the day does not: only the evaluation of a formula adds to it.
LEMMA RecordStays ==
  ASSUME TypeOK, RecordInv, NEW p \in Pollers, UNCHANGED <<cron, day>>, Enters(p),
         EvaluateFormula(p) \/ (UNCHANGED computed /\ \A d \in 0..MaxDay : recorded[d] \subseteq recorded'[d])
  PROVE  RecordInv'
<1>0. /\ day \in 0..MaxDay /\ Recording \in SUBSET Pollers /\ Recording' \in SUBSET Pollers
      /\ recorded \in [0..MaxDay -> SUBSET Keys] /\ computed \in [0..MaxDay -> Nat]
      /\ Overlap \in Nat /\ MaxDay \in Nat
  BY CronAssumption, PollersFinite DEF TypeOK, Recording
<1>1. CASE UNCHANGED computed /\ \A d \in 0..MaxDay : recorded[d] \subseteq recorded'[d]
  <2>1. ASSUME cron.key = "formula", ~cron.bypass PROVE Room(computed[day], Recording', 1)
    <3>1. Room(computed[day], Recording, 1)
      BY <2>1 DEF RecordInv
    <3>2. CASE computed[day] = 0
      BY <1>0, <3>2, RoomOpens
    <3>3. CASE computed[day] # 0
      <4>1. "formula" \in recorded[day]
        BY <1>0, <3>3 DEF RecordInv
      <4>2. Recording' \in SUBSET Recording
        BY <1>0, <2>1, <4>1 DEF Recording, Enters
      <4> QED
        BY <1>0, <3>1, <4>2, RoomStays
    <3> QED
      BY <3>2, <3>3
  <2> QED
    BY <1>0, <1>1, <2>1 DEF RecordInv
<1>2. CASE EvaluateFormula(p) /\ computed' # computed
  <2>1. /\ recorded' = [recorded EXCEPT ![day] = @ \cup {"formula"}]
        /\ computed' = [computed EXCEPT ![day] = @ + 1]
    BY <1>2 DEF EvaluateFormula
  <2>2. pc[p] = "provision" /\ pc'[p] = "finish"
    BY <1>2, OthersStay DEF EvaluateFormula
  <2>3. p \in Recording /\ Recording' \in SUBSET (Recording \ {p})
    BY <1>0, <2>2 DEF Recording, RecordingSteps, Deciding, Enters
  <2>4. /\ computed'[day] = computed[day] + 1 /\ "formula" \in recorded'[day]
        /\ \A d \in 0..MaxDay : d # day => computed'[d] = computed[d] /\ recorded'[d] = recorded[d]
    BY <1>0, <2>1
  <2>5. ASSUME cron.key = "formula", ~cron.bypass
        PROVE  Room(computed'[day], Recording', 1) /\ \A d \in 0..MaxDay : computed'[d] <= 1 + Overlap
    <3>1. Room(computed[day], Recording, 1) /\ \A d \in 0..MaxDay : computed[d] <= 1 + Overlap
      BY <2>5 DEF RecordInv
    <3>2. Room(computed'[day], Recording', 1)
      BY <1>0, <2>3, <2>4, <3>1, RoomUsed
    <3>3. Cardinality(Recording') \in Nat
      BY <1>0, PollersFinite
    <3>4. computed'[day] <= 1 + Overlap
      BY <1>0, <2>4, <3>2, <3>3 DEF Room
    <3> QED
      BY <2>4, <3>1, <3>2, <3>4
  <2>6. ASSUME NEW d \in 0..MaxDay
        PROVE  (computed'[d] > 0 => "formula" \in recorded'[d]) /\ (d > day => computed'[d] = 0)
    <3>1. CASE d = day
      <4>1. "formula" \in recorded'[d] /\ ~(d > day)
        BY <1>0, <2>4, <3>1
      <4> QED
        BY <4>1
    <3>2. CASE d # day
      BY <2>4, <3>2 DEF RecordInv
    <3> QED
      BY <3>1, <3>2
  <2> QED
    BY <2>5, <2>6 DEF RecordInv
<1>3. EvaluateFormula(p) => \/ computed' # computed
                            \/ UNCHANGED computed /\ \A d \in 0..MaxDay : recorded[d] \subseteq recorded'[d]
  BY <1>0 DEF EvaluateFormula
<1> QED
  BY <1>1, <1>2, <1>3

\* The claim of a day that was free takes the room that was left for it.
LEMMA ClaimCounts ==
  ASSUME TypeOK, CountInv, RecordInv, NEW p \in Pollers, ClaimInsert(p), mine[p].free
  PROVE  CountInv' /\ RecordInv'
<1> DEFINE n == Len(rows) + 1
<1>0. /\ rows \in Seq(Row) /\ day \in Nat /\ day \in 0..MaxDay
      /\ DailyCap \in Nat /\ BypassCap \in Nat /\ Overlap \in Nat
      /\ Passed \in SUBSET Pollers /\ Claiming \in SUBSET Pollers /\ Recording \in SUBSET Pollers
      /\ Passed' \in SUBSET Pollers /\ Claiming' \in SUBSET Pollers
  BY CronAssumption, PollersFinite DEF TypeOK, Passed, Claiming, Recording
<1>1. /\ UNCHANGED <<cron, day, recorded, computed>> /\ pc[p] = "insert" /\ pc'[p] = "provision"
      /\ \A q \in Pollers \ {p} : pc'[q] = pc[q] /\ mine'[q] = mine[q]
  <2>1. UNCHANGED <<cron, day, recorded, computed>> /\ pc[p] = "insert" /\ Goto(p, "provision")
        /\ mine' = [mine EXCEPT ![p] = [mine[p] EXCEPT !.slot = Len(rows) + 1]]
    BY DEF ClaimInsert
  <2> QED
    BY <2>1, OthersStay
<1>2. /\ Ids' = Ids \cup {n} /\ n \notin Ids
      /\ \A j \in Ids : rows'[j] = rows[j]
      /\ rows'[n] = [kind |-> "slot", status |-> "active", day |-> day]
  BY <1>0, Inserted DEF ClaimInsert, Statuses
<1> HIDE DEF n
<1>3. rows'[n].kind = "slot" /\ rows'[n].status = "active" /\ rows'[n].day = day
  BY <1>2
<1>4. p \in Passed /\ p \in Claiming /\ Passed' \in SUBSET (Passed \ {p}) /\ Claiming' \in SUBSET (Claiming \ {p})
      /\ Recording' = Recording
  BY <1>1 DEF Passed, Claiming, Recording, Deciding, RecordingSteps
<1>5. RecordInv'
  BY <1>1, <1>4 DEF RecordInv
<1>6. \A i \in Ids' : rows'[i].day <= day'
  BY <1>0, <1>1, <1>2, <1>3 DEF CountInv
<1> PICK today \in 0..MaxDay : today = day
  BY <1>0
<1>7. \A d : /\ SlotsOn(d)' = IF d = today THEN SlotsOn(d) \cup {n} ELSE SlotsOn(d)
             /\ ActiveOn(d)' = IF d = today THEN ActiveOn(d) \cup {n} ELSE ActiveOn(d)
  BY <1>2, <1>3 DEF SlotsOn, ActiveOn, Slots, OnDay
<1>8. /\ Cardinality(SlotsOn(today)') = Cardinality(SlotsOn(day)) + 1
      /\ Cardinality(ActiveOn(today)') = Cardinality(ActiveOn(day)) + 1
  <2>1. n \notin SlotsOn(day) /\ n \notin ActiveOn(day) /\ IsFiniteSet(SlotsOn(day)) /\ IsFiniteSet(ActiveOn(day))
    BY <1>2, SlotsCounted
  <2>2. /\ Cardinality(SlotsOn(day) \cup {n}) = Cardinality(SlotsOn(day)) + 1
        /\ Cardinality(ActiveOn(day) \cup {n}) = Cardinality(ActiveOn(day)) + 1
    BY <2>1, FS_AddElement
  <2> QED
    BY <1>7, <2>2
<1>9. Cardinality(SlotsOn(day)) \in Nat /\ Cardinality(ActiveOn(day)) \in Nat
  BY SlotsCounted
<1>10. cron.capped => Room(Cardinality(SlotsOn(today)'), Passed', DailyCap)
  BY <1>0, <1>4, <1>8, <1>9, RoomUsed DEF CountInv
<1>11. cron.bypass => Room(Cardinality(SlotsOn(today)'), Claiming', BypassCap)
  BY <1>0, <1>4, <1>8, <1>9, RoomUsed DEF CountInv
<1>12. ~cron.bypass => Room(Cardinality(ActiveOn(today)'), Claiming', 1)
  BY <1>0, <1>4, <1>8, <1>9, RoomUsed DEF CountInv
<1>13. ASSUME NEW d \in 0..MaxDay
       PROVE  /\ cron.capped => Cardinality(SlotsOn(d)') <= DailyCap + Overlap
              /\ cron.bypass => Cardinality(SlotsOn(d)') <= BypassCap + Overlap
              /\ ~cron.bypass => Cardinality(ActiveOn(d)') <= 1 + Overlap
  <2>1. CASE d = today
    <3>1. Cardinality(Passed') \in Nat /\ Cardinality(Claiming') \in Nat
      BY <1>0, PollersFinite
    <3> QED
      BY <1>0, <1>8, <1>9, <1>10, <1>11, <1>12, <2>1, <3>1 DEF Room
  <2>2. CASE d # today
    BY <1>7, <2>2 DEF CountInv
  <2> QED
    BY <2>1, <2>2
<1>14. CountInv'
  BY <1>1, <1>6, <1>10, <1>11, <1>12, <1>13 DEF CountInv
<1> QED
  BY <1>5, <1>14

\* The day that begins has no row and no metric yet.
LEMMA MidnightCounts ==
  ASSUME TypeOK, CountInv, RecordInv, Midnight
  PROVE  CountInv' /\ RecordInv'
<1>0. /\ day \in 0..MaxDay /\ day + 1 \in 0..MaxDay /\ day \in Nat /\ \A i \in Ids : rows[i].day \in Nat
      /\ DailyCap \in Nat /\ BypassCap \in Nat /\ Overlap \in Nat
      /\ Passed \in SUBSET Pollers /\ Claiming \in SUBSET Pollers /\ Recording \in SUBSET Pollers
      /\ computed \in [0..MaxDay -> Nat]
  <2>1. \A i \in Ids : rows[i] \in Row
    BY DEF TypeOK, Ids
  <2>2. \A i \in Ids : rows[i].day \in Nat
    BY <2>1 DEF Row
  <2> QED
    BY <2>2, CronAssumption, PollersFinite DEF TypeOK, Midnight, Passed, Claiming, Recording
<1>1. UNCHANGED <<cron, rows, recorded, computed, pc, mine>> /\ day' = day + 1 /\ Ids' = Ids
  BY DEF Midnight, Ids
<1>2. \A i \in Ids : rows[i].day <= day /\ rows[i].day # day + 1
  BY <1>0 DEF CountInv
<1>3. \A d : SlotsOn(d)' = SlotsOn(d) /\ ActiveOn(d)' = ActiveOn(d)
  BY <1>1 DEF SlotsOn, ActiveOn, Slots, OnDay
<1>4. Passed' = Passed /\ Claiming' = Claiming /\ Recording' = Recording
  BY <1>1 DEF Passed, Claiming, Recording
<1>5. Cardinality(SlotsOn(day + 1)) = 0 /\ Cardinality(ActiveOn(day + 1)) = 0
  <2>1. SlotsOn(day + 1) = {} /\ ActiveOn(day + 1) = {}
    BY <1>2 DEF SlotsOn, ActiveOn, Slots, OnDay
  <2> QED
    BY <2>1, FS_EmptySet
<1>6. Cardinality(SlotsOn(day)) \in Nat /\ Cardinality(ActiveOn(day)) \in Nat
  BY SlotsCounted
<1>7. /\ cron.capped => Room(0, Passed, DailyCap)
      /\ cron.bypass => Room(0, Claiming, BypassCap)
      /\ ~cron.bypass => Room(0, Claiming, 1)
  BY <1>0, <1>6, RoomAtMidnight DEF CountInv
<1>8. CountInv'
  <2>1. \A i \in Ids' : rows'[i].day <= day'
    BY <1>0, <1>1, <1>2
  <2> QED
    BY <1>1, <1>3, <1>4, <1>5, <1>7, <2>1 DEF CountInv
<1>9. RecordInv'
  <2>1. computed[day + 1] = 0
    BY <1>0 DEF RecordInv
  <2>2. cron.key = "formula" /\ ~cron.bypass => Room(0, Recording, 1)
    BY <1>0, RoomAtMidnight DEF RecordInv
  <2>3. \A d \in 0..MaxDay : d > day + 1 => d > day
    BY <1>0
  <2> QED
    BY <1>1, <1>4, <2>1, <2>2, <2>3 DEF RecordInv
<1> QED
  BY <1>8, <1>9

LEMMA CountInit == Init => CountInv /\ RecordInv
<1> SUFFICES ASSUME Init PROVE CountInv /\ RecordInv
  OBVIOUS
<1>1. /\ Ids = {} /\ day = 0 /\ pc = [p \in Pollers |-> "idle"] /\ \A d \in 0..MaxDay : computed[d] = 0
      /\ DailyCap \in Nat /\ BypassCap \in Nat /\ Overlap \in Nat /\ MaxDay \in Nat
  BY CronAssumption, PollersFinite DEF Init, Ids
<1>2. Passed = {} /\ Claiming = {} /\ Recording = {} /\ Cardinality({}) = 0
  BY <1>1, FS_EmptySet DEF Passed, Claiming, Recording, Deciding, RecordingSteps
<1>3. \A d : Cardinality(SlotsOn(d)) = 0 /\ Cardinality(ActiveOn(d)) = 0
  <2>1. \A d : SlotsOn(d) = {} /\ ActiveOn(d) = {}
    BY <1>1 DEF SlotsOn, ActiveOn, Slots, OnDay
  <2> QED
    BY <2>1, FS_EmptySet
<1>4. \A limit \in Nat : Room(0, {}, limit)
  BY <1>1, <1>2 DEF Room
<1> QED
  BY <1>1, <1>2, <1>3, <1>4 DEF CountInv, RecordInv

LEMMA CountStep ==
  ASSUME TypeOK, CountInv, RecordInv, [Next]_vars
  PROVE  CountInv' /\ RecordInv'
<1>1. ASSUME NEW p \in Pollers,
             \/ CapGate(p) \/ MetricGate(p) \/ BusyGate(p) \/ FailureGate(p) \/ SuccessGate(p)
             \/ ClaimRead(p) \/ (ClaimInsert(p) /\ ~mine[p].free) \/ EvaluateFormula(p) \/ Provision(p)
             \/ CheckStatus(p) \/ Launch(p) \/ Finish(p) \/ Crash(p) \/ \E k \in Ids \cup {0} : StartPoll(p, k)
      PROVE  CountInv' /\ RecordInv'
  <2>1. SlotsKept /\ Enters(p) /\ (EvaluateFormula(p) \/ UNCHANGED <<recorded, computed>>)
    BY <1>1, GateEnters, PollEnters
  <2>2. UNCHANGED <<cron, day>>
    BY <2>1 DEF SlotsKept
  <2> QED
    BY <2>1, <2>2, CountStays, RecordStays
<1>2. ASSUME NEW p \in Pollers, ClaimInsert(p), mine[p].free PROVE CountInv' /\ RecordInv'
  BY <1>2, ClaimCounts
<1>3. CASE \/ \E i \in Ids : RunSleeps(i) \/ SlotFails(i) \/ \E s \in {"active", "completed", "failed", "pending"} : RunMoves(i, s)
           \/ RecordMetric
  <2>1. PICK p \in Pollers : TRUE
    BY CronAssumption
  <2>2. /\ SlotsKept /\ Enters(p) /\ UNCHANGED <<cron, day, pc, mine>>
        /\ UNCHANGED computed /\ \A d \in 0..MaxDay : recorded[d] \subseteq recorded'[d]
    BY <1>3, AgentsEnter
  <2> QED
    BY <2>2, CountStays, RecordStays
<1>4. CASE Midnight
  BY <1>4, MidnightCounts
<1>5. CASE UNCHANGED vars
  BY <1>5 DEF vars, CountInv, RecordInv, Ids, SlotsOn, ActiveOn, Slots, OnDay, Passed, Claiming, Recording
<1> QED
  BY <1>1, <1>2, <1>3, <1>4, <1>5 DEF Next

\* However many pollers run, what their gates keep free is taken at most once by each.
THEOREM GatesKeepRoom == Spec => [](TypeOK /\ CountInv /\ RecordInv)
<1>1. Init => TypeOK /\ CountInv /\ RecordInv
  BY InitType, CountInit
<1>2. (TypeOK /\ CountInv /\ RecordInv) /\ [Next]_vars => (TypeOK /\ CountInv /\ RecordInv)'
  BY TypeStep, CountStep
<1> QED
  BY <1>1, <1>2, PTL DEF Spec

\* A skill has no more slots under way for one day than there are pollers: one, while one runs, whatever
\* the agents do to their runs, and also after a poller died in the middle of a dispatch.
THEOREM OneSlotAtATime == Spec => []SlotExclusive
<1>1. CountInv => SlotExclusive
  BY DEF CountInv, ActiveOn, SlotExclusive
<1> QED
  BY <1>1, GatesKeepRoom, PTL

\* An agent is dispatched at most max_dispatches_per_day times a day, and one that bypasses the gates at
\* most as often as its cap allows, but for one more by each further poller.
THEOREM CapsHold == Spec => []DispatchCap
<1>1. TypeOK /\ CountInv => DispatchCap
  <2> SUFFICES ASSUME TypeOK, CountInv, NEW d \in 0..MaxDay
               PROVE  LET n == Cardinality(Slots(d, {"active", "completed", "failed"}))
                      IN  (cron.capped => n <= DailyCap + Overlap) /\ (cron.bypass => n <= BypassCap + Overlap)
    BY DEF DispatchCap
  <2>1. Slots(d, {"active", "completed", "failed"}) \in SUBSET SlotsOn(d) /\ SlotsOn(d) \in SUBSET Ids
    BY DEF Slots, OnDay, SlotsOn
  <2>2. /\ Cardinality(Slots(d, {"active", "completed", "failed"})) <= Cardinality(SlotsOn(d))
        /\ Cardinality(Slots(d, {"active", "completed", "failed"})) \in Nat /\ Cardinality(SlotsOn(d)) \in Nat
    BY <2>1, Finite, FS_Subset DEF TypeOK
  <2>3. /\ cron.capped => Cardinality(SlotsOn(d)) <= DailyCap + Overlap
        /\ cron.bypass => Cardinality(SlotsOn(d)) <= BypassCap + Overlap
    BY DEF CountInv
  <2> QED
    BY <2>2, <2>3, CronAssumption, PollersFinite
<1> QED
  BY <1>1, GatesKeepRoom, PTL

\* Where gate 1 looks for the key a formula records under, each poller computes it at most once a day,
\* also when it dies between the INSERT of the metric and the end of the slot, when midnight passes before
\* the INSERT, or when the orphan job closes its slot.
THEOREM FormulaRecordedOnce == Spec => []FormulaOnce
<1>1. RecordInv => FormulaOnce
  BY DEF RecordInv, FormulaOnce
<1> QED
  BY <1>1, GatesKeepRoom, PTL
=============================================================================
