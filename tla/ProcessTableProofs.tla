------------------------- MODULE ProcessTableProofs -------------------------
(***************************************************************************)
(* Proofs about the process table.  The argument has three layers: facts   *)
(* about sequences of rows, a classification of the steps of the           *)
(* specification by what they do to the table, and the invariants and      *)
(* action properties, each proved once per kind of step.                   *)
(***************************************************************************)
EXTENDS ProcessLines, SequenceTheorems, TLAPS

-----------------------------------------------------------------------------
(* Kinds of step. *)

SameLine(a, b) ==
  /\ a.parent = b.parent
  /\ a.root = b.root
  /\ a.origin = b.origin
  /\ a.project = b.project

\* One row gets another status or channel.
Rewrites(i, e) ==
  /\ i \in Ids
  /\ e \in Row
  /\ SameLine(e, rows[i])
  /\ e.status # "deleted"
  /\ e.status = "waiting" => rows[i].status = "waiting"
  /\ rows' = Update(i, e)

\* A row is added that fits the lineage of the table.
Linked(e) ==
  /\ e.parent \in Ids \cup {0}
  /\ \/ e.root = NextId /\ e.origin \in {"init", "cron"}
     \/ e.parent # 0 /\ e.root = rows[e.parent].root

Inserts(e) ==
  /\ e \in Row
  /\ e.status \notin {"deleted", "waiting"}
  /\ e.origin # "sleep"
  /\ Linked(e)
  /\ rows' = Append(rows, e)

\* What the service inserts besides the segments of sleep has yet to run.
ServiceInserts(e) == Inserts(e) /\ HasRoom /\ e.status \in {"pending", "queued"}

\* The status changes that ProcessesService makes without adding a row.
ServiceStep(a, b) ==
  \/ b = a
  \/ a \in {"pending", "waiting"} /\ b = "active"
  \/ a = "active" /\ b \in {"completed", "blocked"}
  \/ a \in {"pending", "active", "waiting"} /\ b = "failed"
  \/ a = "failed" /\ b = "pending"

Reaps == \E k \in Ids : ReapStalePending(k)
Prunes == \E i \in Ids : PruneProcessRow(i)
Sleeps == \E c \in Clients : SleepCommit(c)

\* What an open operation has read of the lineage is still so.
TxOK ==
  \A c \in Clients :
    tx[c].op # "none" =>
      /\ tx[c].id \in DOMAIN rows
      /\ tx[c].root = rows[tx[c].id].root
      /\ tx[c].op # "restart" => tx[c].project = rows[tx[c].id].project

IInv == TypeOK /\ TxOK /\ ChainShape

-----------------------------------------------------------------------------
(* Sequences of rows. *)

LEMMA RowsFacts ==
  ASSUME rows \in Seq(Row)
  PROVE  /\ Len(rows) \in Nat
         /\ DOMAIN rows = 1..Len(rows)
         /\ NextId \in Nat \ {0}
         /\ NextId \notin DOMAIN rows
         /\ \A i \in DOMAIN rows : rows[i] \in Row /\ i \in Nat \ {0} /\ i < NextId
<1>1. Len(rows) \in Nat /\ DOMAIN rows = 1..Len(rows) /\ rows \in [1..Len(rows) -> Row]
  BY LenProperties
<1> QED
  BY <1>1 DEF NextId

LEMMA UpdateFacts ==
  ASSUME rows \in Seq(Row), NEW i \in DOMAIN rows, NEW e \in Row
  PROVE  /\ Update(i, e) \in Seq(Row)
         /\ Len(Update(i, e)) = Len(rows)
         /\ DOMAIN Update(i, e) = DOMAIN rows
         /\ \A j \in DOMAIN rows : Update(i, e)[j] = IF j = i THEN e ELSE rows[j]
<1>1. i \in 1..Len(rows)
  BY RowsFacts
<1>2. Update(i, e) \in Seq(Row) /\ Len(Update(i, e)) = Len(rows)
  BY <1>1, ExceptSeq DEF Update
<1> QED
  BY <1>2 DEF Update

LEMMA AppendFacts ==
  ASSUME NEW s \in Seq(Row), NEW e \in Row
  PROVE  /\ Append(s, e) \in Seq(Row)
         /\ DOMAIN Append(s, e) = DOMAIN s \cup {Len(s) + 1}
         /\ \A j \in DOMAIN s : Append(s, e)[j] = s[j]
         /\ Append(s, e)[Len(s) + 1] = e
<1>1. /\ Append(s, e) \in Seq(Row)
      /\ Len(Append(s, e)) = Len(s) + 1
      /\ \A j \in 1..Len(s) : Append(s, e)[j] = s[j]
      /\ Append(s, e)[Len(s) + 1] = e
  BY AppendProperties
<1>2. Len(s) \in Nat /\ DOMAIN s = 1..Len(s)
  BY LenProperties
<1>3. DOMAIN Append(s, e) = 1..Len(Append(s, e))
  BY <1>1, LenProperties
<1> QED
  BY <1>1, <1>2, <1>3

LEMMA NewRowType ==
  ASSUME NEW st \in CheckStatuses, NEW par \in Nat, NEW rt \in Nat, NEW org \in Origins
  PROVE  /\ NewRow(st, par, rt, org) \in Row
         /\ NewRow(st, par, rt, org).status = st
         /\ NewRow(st, par, rt, org).parent = par
         /\ NewRow(st, par, rt, org).root = rt
         /\ NewRow(st, par, rt, org).origin = org
  BY DEF NewRow, Row
-----------------------------------------------------------------------------
(* Every step is of one of the kinds. *)

LEMMA RewriteFields ==
  ASSUME TypeOK, NEW i \in Ids, NEW s \in CheckStatuses, s \notin {"deleted", "waiting"},
         rows' = Update(i, WithStatus(i, s))
  PROVE  \E e \in Row : e.status = s /\ Rewrites(i, e)
<1>1. rows[i] \in Row
  BY RowsFacts DEF TypeOK, Ids
<1>2. WithStatus(i, s) \in Row /\ WithStatus(i, s).status = s /\ SameLine(WithStatus(i, s), rows[i])
  BY <1>1 DEF WithStatus, Row, SameLine
<1> QED
  BY <1>2 DEF Rewrites

LEMMA ServiceKinds ==
  ASSUME TypeOK, TxOK, ChainShape, ServiceNext
  PROVE  \/ rows' = rows
         \/ \E i \in Ids, e \in Row : ServiceStep(rows[i].status, e.status) /\ Rewrites(i, e)
         \/ \E e \in Row : ServiceInserts(e)
         \/ Sleeps
<1> USE ConstantsAssumption DEF Baseline
<1> DEFINE Rewritten == \E i \in Ids, e \in Row :
              ServiceStep(rows[i].status, e.status) /\ Rewrites(i, e)
<1>0. rows \in Seq(Row) /\ NextId \in Nat \ {0} /\ Ids \subseteq Nat \ {0}
  BY RowsFacts DEF TypeOK, Ids
<1>1. ASSUME NEW st \in {"pending", "queued"}, NEW par \in Ids \cup {0},
             NEW ch \in Channels \cup {Null}, NEW pr \in Projects \cup {Null},
             InitProcess(st, par, ch, pr)
      PROVE  \E e \in Row : ServiceInserts(e)
  <2> DEFINE e == [NewRow(st, par, NextId, "init") EXCEPT !.channel = ch, !.project = pr]
  <2>1. st \in CheckStatuses /\ par \in Nat /\ "init" \in Origins
    BY <1>0, <1>1 DEF InitProcess, Origins
  <2>2. e \in Row /\ e.status = st /\ e.parent = par /\ e.root = NextId /\ e.origin = "init"
    BY <1>0, <2>1 DEF NewRow, Row
  <2> QED
    BY <1>1, <2>2 DEF ServiceInserts, Inserts, Linked, InitProcess, HasInitRoom
<1>2. ASSUME NEW par \in Ids \cup {0}, NEW pr \in Projects \cup {Null}, InitProcessRpc(par, pr)
      PROVE  \E e \in Row : ServiceInserts(e)
  <2> DEFINE rt == IF par = 0 THEN NextId ELSE rows[par].root
             e == [NewRow("pending", par, rt, "init") EXCEPT !.project = pr]
  <2>1. par \in Nat /\ rt \in Nat /\ "init" \in Origins /\ "pending" \in CheckStatuses
    <3>1. par # 0 => rows[par] \in Row
      BY RowsFacts DEF TypeOK, Ids
    <3> QED
      BY <1>0, <3>1 DEF Origins, Row
  <2>2. e \in Row /\ e.status = "pending" /\ e.parent = par /\ e.root = rt /\ e.origin = "init"
    BY <2>1 DEF NewRow, Row
  <2>3. rows' = Append(rows, e)
    BY <1>2 DEF InitProcessRpc
  <2> QED
    BY <1>2, <2>2, <2>3 DEF ServiceInserts, Inserts, Linked, InitProcessRpc, HasInitRoom
<1>3. ASSUME NEW i \in Ids, Activate(i) \/ Claim(i) \/ Complete(i) \/ Fail(i) \/ Reset(i) \/ Block(i)
      PROVE  rows' = rows \/ Rewritten
  <2>1. CASE Activate(i) \/ Claim(i)
    <3>1. rows' = Update(i, WithStatus(i, "active"))
      BY <2>1 DEF Activate, Claim, Guarded
    <3>2. \E e \in Row : e.status = "active" /\ Rewrites(i, e)
      BY <3>1, RewriteFields
    <3> QED
      BY <2>1, <3>2 DEF Activate, Claim, Guarded, ServiceStep
  <2>2. CASE Complete(i) \/ Fail(i)
    <3>1. PICK s \in {"completed", "failed"} :
            rows' = Update(i, WithStatus(i, s)) /\ ServiceStep(rows[i].status, s)
      BY <2>2 DEF Complete, Fail, Guarded, ServiceStep
    <3>2. \E e \in Row : e.status = s /\ Rewrites(i, e)
      BY <3>1, RewriteFields
    <3> QED
      BY <3>1, <3>2
  <2>3. CASE Reset(i)
    <3>1. rows' = Update(i, WithStatus(i, "pending"))
      BY <2>3 DEF Reset, Guarded
    <3>2. \E e \in Row : e.status = "pending" /\ Rewrites(i, e)
      BY <3>1, RewriteFields
    <3> QED
      BY <2>3, <3>2 DEF Reset, Guarded, ServiceStep
  <2>4. CASE Block(i)
    <3>1. CASE "blocked" \in CheckStatuses
      <4>1. rows[i].status = "active" /\ rows' = Update(i, WithStatus(i, "blocked"))
        BY <2>4, <3>1 DEF Block, Guarded
      <4>2. \E e \in Row : e.status = "blocked" /\ Rewrites(i, e)
        BY <3>1, <4>1, RewriteFields
      <4> QED
        BY <4>1, <4>2 DEF ServiceStep
    <3> QED
      BY <2>4, <3>1 DEF Block
  <2> QED
    BY <1>3, <2>1, <2>2, <2>3, <2>4
<1>4. ASSUME NEW i \in Ids, NEW ch \in Channels, UpdateChannel(i, ch)
      PROVE  Rewritten
  <2> DEFINE e == [rows[i] EXCEPT !.channel = ch]
  <2>1. rows[i] \in Row
    BY RowsFacts DEF TypeOK, Ids
  <2>2. e \in Row /\ e.status = rows[i].status /\ SameLine(e, rows[i])
    BY <2>1 DEF Row, SameLine
  <2>3. Rewrites(i, e)
    BY <1>4, <2>2 DEF Rewrites, UpdateChannel, Ids
  <2> QED
    BY <2>2, <2>3 DEF ServiceStep
<1>5. ASSUME NEW c \in Clients, RestartInsert(c)
      PROVE  \E e \in Row : ServiceInserts(e)
  <2> DEFINE e == NewRow("pending", tx[c].id, tx[c].root, "restart")
  <2>1. tx[c] \in Tx /\ tx[c].op = "restart" /\ tx[c].id \in Ids /\ rows' = Append(rows, e)
    BY <1>5 DEF RestartInsert, TypeOK
  <2>2. tx[c].id \in Nat /\ tx[c].root \in Nat /\ tx[c].id # 0 /\ tx[c].root = rows[tx[c].id].root
    BY <1>0, <2>1 DEF Tx, TxOK
  <2>3. e \in Row /\ e.status = "pending" /\ e.parent = tx[c].id /\ e.root = tx[c].root /\ e.origin = "restart"
    BY <2>2, NewRowType DEF Origins
  <2> QED
    BY <1>5, <2>1, <2>2, <2>3 DEF ServiceInserts, Inserts, Linked, RestartInsert
<1>6. ASSUME NEW c \in Clients, NEW i \in Ids, SleepRead(c, i) \/ RestartRead(c, i)
      PROVE  rows' = rows
  BY <1>6 DEF SleepRead, RestartRead
<1>7. ASSUME NEW c \in Clients, SleepAbort(c) \/ RestartAbort(c)
      PROVE  rows' = rows
  BY <1>7 DEF SleepAbort, RestartAbort
<1> QED
  BY <1>1, <1>2, <1>3, <1>4, <1>5, <1>6, <1>7 DEF ServiceNext, Sleeps

LEMMA Kinds ==
  ASSUME TypeOK, TxOK, ChainShape, Next
  PROVE  \/ rows' = rows
         \/ \E i \in Ids, e \in Row : Rewrites(i, e)
         \/ \E e \in Row : Inserts(e)
         \/ Sleeps
         \/ Reaps
         \/ Prunes
<1> USE ConstantsAssumption DEF Baseline
<1>0. rows \in Seq(Row) /\ NextId \in Nat \ {0}
  BY RowsFacts DEF TypeOK
<1>1. CASE ServiceNext
  BY <1>1, ServiceKinds DEF ServiceInserts
<1>2. ASSUME NEW i \in Ids, MarkProcessCompleted(i) \/ FailProcessRpc(i)
      PROVE  \E e \in Row : Rewrites(i, e)
  <2>1. PICK s \in {"completed", "failed"} : rows' = Update(i, WithStatus(i, s))
    BY <1>2 DEF MarkProcessCompleted, FailProcessRpc
  <2> QED
    BY <2>1, RewriteFields
<1>3. ASSUME CronClaim
      PROVE  \E e \in Row : Inserts(e)
  <2> DEFINE e == NewRow("active", 0, NextId, "cron")
  <2>1. e \in Row /\ e.status = "active" /\ e.parent = 0 /\ e.root = NextId /\ e.origin = "cron"
    BY <1>0 DEF NewRow, Row, Origins
  <2> QED
    BY <1>3, <2>1 DEF CronClaim, Inserts, Linked
<1>4. ASSUME NEW i \in Ids, NEW s \in {"completed", "failed"}, CronFinish(i, s)
      PROVE  \E e \in Row : Rewrites(i, e)
  <2>1. rows' = Update(i, WithStatus(i, s))
    BY <1>4 DEF CronFinish
  <2> QED
    BY <2>1, RewriteFields
<1> QED
  BY <1>1, <1>2, <1>3, <1>4 DEF Next, RawNext, Reaps, Prunes

-----------------------------------------------------------------------------
(* What each kind of step does to the table. *)

\* Every row keeps its lineage; only new rows are added behind.
Extends ==
  /\ DOMAIN rows \subseteq DOMAIN rows'
  /\ \A j \in DOMAIN rows : SameLine(rows'[j], rows[j])

LEMMA RewritesTable ==
  ASSUME TypeOK, NEW i \in Ids, NEW e \in Row, Rewrites(i, e)
  PROVE  /\ rows' \in Seq(Row)
         /\ DOMAIN rows' = DOMAIN rows
         /\ Ids' = Ids
         /\ \A j \in DOMAIN rows : rows'[j] = IF j = i THEN e ELSE rows[j]
         /\ Extends
<1>1. i \in DOMAIN rows
  BY DEF Ids
<1>2. /\ rows' \in Seq(Row)
      /\ DOMAIN rows' = DOMAIN rows
      /\ \A j \in DOMAIN rows : rows'[j] = IF j = i THEN e ELSE rows[j]
  BY <1>1, UpdateFacts DEF TypeOK, Rewrites
<1>3. Ids' = Ids
  BY <1>1, <1>2 DEF Ids, Rewrites
<1> QED
  BY <1>2, <1>3 DEF Extends, Rewrites, SameLine

LEMMA InsertsTable ==
  ASSUME TypeOK, NEW e \in Row, Inserts(e)
  PROVE  /\ rows' \in Seq(Row)
         /\ DOMAIN rows' = DOMAIN rows \cup {NextId}
         /\ Ids' = Ids \cup {NextId}
         /\ \A j \in DOMAIN rows : rows'[j] = rows[j]
         /\ rows'[NextId] = e
         /\ Extends
<1>1. /\ rows' \in Seq(Row)
      /\ DOMAIN rows' = DOMAIN rows \cup {NextId}
      /\ \A j \in DOMAIN rows : rows'[j] = rows[j]
      /\ rows'[NextId] = e
  BY AppendFacts DEF TypeOK, Inserts, NextId
<1>2. Ids' = Ids \cup {NextId}
  BY <1>1 DEF Ids, Inserts
<1> QED
  BY <1>1, <1>2 DEF Extends, SameLine

LEMMA SleepsTable ==
  ASSUME TypeOK, TxOK, ChainShape, NEW c \in Clients, SleepCommit(c)
  PROVE  LET i == tx[c].id IN
         /\ i \in Ids /\ rows[i].status = "active"
         /\ rows' \in Seq(Row)
         /\ DOMAIN rows' = DOMAIN rows \cup {NextId}
         /\ Ids' = Ids \cup {NextId}
         /\ \A j \in DOMAIN rows : j # i => rows'[j] = rows[j]
         /\ rows'[i].status = "completed"
         /\ rows'[NextId].status = "waiting"
         /\ rows'[NextId].origin = "sleep"
         /\ rows'[NextId].parent = i
         /\ rows'[NextId].root = rows[i].root
         /\ rows'[NextId].project = rows[i].project
         /\ Extends
<1> USE ConstantsAssumption DEF Baseline
<1> DEFINE i == tx[c].id
           e == [WithStatus(i, "completed") EXCEPT !.channel = Null]
           n == SleepSegment(c)
<1>1. /\ tx[c] \in Tx /\ tx[c].op = "sleep" /\ rows[i].status = "active"
      /\ rows' = Append(Update(i, e), n)
  BY DEF SleepCommit, SleepStillActive, TypeOK
<1>2. i \in DOMAIN rows /\ i \in Ids /\ rows[i] \in Row
  BY <1>1, RowsFacts DEF TxOK, TypeOK, Ids
<1>3. e \in Row /\ e.status = "completed" /\ SameLine(e, rows[i])
  BY <1>2 DEF WithStatus, Row, SameLine
<1>4. tx[c].root = rows[i].root /\ tx[c].project = rows[i].project
  BY <1>1 DEF TxOK
<1>5. /\ n \in Row /\ n.status = "waiting" /\ n.origin = "sleep" /\ n.parent = i
      /\ n.root = rows[i].root /\ n.project = rows[i].project
  BY <1>1, <1>4 DEF SleepSegment, NewRow, Row, Tx, Origins
<1>6. /\ Update(i, e) \in Seq(Row)
      /\ Len(Update(i, e)) = Len(rows)
      /\ DOMAIN Update(i, e) = DOMAIN rows
      /\ \A j \in DOMAIN rows : Update(i, e)[j] = IF j = i THEN e ELSE rows[j]
  <2> HIDE DEF e, n, i
  <2> QED
    BY <1>2, <1>3, UpdateFacts DEF TypeOK
<1>7. /\ rows' \in Seq(Row)
      /\ DOMAIN rows' = DOMAIN rows \cup {NextId}
      /\ \A j \in DOMAIN rows : rows'[j] = IF j = i THEN e ELSE rows[j]
      /\ rows'[NextId] = n
  <2> HIDE DEF e, n, i
  <2> QED
    BY <1>1, <1>5, <1>6, AppendFacts DEF NextId
<1>8. NextId \notin DOMAIN rows
  BY RowsFacts DEF TypeOK
<1> HIDE DEF e, n, i
<1>9. Ids' = Ids \cup {NextId}
  BY <1>2, <1>3, <1>5, <1>7, <1>8 DEF Ids
<1>10. Extends
  BY <1>3, <1>7 DEF Extends, SameLine
<1> QED
  BY <1>1, <1>2, <1>3, <1>5, <1>7, <1>8, <1>9, <1>10 DEF i

LEMMA ReapsTable ==
  ASSUME TypeOK, Reaps
  PROVE  /\ rows' \in Seq(Row)
         /\ DOMAIN rows' = DOMAIN rows
         /\ Ids' = Ids
         /\ \A j \in DOMAIN rows : rows'[j].status \in {rows[j].status, "failed"}
         /\ Extends
<1> USE ConstantsAssumption DEF Baseline
<1>1. PICK k \in Ids : ReapStalePending(k)
  BY DEF Reaps
<1>2. DOMAIN rows = 1..Len(rows) /\ Len(rows) \in Nat /\ \A j \in DOMAIN rows : rows[j] \in Row
  BY RowsFacts DEF TypeOK
<1>3. /\ DOMAIN rows' = DOMAIN rows
      /\ \A j \in DOMAIN rows : \/ rows'[j] = rows[j]
                                \/ rows[j].status = "pending" /\ rows'[j] = WithStatus(j, "failed")
  BY <1>1 DEF ReapStalePending
<1>4. \A j \in DOMAIN rows : WithStatus(j, "failed") \in Row
                           /\ WithStatus(j, "failed").status = "failed"
                           /\ SameLine(WithStatus(j, "failed"), rows[j])
  BY <1>2 DEF WithStatus, Row, SameLine
<1>5. rows' \in [1..Len(rows) -> Row]
  BY <1>1, <1>2, <1>4 DEF ReapStalePending
<1>6. rows' \in Seq(Row)
  BY <1>2, <1>5, SeqDef
<1>7. Ids' = Ids
  BY <1>3, <1>4 DEF Ids
<1>8. Extends
  BY <1>3, <1>4 DEF Extends, SameLine
<1> QED
  BY <1>3, <1>4, <1>6, <1>7, <1>8

LEMMA PrunesTable ==
  ASSUME TypeOK, NEW i \in Ids, PruneProcessRow(i)
  PROVE  /\ rows' \in Seq(Row)
         /\ DOMAIN rows' = DOMAIN rows
         /\ Ids' = Ids \ {i}
         /\ \A j \in DOMAIN rows : j # i => rows'[j] = rows[j]
         /\ rows'[i].status = "deleted"
         /\ Extends
<1> DEFINE e == [WithStatus(i, "deleted") EXCEPT !.channel = Null]
<1>1. i \in DOMAIN rows /\ rows[i] \in Row
  BY RowsFacts DEF TypeOK, Ids
<1>2. e \in Row /\ e.status = "deleted" /\ SameLine(e, rows[i])
  BY <1>1 DEF WithStatus, Row, SameLine
<1>3. rows' = Update(i, e)
  BY DEF PruneProcessRow
<1> HIDE DEF e
<1>4. /\ rows' \in Seq(Row)
      /\ DOMAIN rows' = DOMAIN rows
      /\ \A j \in DOMAIN rows : rows'[j] = IF j = i THEN e ELSE rows[j]
  BY <1>1, <1>2, <1>3, UpdateFacts DEF TypeOK
<1>5. Ids' = Ids \ {i}
  BY <1>2, <1>4 DEF Ids
<1>6. Extends
  BY <1>2, <1>4 DEF Extends, SameLine
<1> QED
  BY <1>1, <1>2, <1>4, <1>5, <1>6

-----------------------------------------------------------------------------
(* The inductive invariant. *)

LEMMA TxPreserved ==
  ASSUME TypeOK, TxOK, Extends, Next
  PROVE  TxOK'
<1> DEFINE Good(c) == tx'[c].op # "none" =>
                        /\ tx'[c].id \in DOMAIN rows
                        /\ tx'[c].root = rows[tx'[c].id].root
                        /\ tx'[c].op # "restart" => tx'[c].project = rows[tx'[c].id].project
<1>0. tx \in [Clients -> Tx]
  BY DEF TypeOK
<1>1. SUFFICES \A c \in Clients : Good(c)
  BY DEF TxOK, Extends, SameLine
<1>2. CASE tx' = tx
  BY <1>2 DEF TxOK
<1>3. ASSUME NEW c \in Clients, tx' = [tx EXCEPT ![c] = NoTx]
      PROVE  \A d \in Clients : Good(d)
  BY <1>0, <1>3 DEF TxOK, NoTx
<1>4. ASSUME NEW c \in Clients, NEW i \in Ids, SleepRead(c, i)
      PROVE  \A d \in Clients : Good(d)
  BY <1>0, <1>4 DEF TxOK, SleepRead, Ids
<1>5. ASSUME NEW c \in Clients, NEW i \in Ids, RestartRead(c, i)
      PROVE  \A d \in Clients : Good(d)
  BY <1>0, <1>5 DEF TxOK, RestartRead, NoTx, Ids
<1>6. \/ tx' = tx
      \/ \E c \in Clients : tx' = [tx EXCEPT ![c] = NoTx]
      \/ \E c \in Clients, i \in Ids : SleepRead(c, i) \/ RestartRead(c, i)
  <2>1. CASE ServiceNext
    BY <2>1 DEF ServiceNext, InitProcess, InitProcessRpc, Activate, Claim, Complete, Fail, Reset,
       Block, Guarded, UpdateChannel, SleepCommit, SleepAbort, RestartInsert, RestartAbort
  <2>2. CASE RawNext
    BY <2>2 DEF RawNext, MarkProcessCompleted, FailProcessRpc, CronClaim, CronFinish,
       ReapStalePending, PruneProcessRow
  <2> QED
    BY <2>1, <2>2 DEF Next
<1> HIDE DEF Good
<1> QED
  BY <1>2, <1>3, <1>4, <1>5, <1>6

\* A row stays where it is in the lineage as long as its parent and its root stay.
LEMMA StaysPlaced ==
  ASSUME TypeOK, Extends, NEW i \in Ids, Placed(i),
         rows[i].parent \in Ids' \cup {0}, rows[i].root \in Ids'
  PROVE  Placed(i)'
<1>1. /\ 0 \notin Ids
      /\ \A j \in Ids : j \in DOMAIN rows
      /\ \A j \in DOMAIN rows : SameLine(rows'[j], rows[j])
  BY RowsFacts DEF TypeOK, Ids, Extends
<1>2. /\ SameLine(rows'[i], rows[i])
      /\ rows[i].parent # 0 => SameLine(rows'[rows[i].parent], rows[rows[i].parent])
      /\ SameLine(rows'[rows[i].root], rows[rows[i].root])
  BY <1>1 DEF Placed
<1> QED
  BY <1>1, <1>2 DEF Placed, Continues, SameLine

LEMMA ShapePreserved ==
  ASSUME TypeOK, TxOK, ChainShape, Next
  PROVE  ChainShape' /\ Extends /\ rows' \in Seq(Row)
<1>0. /\ NextId \notin DOMAIN rows /\ NextId \in Nat \ {0} /\ Ids \subseteq DOMAIN rows
      /\ \A i \in DOMAIN rows : rows[i] \in Row /\ i \in Nat \ {0} /\ i < NextId
  BY RowsFacts DEF TypeOK, Ids
<1>1. CASE rows' = rows
  <2>1. Ids' = Ids
    BY <1>1 DEF Ids
  <2>2. Extends
    BY <1>1 DEF Extends, SameLine
  <2> QED
    BY <1>1, <2>1, <2>2, StaysPlaced DEF TypeOK, ChainShape, Placed
<1>2. ASSUME NEW i \in Ids, NEW e \in Row, Rewrites(i, e)
      PROVE  ChainShape' /\ Extends /\ rows' \in Seq(Row)
  <2>1. rows' \in Seq(Row) /\ Ids' = Ids /\ Extends
    BY <1>2, RewritesTable
  <2> QED
    BY <2>1, StaysPlaced DEF ChainShape, Placed
<1>n. PICK n \in Nat \ {0} : n = NextId
  BY <1>0
<1>3. ASSUME NEW e \in Row, Inserts(e)
      PROVE  ChainShape' /\ Extends /\ rows' \in Seq(Row)
  <2>1. /\ rows' \in Seq(Row)
        /\ Ids' = Ids \cup {n}
        /\ \A j \in Ids : rows'[j] = rows[j]
        /\ rows'[n] = e
        /\ Extends
    BY <1>0, <1>n, <1>3, InsertsTable
  <2>2. \A i \in Ids : Placed(i)'
    BY <2>1, StaysPlaced DEF ChainShape, Placed
  <2>3. Placed(n)'
    <3>1. e.parent \in Ids \cup {0} /\ e.origin # "sleep"
      BY <1>3 DEF Inserts, Linked
    <3>2. CASE e.root = n /\ e.origin \in {"init", "cron"}
      BY <1>0, <1>n, <2>1, <3>1, <3>2 DEF Placed, Continues
    <3>3. CASE e.parent # 0 /\ e.root = rows[e.parent].root
      <4>1. /\ e.parent \in Ids /\ e.parent < n
            /\ e.root \in Ids /\ e.root < n /\ rows[e.root].root = e.root
        BY <1>0, <1>n, <3>1, <3>3 DEF ChainShape, Placed
      <4> QED
        BY <1>0, <1>n, <2>1, <3>1, <3>3, <4>1 DEF Placed
    <3> QED
      BY <1>3, <1>n, <3>2, <3>3 DEF Inserts, Linked
  <2> QED
    BY <2>1, <2>2, <2>3 DEF ChainShape
<1>4. ASSUME NEW c \in Clients, SleepCommit(c)
      PROVE  ChainShape' /\ Extends /\ rows' \in Seq(Row)
  <2> DEFINE i == tx[c].id
  <2>1. /\ i \in Ids
        /\ rows' \in Seq(Row)
        /\ Ids' = Ids \cup {n}
        /\ rows'[n].origin = "sleep"
        /\ rows'[n].parent = i
        /\ rows'[n].root = rows[i].root
        /\ rows'[n].project = rows[i].project
        /\ Extends
    BY <1>n, <1>4, SleepsTable
  <2> HIDE DEF i
  <2>2. \A j \in Ids : Placed(j)'
    BY <2>1, StaysPlaced DEF ChainShape, Placed
  <2>3. Placed(n)'
    <3>1. /\ i < n /\ i \in Nat \ {0}
          /\ rows[i].root \in Ids /\ rows[i].root < n
          /\ rows[rows[i].root].root = rows[i].root
      BY <1>0, <1>n, <2>1 DEF ChainShape, Placed
    <3>2. SameLine(rows'[i], rows[i]) /\ SameLine(rows'[rows[i].root], rows[rows[i].root])
      BY <1>0, <1>n, <2>1, <3>1 DEF Extends
    <3> QED
      BY <1>0, <1>n, <2>1, <3>1, <3>2 DEF Placed, SameLine
  <2> QED
    BY <2>1, <2>2, <2>3 DEF ChainShape
<1>5. CASE Reaps
  <2>1. rows' \in Seq(Row) /\ Ids' = Ids /\ Extends
    BY <1>5, ReapsTable
  <2> QED
    BY <2>1, StaysPlaced DEF ChainShape, Placed
<1>6. ASSUME NEW i \in Ids, PruneProcessRow(i)
      PROVE  ChainShape' /\ Extends /\ rows' \in Seq(Row)
  <2>1. rows' \in Seq(Row) /\ Ids' = Ids \ {i} /\ Extends
    BY <1>6, PrunesTable
  <2>2. \A j \in Ids \ {i} : rows[j].parent # i /\ rows[j].root # i
    BY <1>6 DEF PruneProcessRow
  <2> QED
    BY <2>1, <2>2, StaysPlaced DEF ChainShape, Placed
<1> QED
  BY <1>1, <1>2, <1>3, <1>4, <1>5, <1>6, Kinds DEF Sleeps, Prunes

LEMMA TypePreserved ==
  ASSUME TypeOK, TxOK, ChainShape, Next
  PROVE  TypeOK'
<1>0. rows \in Seq(Row) /\ tx \in [Clients -> Tx] /\ rejected \subseteq {"block", "sleep"}
  BY DEF TypeOK
<1>1. rows' \in Seq(Row)
  BY ShapePreserved
<1>2. NoTx \in Tx
  BY DEF NoTx, Tx
<1>3. \A i \in Ids : i \in Nat /\ rows[i].root \in Nat /\ rows[i].channel \in Channels \cup {Null}
                   /\ rows[i].project \in Projects \cup {Null}
  BY <1>0, RowsFacts DEF Ids, Row
<1>4. tx' \in [Clients -> Tx]
  <2>1. ASSUME NEW c \in Clients, NEW i \in Ids, SleepRead(c, i)
        PROVE  tx' \in [Clients -> Tx]
    BY <1>0, <1>3, <2>1 DEF SleepRead, Tx
  <2>2. ASSUME NEW c \in Clients, NEW i \in Ids, RestartRead(c, i)
        PROVE  tx' \in [Clients -> Tx]
    BY <1>0, <1>3, <2>2 DEF RestartRead, NoTx, Tx
  <2>3. ASSUME NEW c \in Clients, SleepCommit(c) \/ SleepAbort(c) \/ RestartInsert(c) \/ RestartAbort(c)
        PROVE  tx' \in [Clients -> Tx]
    BY <1>0, <1>2, <2>3 DEF SleepCommit, SleepAbort, RestartInsert, RestartAbort
  <2>4. CASE ServiceNext
    BY <1>0, <2>1, <2>2, <2>3, <2>4 DEF ServiceNext, InitProcess, InitProcessRpc, Activate,
       Claim, Complete, Fail, Reset, Block, Guarded, UpdateChannel
  <2>5. CASE RawNext
    BY <1>0, <2>5 DEF RawNext, MarkProcessCompleted, FailProcessRpc, CronClaim, CronFinish,
       ReapStalePending, PruneProcessRow
  <2> QED
    BY <2>4, <2>5 DEF Next
<1>5. rejected' \subseteq {"block", "sleep"}
  <2>1. CASE ServiceNext
    BY <1>0, <2>1 DEF ServiceNext, InitProcess, InitProcessRpc, Activate, Claim, Complete, Fail, Reset,
       Block, Guarded, UpdateChannel, SleepRead, SleepCommit, SleepAbort, RestartRead,
       RestartInsert, RestartAbort
  <2>2. CASE RawNext
    BY <1>0, <2>2 DEF RawNext, MarkProcessCompleted, FailProcessRpc, CronClaim, CronFinish,
       ReapStalePending, PruneProcessRow
  <2> QED
    BY <2>1, <2>2 DEF Next
<1> QED
  BY <1>1, <1>4, <1>5 DEF TypeOK

\* The invariant that makes lineage inductive: the table is well typed, lineage is
\* sound, and what an open sleep or restart has read of it is still so.
THEOREM Invariance == Spec => []IInv
<1>1. Init => IInv
  <2> SUFFICES ASSUME Init PROVE IInv
    OBVIOUS
  <2>1. rows \in Seq(Row) /\ Ids = {}
    BY EmptySeq DEF Init, Ids
  <2> QED
    BY <2>1 DEF Init, IInv, TypeOK, TxOK, ChainShape, NoTx, Tx
<1>2. IInv /\ [Next]_vars => IInv'
  <2> SUFFICES ASSUME IInv, [Next]_vars PROVE IInv'
    OBVIOUS
  <2>1. CASE Next
    BY <2>1, TypePreserved, ShapePreserved, TxPreserved DEF IInv
  <2>2. CASE UNCHANGED vars
    BY <2>2 DEF IInv, vars, TypeOK, TxOK, ChainShape, Placed, Continues, Ids
  <2> QED
    BY <2>1, <2>2
<1> QED
  BY <1>1, <1>2, PTL DEF Spec

\* Every status a writer stores is one that the CHECK constraint admits, and an open
\* operation has read values of a row.
THEOREM TypeCorrect == Spec => []TypeOK
<1>1. IInv => TypeOK
  BY DEF IInv
<1> QED
  BY <1>1, Invariance, PTL

\* Lineage is sound whoever writes or deletes rows, and however many rows there are.
THEOREM Lineage == Spec => []ChainShape
<1>1. IInv => ChainShape
  BY DEF IInv
<1> QED
  BY <1>1, Invariance, PTL

-----------------------------------------------------------------------------
(* Action properties under every writer. *)

\* However many clients, loops and schedulers write the table, the segment that waits is
\* made in the step that completes the segment that was active.
THEOREM HandOver == Spec => SleepHandsOver
<1> DEFINE A == \A i \in DOMAIN rows' :
                  i \notin DOMAIN rows /\ rows'[i].origin = "sleep" =>
                    /\ rows[rows'[i].parent].status = "active"
                    /\ rows'[rows'[i].parent].status = "completed"
<1>1. IInv /\ [Next]_vars => [A]_vars
  <2> SUFFICES ASSUME IInv, Next PROVE A
    OBVIOUS
  <2>1. CASE rows' = rows \/ Reaps
    BY <2>1, ReapsTable DEF IInv
  <2>2. CASE (\E i \in Ids, e \in Row : Rewrites(i, e)) \/ Prunes
    BY <2>2, RewritesTable, PrunesTable DEF IInv, Prunes
  <2>3. ASSUME NEW e \in Row, Inserts(e) PROVE A
    BY <2>3, InsertsTable DEF IInv, Inserts
  <2>4. ASSUME NEW c \in Clients, SleepCommit(c) PROVE A
    BY <2>4, SleepsTable DEF IInv
  <2> HIDE DEF A
  <2> QED
    BY <2>1, <2>2, <2>3, <2>4, Kinds DEF IInv, Sleeps
<1> QED
  BY <1>1, Invariance, PTL DEF Spec, SleepHandsOver

\* However many schedulers race for it, a segment leaves `waiting` once and for all.
THEOREM WokenOnce == Spec => WokenAtMostOnce
<1> DEFINE A == \A i \in DOMAIN rows' :
                  rows'[i].status = "waiting" =>
                    IF i \in DOMAIN rows THEN rows[i].status = "waiting" ELSE rows'[i].origin = "sleep"
<1>1. IInv /\ [Next]_vars => [A]_vars
  <2> SUFFICES ASSUME IInv, Next PROVE A
    OBVIOUS
  <2>1. CASE rows' = rows \/ Reaps
    BY <2>1, ReapsTable DEF IInv
  <2>2. ASSUME NEW i \in Ids, NEW e \in Row, Rewrites(i, e) PROVE A
    BY <2>2, RewritesTable DEF IInv, Rewrites
  <2>3. CASE Prunes
    BY <2>3, PrunesTable DEF IInv, Prunes
  <2>4. ASSUME NEW e \in Row, Inserts(e) PROVE A
    BY <2>4, InsertsTable DEF IInv, Inserts
  <2>5. ASSUME NEW c \in Clients, SleepCommit(c) PROVE A
    BY <2>5, SleepsTable DEF IInv
  <2> HIDE DEF A
  <2> QED
    BY <2>1, <2>2, <2>3, <2>4, <2>5, Kinds DEF IInv, Sleeps
<1> QED
  BY <1>1, Invariance, PTL DEF Spec, WokenAtMostOnce

-----------------------------------------------------------------------------
(* ProcessesService alone. *)

LEMMA ServiceInvariance == ServiceSpec => []IInv
<1>1. ServiceSpec => Spec
  <2>1. [ServiceNext]_vars => [Next]_vars
    BY DEF Next
  <2> QED
    BY <2>1, PTL DEF ServiceSpec, Spec
<1> QED
  BY <1>1, Invariance, PTL

LEMMA CompletedStays ==
  ASSUME IInv, ServiceNext
  PROVE  \A i \in Ids : i \in Ids' /\ (rows[i].status = "completed" => rows'[i].status = "completed")
<1>0. Ids \subseteq DOMAIN rows
  BY DEF Ids
<1>1. CASE rows' = rows
  BY <1>1 DEF Ids
<1>2. ASSUME NEW i \in Ids, NEW e \in Row,
             ServiceStep(rows[i].status, e.status), Rewrites(i, e)
      PROVE  \A j \in Ids : j \in Ids' /\ (rows[j].status = "completed" => rows'[j].status = "completed")
  BY <1>0, <1>2, RewritesTable DEF IInv, ServiceStep
<1>3. ASSUME NEW e \in Row, Inserts(e)
      PROVE  \A j \in Ids : j \in Ids' /\ (rows[j].status = "completed" => rows'[j].status = "completed")
  BY <1>0, <1>3, InsertsTable DEF IInv
<1>4. ASSUME NEW c \in Clients, SleepCommit(c)
      PROVE  \A j \in Ids : j \in Ids' /\ (rows[j].status = "completed" => rows'[j].status = "completed")
  BY <1>0, <1>4, SleepsTable DEF IInv
<1> QED
  BY <1>1, <1>2, <1>3, <1>4, ServiceKinds DEF IInv, ServiceInserts, Sleeps

\* No operation of ProcessesService, in any interleaving, changes the status of a
\* completed segment.
THEOREM CompletedForever == ServiceSpec => CompletedIsFinal
<1>1. IInv /\ [ServiceNext]_vars
        => [\A i \in Ids : rows[i].status = "completed" => rows'[i].status = "completed"]_vars
  BY CompletedStays
<1> QED
  BY <1>1, ServiceInvariance, PTL DEF ServiceSpec, CompletedIsFinal

LEMMA SleepsOncePreserved ==
  ASSUME IInv, SleepsOnce, ServiceNext
  PROVE  SleepsOnce'
<1> DEFINE Slept(i) == i \in Ids /\ rows[i].origin = "sleep"
<1>0. /\ Ids \subseteq DOMAIN rows
      /\ \A i \in Ids : rows[i].origin = "sleep" => rows[i].parent \in Ids
      /\ \A i \in Ids : i \in Ids' /\ (rows[i].status = "completed" => rows'[i].status = "completed")
  BY CompletedStays DEF IInv, ChainShape, Placed, Continues, Ids
\* A step that makes no segment by sleep keeps the property.
<1>1. ASSUME Extends, \A i \in Ids' : rows'[i].origin = "sleep" => i \in Ids
      PROVE  SleepsOnce'
  BY <1>0, <1>1 DEF SleepsOnce, Extends, SameLine
<1>2. CASE rows' = rows
  BY <1>1, <1>2 DEF Extends, SameLine, Ids
<1>3. ASSUME NEW i \in Ids, NEW e \in Row, Rewrites(i, e)
      PROVE  SleepsOnce'
  BY <1>1, <1>3, RewritesTable DEF IInv
<1>4. ASSUME NEW e \in Row, Inserts(e)
      PROVE  SleepsOnce'
  BY <1>1, <1>4, InsertsTable DEF IInv, Inserts
\* A sleep takes an active segment, which no segment has been made of.
<1>5. ASSUME NEW c \in Clients, SleepCommit(c)
      PROVE  SleepsOnce'
  <2>1. PICK n : n = NextId
    OBVIOUS
  <2>2. PICK i \in Ids :
          /\ rows[i].status = "active"
          /\ Ids' = Ids \cup {n}
          /\ rows'[i].status = "completed"
          /\ rows'[n].parent = i
          /\ Extends
    BY <1>5, <2>1, SleepsTable DEF IInv
  <2>3. \A j \in Ids : SameLine(rows'[j], rows[j])
    BY <1>0, <2>2 DEF Extends
  <2>4. \A j \in Ids : rows[j].origin = "sleep" => rows[j].parent # i
    BY <2>2 DEF SleepsOnce
  <2> QED
    BY <1>0, <2>2, <2>3, <2>4 DEF SleepsOnce, SameLine
<1> QED
  BY <1>2, <1>3, <1>4, <1>5, ServiceKinds DEF IInv, ServiceInserts, Sleeps

\* For any number of clients and rows, a segment is continued by at most one sleep and is
\* completed from then on.
THEOREM SleepsAtMostOnce == ServiceSpec => []SleepsOnce
<1>1. Init => SleepsOnce
  BY DEF Init, SleepsOnce, Ids
<1>2. IInv /\ SleepsOnce /\ [ServiceNext]_vars => SleepsOnce'
  <2>1. IInv /\ SleepsOnce /\ UNCHANGED vars => SleepsOnce'
    BY DEF vars, SleepsOnce, Ids
  <2> QED
    BY <2>1, SleepsOncePreserved
<1> QED
  BY <1>1, <1>2, ServiceInvariance, PTL DEF ServiceSpec

-----------------------------------------------------------------------------
(* ProcessesService implements the logical process. *)

\* f maps every row to the first row of its line.
HeadsOf(f) == f = [i \in Ids |-> IF rows[i].origin = "sleep" THEN f[rows[i].parent] ELSE i]

\* The recursion of HeadOf is well founded.  That is shown along the behaviour, one row
\* after the other, and not by induction over the table.
HeadsDefined == \E f : HeadsOf(f) /\ \A g : HeadsOf(g) => g = f

\* Every line begins with a head and has a last segment, and a segment that is not
\* completed is the last of its line.
LinesOK ==
  /\ HeadsDefined
  /\ \A i \in Ids : HeadOf[i] \in Heads
  /\ \A h \in Heads : \E i \in Ids : IsTip(h, i)
  /\ \A i \in Ids : rows[i].status # "completed" => IsTip(HeadOf[i], i)

LEMMA HeadOfEquation ==
  ASSUME HeadsDefined
  PROVE  HeadsOf(HeadOf) /\ \A g : HeadsOf(g) => g = HeadOf
<1>1. HeadOf = CHOOSE f : HeadsOf(f)
  BY DEF HeadOf, HeadsOf
<1> QED
  BY <1>1 DEF HeadsDefined

\* A function that alone satisfies the equation in the next state is HeadOf there.
LEMMA HeadOfNext ==
  ASSUME NEW f, HeadsOf(f)', \A g : HeadsOf(g)' => g = f
  PROVE  HeadOf' = f /\ HeadsDefined'
<1>1. HeadOf' = CHOOSE g : HeadsOf(g)'
  BY DEF HeadOf, HeadsOf
<1> QED
  BY <1>1 DEF HeadsDefined

LEMMA TipUnique ==
  ASSUME TypeOK, NEW h, NEW i \in Ids, IsTip(h, i)
  PROVE  /\ Tip(h) = i
         /\ \A j \in Ids : IsTip(h, j) => j = i
<1>1. Ids \subseteq Nat
  BY RowsFacts DEF TypeOK, Ids
<1>2. \A j \in Ids : IsTip(h, j) => j = i
  BY <1>1 DEF IsTip
<1> QED
  BY <1>2 DEF Tip

LEMMA TipUniqueNext ==
  ASSUME rows' \in Seq(Row), NEW h, NEW i \in Ids', IsTip(h, i)'
  PROVE  Tip(h)' = i
<1>1. Ids' \subseteq Nat
  BY LenProperties DEF Ids
<1>2. \A j \in Ids' : IsTip(h, j)' => j = i
  BY <1>1 DEF IsTip
<1> QED
  BY <1>2 DEF Tip

\* Whatever the service does to a row in place, lines stay as they are.
LEMMA LinesKept ==
  ASSUME TypeOK, ChainShape, LinesOK, Extends, Ids' = Ids
  PROVE  /\ HeadOf' = HeadOf
         /\ Heads' = Heads
         /\ HeadsDefined'
         /\ \A h, i : IsTip(h, i)' <=> IsTip(h, i)
         /\ \A h : Tip(h)' = Tip(h)
<1>1. \A i \in Ids : rows'[i].parent = rows[i].parent /\ rows'[i].origin = rows[i].origin
  BY DEF Extends, SameLine, Ids
<1>2. \A f : HeadsOf(f)' <=> HeadsOf(f)
  BY <1>1 DEF HeadsOf
<1>3. HeadOf' = HeadOf /\ HeadsDefined'
  BY <1>2, HeadOfEquation, HeadOfNext DEF LinesOK
<1>4. Heads' = Heads
  BY <1>1 DEF Heads
<1>5. \A h, i : IsTip(h, i)' <=> IsTip(h, i)
  BY <1>3 DEF IsTip
<1>6. \A h : Tip(h)' = Tip(h)
  BY <1>3 DEF Tip, IsTip
<1> QED
  BY <1>3, <1>4, <1>5, <1>6

\* A row that is added begins a line or becomes the last segment of its parent's.
LEMMA LinesGrow ==
  ASSUME TypeOK, ChainShape, LinesOK, Extends,
         NEW n \in Nat, n \notin Ids, \A j \in Ids : j \in Nat /\ j < n,
         Ids' = Ids \cup {n},
         rows'[n].origin = "sleep" => rows'[n].parent \in Ids,
         NEW h, h = IF rows'[n].origin = "sleep" THEN HeadOf[rows'[n].parent] ELSE n
  PROVE  /\ HeadOf' = [i \in Ids \cup {n} |-> IF i = n THEN h ELSE HeadOf[i]]
         /\ Heads' = Heads \cup {h}
         /\ HeadsDefined'
         /\ IsTip(h, n)'
         /\ \A g, i : g # h /\ i \in Ids /\ IsTip(g, i) => IsTip(g, i)'
<1>1. \A i \in Ids : /\ rows'[i].parent = rows[i].parent
                     /\ rows'[i].origin = rows[i].origin
                     /\ rows[i].origin = "sleep" => rows[i].parent \in Ids
  BY DEF Extends, SameLine, Ids, ChainShape, Placed, Continues
<1>2. HeadsOf(HeadOf) /\ \A g : HeadsOf(g) => g = HeadOf
  BY HeadOfEquation DEF LinesOK
<1>f. PICK f : f = [i \in Ids \cup {n} |-> IF i = n THEN h ELSE HeadOf[i]]
  OBVIOUS
<1>3. HeadsOf(f)'
  <2>1. \A i \in Ids : HeadOf[i] = IF rows[i].origin = "sleep" THEN HeadOf[rows[i].parent] ELSE i
    BY <1>2 DEF HeadsOf
  <2>2. \A i \in Ids \cup {n} : f[i] = IF rows'[i].origin = "sleep" THEN f[rows'[i].parent] ELSE i
    BY <1>1, <1>f, <2>1
  <2>3. f = [i \in Ids' |-> IF rows'[i].origin = "sleep" THEN f[rows'[i].parent] ELSE i]
    <3>1. f = [i \in Ids \cup {n} |-> f[i]]
      BY <1>f
    <3> QED
      BY <2>2, <3>1
  <2> QED
    BY <2>3 DEF HeadsOf
<1>4. ASSUME NEW g, HeadsOf(g)' PROVE g = f
  <2>1. g = [i \in Ids' |-> IF rows'[i].origin = "sleep" THEN g[rows'[i].parent] ELSE i]
    BY <1>4 DEF HeadsOf
  <2>2. \A i \in Ids \cup {n} : g[i] = IF rows'[i].origin = "sleep" THEN g[rows'[i].parent] ELSE i
    BY <2>1
  <2>r. PICK r : r = [i \in Ids |-> g[i]]
    OBVIOUS
  <2>3. \A i \in Ids : r[i] = IF rows[i].origin = "sleep" THEN r[rows[i].parent] ELSE i
    BY <1>1, <2>2, <2>r
  <2>4. r = [i \in Ids |-> IF rows[i].origin = "sleep" THEN r[rows[i].parent] ELSE i]
    <3>1. r = [i \in Ids |-> r[i]]
      BY <2>r
    <3> QED
      BY <2>3, <3>1
  <2>5. \A i \in Ids : g[i] = HeadOf[i]
    BY <1>2, <2>4, <2>r DEF HeadsOf
  <2>6. g[n] = h
    BY <2>2, <2>5
  <2>7. g = [i \in Ids \cup {n} |-> g[i]]
    BY <2>1
  <2> QED
    BY <1>f, <2>5, <2>6, <2>7
<1>5. HeadOf' = f /\ HeadsDefined'
  BY <1>3, <1>4, HeadOfNext
<1>6. Heads' = Heads \cup {h}
  <2>1. Heads' = {i \in Ids \cup {n} : rows'[i].origin # "sleep"}
    BY DEF Heads
  <2>2. rows'[n].origin = "sleep" => h \in Heads
    BY DEF LinesOK
  <2> QED
    BY <1>1, <2>1, <2>2 DEF Heads
<1>7. IsTip(h, n)'
  <2>1. \A j \in Ids \cup {n} : j <= n
    OBVIOUS
  <2>2. HeadOf'[n] = h
    BY <1>5, <1>f
  <2> QED
    BY <2>1, <2>2 DEF IsTip
<1>8. \A g, i : g # h /\ i \in Ids /\ IsTip(g, i) => IsTip(g, i)'
  <2>1. HeadOf'[n] = h /\ \A j \in Ids : HeadOf'[j] = HeadOf[j]
    BY <1>5, <1>f
  <2> QED
    BY <2>1 DEF IsTip
<1> QED
  BY <1>5, <1>6, <1>7, <1>8, <1>f

LEMMA RewriteImplements ==
  ASSUME IInv, LinesOK, NEW i \in Ids, NEW e \in Row,
         ServiceStep(rows[i].status, e.status), Rewrites(i, e)
  PROVE  LinesOK' /\ [Logical!Next]_Phase
<1>1. /\ Ids' = Ids /\ Ids \subseteq DOMAIN rows
      /\ Extends
      /\ rows'[i] = e
      /\ \A j \in Ids : j # i => rows'[j] = rows[j]
  BY RewritesTable DEF IInv, Ids
<1>2. /\ HeadOf' = HeadOf
      /\ Heads' = Heads
      /\ HeadsDefined'
      /\ \A h, j : IsTip(h, j)' <=> IsTip(h, j)
      /\ \A h : Tip(h)' = Tip(h)
  BY <1>1, LinesKept DEF IInv
<1>3. LinesOK'
  <2>1. \A j \in Ids : rows'[j].status # "completed" => rows[j].status # "completed"
    BY <1>1 DEF ServiceStep
  <2> QED
    BY <1>1, <1>2, <2>1 DEF LinesOK
<1>4. Phase' = [h \in Heads |-> PhaseOfStatus(rows'[Tip(h)].status)]
  BY <1>2 DEF Phase
<1>5. \A h \in Heads : Tip(h) \in Ids /\ IsTip(h, Tip(h))
  BY TipUnique DEF IInv, LinesOK
<1>6. CASE e.status = rows[i].status
  <2>1. \A j \in Ids : rows'[j].status = rows[j].status
    BY <1>1, <1>6
  <2>2. Phase' = Phase
    BY <1>4, <1>5, <2>1 DEF Phase
  <2> QED
    BY <1>3, <2>2
<1>7. CASE e.status # rows[i].status
  <2>h. PICK h \in Heads : h = HeadOf[i]
    BY DEF LinesOK
  <2>1. IsTip(h, i) /\ Tip(h) = i
    BY <1>7, <2>h, TipUnique DEF IInv, LinesOK, ServiceStep
  <2>2. \A g \in Heads : g # h => Tip(g) # i
    BY <1>5, <2>h DEF IsTip
  <2>3. h \in DOMAIN Phase /\ Phase[h] = PhaseOfStatus(rows[i].status)
    BY <2>1 DEF Phase
  <2>4. Phase' = [Phase EXCEPT ![h] = PhaseOfStatus(e.status)]
    BY <1>1, <1>4, <1>5, <2>1, <2>2 DEF Phase
  <2>5. \/ Logical!Start(h) \/ Logical!Wake(h) \/ Logical!Finish(h)
        \/ Logical!Halt(h) \/ Logical!Break(h) \/ Logical!Retry(h)
    BY <1>7, <2>3, <2>4 DEF ServiceStep, PhaseOfStatus, Logical!Move, Logical!Start, Logical!Wake,
       Logical!Finish, Logical!Halt, Logical!Break, Logical!Retry
  <2> QED
    BY <1>3, <2>3, <2>5 DEF Logical!Next
<1> QED
  BY <1>6, <1>7

\* A row that init or restart makes is a new process, which is pending.
LEMMA InsertImplements ==
  ASSUME IInv, LinesOK, NEW e \in Row, ServiceInserts(e)
  PROVE  LinesOK' /\ [Logical!Next]_Phase
<1>n. PICK n \in Nat : n = NextId
  BY RowsFacts DEF IInv, TypeOK
<1>1. n \in 1..MaxRows /\ n \notin Ids /\ \A j \in Ids : j \in Nat /\ j < n
  BY <1>n, RowsFacts, ConstantsAssumption DEF IInv, TypeOK, Ids, ServiceInserts, HasRoom, NextId
<1>2. /\ rows' \in Seq(Row)
      /\ Ids' = Ids \cup {n}
      /\ \A j \in Ids : rows'[j] = rows[j]
      /\ rows'[n] = e /\ e.origin # "sleep"
      /\ Extends
  BY <1>n, InsertsTable DEF IInv, Ids, ServiceInserts, Inserts
<1>3. /\ HeadOf' = [i \in Ids \cup {n} |-> IF i = n THEN n ELSE HeadOf[i]]
      /\ Heads' = Heads \cup {n}
      /\ HeadsDefined'
      /\ IsTip(n, n)'
      /\ \A g, i : g # n /\ i \in Ids /\ IsTip(g, i) => IsTip(g, i)'
  BY <1>1, <1>2, LinesGrow DEF IInv
<1>4. Heads \subseteq Ids
  BY DEF Heads
<1>5. LinesOK'
  <2>1. \A i \in Ids : HeadOf'[i] = HeadOf[i] /\ HeadOf'[i] \in Heads /\ HeadOf'[n] = n
    BY <1>1, <1>3 DEF LinesOK
  <2>2. \A h \in Heads' : \E i \in Ids' : IsTip(h, i)'
    BY <1>1, <1>2, <1>3, <1>4 DEF LinesOK
  <2>3. \A i \in Ids : rows'[i].status # "completed" => IsTip(HeadOf[i], i)'
    BY <1>1, <1>2, <1>3, <1>4 DEF LinesOK
  <2> QED
    BY <1>2, <1>3, <2>1, <2>2, <2>3 DEF LinesOK
<1>6. \A h \in Heads : Tip(h)' = Tip(h) /\ Tip(h) \in Ids
  <2> SUFFICES ASSUME NEW h \in Heads PROVE Tip(h)' = Tip(h) /\ Tip(h) \in Ids
    OBVIOUS
  <2>1. PICK i \in Ids : IsTip(h, i)
    BY DEF LinesOK
  <2>2. IsTip(h, i)' /\ i \in Ids'
    BY <1>1, <1>2, <1>3, <1>4, <2>1
  <2> QED
    BY <1>2, <2>1, <2>2, TipUnique, TipUniqueNext DEF IInv
<1>7. Tip(n)' = n
  BY <1>2, <1>3, TipUniqueNext
<1>8. n \notin DOMAIN Phase
  BY <1>1, <1>4 DEF Phase
<1>9. Phase' = [h \in Heads \cup {n} |-> IF h = n THEN "pending" ELSE Phase[h]]
  <2>1. Phase' = [h \in Heads \cup {n} |-> PhaseOfStatus(rows'[Tip(h)'].status)]
    BY <1>3 DEF Phase
  <2>2. PhaseOfStatus(rows'[Tip(n)'].status) = "pending"
    BY <1>2, <1>7 DEF ServiceInserts, PhaseOfStatus
  <2>3. \A h \in Heads : PhaseOfStatus(rows'[Tip(h)'].status) = Phase[h]
    BY <1>2, <1>6 DEF Phase
  <2> QED
    BY <2>1, <2>2, <2>3
<1>10. Logical!Begin(n, "pending")
  <2>1. DOMAIN Phase = Heads
    BY DEF Phase
  <2> QED
    BY <1>8, <1>9, <2>1 DEF Logical!Begin
<1> QED
  BY <1>1, <1>5, <1>10 DEF Logical!Next

\* The transaction of sleep is one Nap: the segment that it completes was active, so it was
\* the last of its line, and the one that waits takes its place.
LEMMA SleepImplements ==
  ASSUME IInv, LinesOK, NEW c \in Clients, SleepCommit(c)
  PROVE  LinesOK' /\ [Logical!Next]_Phase
<1>n. PICK n \in Nat : n = NextId
  BY RowsFacts DEF IInv, TypeOK
<1>1. n \notin Ids /\ \A j \in Ids : j \in Nat /\ j < n
  BY <1>n, RowsFacts DEF IInv, TypeOK, Ids
<1>2. PICK i \in Ids :
        /\ rows[i].status = "active"
        /\ rows' \in Seq(Row)
        /\ Ids' = Ids \cup {n}
        /\ \A j \in Ids : j # i => rows'[j] = rows[j]
        /\ rows'[i].status = "completed"
        /\ rows'[n].status = "waiting"
        /\ rows'[n].origin = "sleep"
        /\ rows'[n].parent = i
        /\ Extends
  BY <1>n, SleepsTable DEF IInv, Ids
<1>h. PICK h \in Heads : h = HeadOf[i]
  BY DEF LinesOK
<1>3. /\ HeadOf' = [j \in Ids \cup {n} |-> IF j = n THEN h ELSE HeadOf[j]]
      /\ Heads' = Heads \cup {h}
      /\ HeadsDefined'
      /\ IsTip(h, n)'
      /\ \A g, j : g # h /\ j \in Ids /\ IsTip(g, j) => IsTip(g, j)'
  <2>1. h = IF rows'[n].origin = "sleep" THEN HeadOf[rows'[n].parent] ELSE n
    BY <1>2, <1>h
  <2>2. TypeOK /\ ChainShape /\ rows'[n].parent \in Ids /\ Extends /\ Ids' = Ids \cup {n}
    BY <1>2 DEF IInv
  <2> QED
    <3>1. HeadOf' = [j \in Ids \cup {n} |-> IF j = n THEN h ELSE HeadOf[j]]
      BY <1>1, <2>1, <2>2, LinesGrow
    <3>2. Heads' = Heads \cup {h}
      BY <1>1, <2>1, <2>2, LinesGrow
    <3>3. HeadsDefined'
      BY <1>1, <2>1, <2>2, LinesGrow
    <3>4. IsTip(h, n)'
      BY <1>1, <2>1, <2>2, LinesGrow
    <3>5. \A g, j : g # h /\ j \in Ids /\ IsTip(g, j) => IsTip(g, j)'
      BY <1>1, <2>1, <2>2, LinesGrow
    <3> QED
      BY <3>1, <3>2, <3>3, <3>4, <3>5
<1>4. Heads' = Heads
  BY <1>3
<1>5. IsTip(h, i) /\ Tip(h) = i
  BY <1>2, <1>h, TipUnique DEF IInv, LinesOK
<1>6. LinesOK'
  <2>1. \A j \in Ids : HeadOf'[j] = HeadOf[j] /\ HeadOf'[j] \in Heads /\ HeadOf'[n] = h
    BY <1>1, <1>3 DEF LinesOK
  <2>2. \A g \in Heads : \E j \in Ids' : IsTip(g, j)'
    BY <1>2, <1>3 DEF LinesOK
  <2>3. ASSUME NEW j \in Ids, rows'[j].status # "completed"
        PROVE  IsTip(HeadOf[j], j)'
    <3>1. j # i /\ rows[j].status # "completed" /\ IsTip(HeadOf[j], j)
      BY <1>2, <2>3 DEF LinesOK
    <3>2. HeadOf[j] # h
      BY <1>5, <3>1, TipUnique DEF IInv
    <3> QED
      BY <1>3, <3>1, <3>2
  <2>4. IsTip(HeadOf[n], n)'
    BY <1>3
  <2>5. \A j \in Ids' : rows'[j].status # "completed" => IsTip(HeadOf[j], j)'
    BY <1>2, <1>3, <2>1, <2>3, <2>4
  <2> QED
    BY <1>2, <1>3, <1>4, <2>1, <2>2, <2>5 DEF LinesOK
<1>7. ASSUME NEW g \in Heads, g # h
      PROVE  Tip(g)' = Tip(g) /\ Tip(g) \in Ids /\ Tip(g) # i
  <2>1. PICK j \in Ids : IsTip(g, j)
    BY DEF LinesOK
  <2>2. IsTip(g, j)' /\ j \in Ids' /\ j # i
    BY <1>2, <1>3, <1>5, <1>7, <2>1 DEF IsTip
  <2> QED
    BY <1>2, <2>1, <2>2, TipUnique, TipUniqueNext DEF IInv
<1>8. Tip(h)' = n
  BY <1>2, <1>3, TipUniqueNext
<1>9. h \in DOMAIN Phase /\ Phase[h] = "running"
  BY <1>2, <1>5 DEF Phase, PhaseOfStatus
<1>10. Phase' = [Phase EXCEPT ![h] = "asleep"]
  <2>1. Phase' = [g \in Heads |-> PhaseOfStatus(rows'[Tip(g)'].status)]
    BY <1>4 DEF Phase
  <2>2. PhaseOfStatus(rows'[Tip(h)'].status) = "asleep"
    BY <1>2, <1>8 DEF PhaseOfStatus
  <2>3. \A g \in Heads : g # h => PhaseOfStatus(rows'[Tip(g)'].status) = Phase[g]
    BY <1>2, <1>7 DEF Phase
  <2>4. DOMAIN Phase = Heads /\ Phase = [g \in Heads |-> Phase[g]]
    BY DEF Phase
  <2> QED
    BY <2>1, <2>2, <2>3, <2>4
<1>11. Logical!Nap(h)
  BY <1>9, <1>10 DEF Logical!Nap, Logical!Move
<1> QED
  BY <1>6, <1>9, <1>11 DEF Logical!Next

LEMMA ServiceSteps ==
  ASSUME IInv, LinesOK, [ServiceNext]_vars
  PROVE  LinesOK' /\ [Logical!Next]_Phase
<1>1. CASE rows' = rows
  <2>1. Ids' = Ids /\ Extends
    BY <1>1 DEF Ids, Extends, SameLine
  <2>2. /\ HeadOf' = HeadOf
        /\ Heads' = Heads
        /\ HeadsDefined'
        /\ \A h, i : IsTip(h, i)' <=> IsTip(h, i)
        /\ \A h : Tip(h)' = Tip(h)
    BY <2>1, LinesKept DEF IInv
  <2>3. LinesOK'
    BY <1>1, <2>1, <2>2 DEF LinesOK
  <2>4. Phase' = Phase
    BY <1>1, <2>2 DEF Phase
  <2> QED
    BY <2>3, <2>4
<1>2. CASE ServiceNext
  BY <1>1, <1>2, ServiceKinds, RewriteImplements, InsertImplements, SleepImplements DEF IInv, Sleeps
<1>3. CASE UNCHANGED vars
  BY <1>1, <1>3 DEF vars
<1> QED
  BY <1>2, <1>3

\* What makes the mapping work: a segment that is not completed is the last of its line.
LEMMA ServiceLines == ServiceSpec => []LinesOK
<1>1. Init => LinesOK
  <2> SUFFICES ASSUME Init PROVE LinesOK
    OBVIOUS
  <2>1. Ids = {}
    BY DEF Init, Ids
  <2>2. HeadsDefined
    BY <2>1 DEF HeadsDefined, HeadsOf
  <2> QED
    BY <2>1, <2>2 DEF LinesOK, Heads
<1>2. IInv /\ LinesOK /\ [ServiceNext]_vars => LinesOK'
  BY ServiceSteps
<1> QED
  BY <1>1, <1>2, ServiceInvariance, PTL DEF ServiceSpec

\* Whatever clients do at the same time and however many rows there are, ProcessesService
\* is the logical process seen through the last segments.
THEOREM ServiceImplements == ServiceSpec => ImplementsLogicalProcess
<1>1. Init => Logical!Init
  <2> SUFFICES ASSUME Init PROVE Logical!Init
    OBVIOUS
  <2>1. Heads = {}
    BY DEF Init, Ids, Heads
  <2> QED
    BY <2>1 DEF Phase, Logical!Init
<1>2. IInv /\ LinesOK /\ [ServiceNext]_vars => [Logical!Next]_Phase
  BY ServiceSteps
<1> QED
  BY <1>1, <1>2, ServiceInvariance, ServiceLines, PTL
     DEF ServiceSpec, ImplementsLogicalProcess, Logical!Spec
=============================================================================
