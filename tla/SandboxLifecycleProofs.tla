------------------------ MODULE SandboxLifecycleProofs ------------------------
(***************************************************************************)
(* Commands that do not overlap leave no VM behind and log in with a key   *)
(* that works, for any number of terminals, runs and faults.               *)
(*                                                                         *)
(* The argument: without an overlap all that is at work is at work for one *)
(* terminal and one run, and no deprovision beside a provision.  So the    *)
(* row a handler claimed or found is there until it is done with it, and   *)
(* the VM of the name is the one made for that row, with the key of that   *)
(* run.  The last section shows that whatever was left behind is out of    *)
(* the way after a few commands that do not fail.                          *)
(***************************************************************************)
EXTENDS SandboxLifecycle, TLAPS

At(p) == prov[p].pc

\* Who is at work: one terminal, and its deprovision only when its provisions are done.
Alone ==
  /\ \A p, q \in Tries : At(p) # "none" /\ At(q) # "none" => p[1] = q[1]
  /\ \A p \in Tries, t \in Terminals : At(p) # "none" => dep[t].pc = "none"
  /\ \A t, u \in Terminals : dep[t].pc # "none" /\ dep[u].pc # "none" => t = u
  /\ \A t, u \in Terminals : cli[t].pc # "idle" /\ dep[u].pc # "none" => t = u
  /\ \A t \in Terminals, p \in Tries : cli[t].pc # "idle" /\ At(p) # "none" => p[1] = t
  /\ \A t, u \in Terminals : cli[t].pc # "idle" /\ cli[u].pc # "idle" => t = u

OneAtWork == ~overlap => Alone

\* A command that waits for its sandbox has no deprovision at work.
CliAtWork == \A t \in Terminals : cli[t].pc \in {"asked", "again", "polling", "ssh"} => dep[t].pc = "none"

\* The row a handler claimed is there until it is done.
ClaimedRow ==
  \A p \in Tries : At(p) \in Claimed => prov[p].rid # 0 /\ (~overlap => row.id = prov[p].rid)

VmNamed == vm # NoVm => vm.rid # 0

\* What a deprovision goes on to delete is the VM there is.
DeleteKnows ==
  ~overlap /\ ~blind =>
    \A t \in Terminals :
      /\ dep[t].pc = "destroy" /\ vm # NoVm => vm.rid = dep[t].vm
      /\ dep[t].pc \in {"key", "forget"} => vm = NoVm

VmInv == TypeOK /\ OneAtWork /\ CliAtWork /\ ClaimedRow /\ VmNamed /\ DeleteKnows /\ VmHasRow

-----------------------------------------------------------------------------
\* The fields of the records the handlers are made of.
LEMMA RowFields ==
  ASSUME NEW id, NEW key, NEW hid, NEW active
  PROVE  /\ Row(id, key, hid, active).id = id /\ Row(id, key, hid, active).key = key
         /\ Row(id, key, hid, active).hid = hid /\ Row(id, key, hid, active).active = active
  BY DEF Row

LEMMA VmFields ==
  ASSUME NEW rid, NEW key, NEW told
  PROVE  Vm(rid, key, told).rid = rid /\ Vm(rid, key, told).key = key
  BY DEF Vm

LEMMA PostFields ==
  ASSUME NEW pc, NEW key, NEW rid
  PROVE  Post(pc, key, rid).pc = pc /\ Post(pc, key, rid).key = key /\ Post(pc, key, rid).rid = rid
  BY DEF Post

LEMMA DeleteFields ==
  ASSUME NEW pc, NEW rid, NEW v
  PROVE  Delete(pc, rid, v).pc = pc /\ Delete(pc, rid, v).rid = rid /\ Delete(pc, rid, v).vm = v
  BY DEF Delete

LEMMA CliFields ==
  ASSUME NEW pc, NEW key
  PROVE  Cli(pc, key).pc = pc /\ Cli(pc, key).key = key
  BY DEF Cli

\* Nobody is at work in the null records.
LEMMA Nulls ==
  /\ NoPost.pc = "none" /\ NoDelete.pc = "none" /\ Idle.pc = "idle"
  /\ NoRow.id = 0 /\ NoRow.key = 0 /\ NoRow.active = FALSE /\ NoVm.rid = 0
  BY DEF NoPost, Post, NoDelete, Delete, Idle, Cli, NoRow, Row, NoVm, Vm

Counters == rows \in Nat /\ runs \in 0..MaxRuns /\ faults \in 0..MaxFaults /\ row.id <= rows
Shapes ==
  /\ row \in Rows /\ vm \in Vms /\ sshKey \in Nat
  /\ cli \in [Terminals -> Clis] /\ prov \in [Tries -> Posts] /\ dep \in [Terminals -> Deletes]
  /\ entries \subseteq Nat
  /\ overlap \in BOOLEAN /\ blind \in BOOLEAN

LEMMA TypeParts == TypeOK <=> Shapes /\ Counters
  BY DEF TypeOK, Shapes, Counters

\* What the constructors make of numbers is of the right type.
LEMMA Shaped ==
  /\ \A key \in Nat, rid \in Nat :
       \A pc \in {"none", "limit", "claim", "refused", "failed", "ok", "key", "server", "persist"} :
         Post(pc, key, rid) \in Posts
  /\ \A rid \in Nat, v \in Nat :
       \A pc \in {"none", "find", "look", "destroy", "key", "forget"} : Delete(pc, rid, v) \in Deletes
  /\ \A key \in Nat : \A pc \in {"idle", "asked", "again", "polling", "ssh", "waiting", "cleaning"} : Cli(pc, key) \in Clis
  /\ \A id \in Nat, key \in Nat, hid \in BOOLEAN, active \in BOOLEAN : Row(id, key, hid, active) \in Rows
  /\ \A rid \in Nat, key \in Nat, told \in BOOLEAN : Vm(rid, key, told) \in Vms
  /\ NoPost \in Posts /\ NoDelete \in Deletes /\ Idle \in Clis /\ NoRow \in Rows /\ NoVm \in Vms
  BY DEF Post, Posts, Claimed, Delete, Deletes, Cli, Clis, Row, Rows, Vm, Vms,
         NoPost, NoDelete, Idle, NoRow, NoVm

\* What is in the records of the right type.
LEMMA FieldTypes ==
  /\ \A r \in Rows : r.id \in Nat /\ r.key \in Nat /\ r.hid \in BOOLEAN /\ r.active \in BOOLEAN
  /\ \A v \in Vms : v.rid \in Nat /\ v.key \in Nat /\ v.told \in BOOLEAN
  /\ \A c \in Clis : c.key \in Nat
  /\ \A h \in Posts : h.key \in Nat /\ h.rid \in Nat
  /\ \A d \in Deletes : d.rid \in Nat /\ d.vm \in Nat
  BY DEF Rows, Vms, Clis, Posts, Deletes

\* A try is made at a terminal.
LEMMA TryOf ==
  /\ \A t \in Terminals : <<t, 1>> \in Tries /\ <<t, 2>> \in Tries
  /\ \A p \in Tries : p[1] \in Terminals
  /\ \A t : <<t, 1>>[1] = t /\ <<t, 2>>[1] = t
  BY DEF Tries

-----------------------------------------------------------------------------
\* A handler goes on, or a request is served, in the records of the type.
LEMMA GoesTyped ==
  ASSUME prov \in [Tries -> Posts], NEW p \in Tries, NEW key \in Nat, NEW rid \in Nat,
         NEW pc \in {"none", "limit", "claim", "refused", "failed", "ok", "key", "server", "persist"},
         Goes(p, Post(pc, key, rid))
  PROVE  prov' \in [Tries -> Posts]
<1>1. Post(pc, key, rid) \in Posts
  BY Shaped
<1> QED
  BY <1>1 DEF Goes

LEMMA ServesTyped ==
  ASSUME dep \in [Terminals -> Deletes], NEW t \in Terminals, NEW rid \in Nat, NEW v \in Nat,
         NEW pc \in {"none", "find", "look", "destroy", "key", "forget"},
         Serves(t, Delete(pc, rid, v))
  PROVE  dep' \in [Terminals -> Deletes]
<1>1. Delete(pc, rid, v) \in Deletes
  BY Shaped
<1> QED
  BY <1>1 DEF Serves

LEMMA AnswersTyped ==
  ASSUME dep \in [Terminals -> Deletes], cli \in [Terminals -> Clis], NEW t \in Terminals, Answered(t)
  PROVE  dep' \in [Terminals -> Deletes] /\ cli' \in [Terminals -> Clis]
  BY Shaped DEF Answered, Deprovisioning, Serves

\* The row and the VM that a step makes.
LEMMA RowShaped ==
  ASSUME NEW id \in Nat, NEW key \in Nat, NEW hid \in BOOLEAN, NEW active \in BOOLEAN
  PROVE  Row(id, key, hid, active) \in Rows
  BY Shaped

LEMMA VmShaped ==
  ASSUME NEW rid \in Nat, NEW key \in Nat, NEW told \in BOOLEAN
  PROVE  Vm(rid, key, told) \in Vms
  BY Shaped

LEMMA OneMore ==
  ASSUME NEW n \in Nat
  PROVE  n + 1 \in Nat /\ n + 1 # 0
  OBVIOUS

\* Handlers of POST keep their type.
LEMMA ProvTyped ==
  Shapes /\ Counters /\ [Next]_vars => prov' \in [Tries -> Posts]
<1> SUFFICES ASSUME Shapes, Counters, [Next]_vars
             PROVE  prov' \in [Tries -> Posts]
  OBVIOUS
<1> USE DEF Shapes, server
<1>1. ASSUME NEW p \in Tries, CheckLimit(p) PROVE prov' \in [Tries -> Posts]
  BY <1>1, GoesTyped, FieldTypes DEF CheckLimit, Says
<1>2. ASSUME NEW p \in Tries, Claim(p) PROVE prov' \in [Tries -> Posts]
  <2>1. rows + 1 \in Nat /\ prov[p].key \in Nat
    BY OneMore, FieldTypes DEF Counters
  <2> QED
    BY <1>2, <2>1, GoesTyped DEF Claim, Says
<1>3. ASSUME NEW p \in Tries, RegisterKey(p) PROVE prov' \in [Tries -> Posts]
  BY <1>3, GoesTyped, FieldTypes DEF RegisterKey, Says
<1>4. ASSUME NEW p \in Tries, CreateServer(p) PROVE prov' \in [Tries -> Posts]
  BY <1>4, GoesTyped, FieldTypes DEF CreateServer, Says
<1>5. ASSUME NEW p \in Tries, Persist(p) PROVE prov' \in [Tries -> Posts]
  BY <1>5, GoesTyped, FieldTypes DEF Persist, Says
<1>6. ASSUME NEW p \in Tries, AnswerPost(p) PROVE prov' \in [Tries -> Posts]
  BY <1>6, Shaped DEF AnswerPost, Awaited, Goes
<1>7. ASSUME NEW p \in Tries, PostDies(p) PROVE prov' \in [Tries -> Posts]
  BY <1>7, Shaped DEF PostDies, Goes
<1>8. ASSUME NEW t \in Terminals, FindSandbox(t) PROVE prov' \in [Tries -> Posts]
  BY <1>8 DEF FindSandbox, AnswerDelete
<1>9. ASSUME NEW t \in Terminals, FindServerByName(t) PROVE prov' \in [Tries -> Posts]
  BY <1>9 DEF FindServerByName
<1>10. ASSUME NEW t \in Terminals, DestroyServer(t) PROVE prov' \in [Tries -> Posts]
  BY <1>10 DEF DestroyServer, AnswerDelete
<1>11. ASSUME NEW t \in Terminals, DropKey(t) PROVE prov' \in [Tries -> Posts]
  BY <1>11 DEF DropKey, AnswerDelete
<1>12. ASSUME NEW t \in Terminals, ForgetRow(t) PROVE prov' \in [Tries -> Posts]
  BY <1>12 DEF ForgetRow, AnswerDelete
<1>13. ASSUME NEW t \in Terminals, DeleteDies(t) PROVE prov' \in [Tries -> Posts]
  BY <1>13 DEF DeleteDies, AnswerDelete
<1>14. ASSUME NEW t \in Terminals, PollStatus(t) PROVE prov' \in [Tries -> Posts]
  BY <1>14 DEF PollStatus
<1>15. ASSUME NEW t \in Terminals, PollTimesOut(t) PROVE prov' \in [Tries -> Posts]
  BY <1>15 DEF PollTimesOut
<1>16. ASSUME NEW t \in Terminals, SshEnds(t) PROVE prov' \in [Tries -> Posts]
  BY <1>16 DEF SshEnds
<1>17. ASSUME NEW t \in Terminals, Provision(t) PROVE prov' \in [Tries -> Posts]
  <2>1. runs \in Nat
    BY SandboxAssumption DEF Counters
  <2>2. runs + 1 \in Nat /\ <<t, 1>> \in Tries
    BY <2>1, OneMore, TryOf
  <2> QED
    BY <1>17, <2>2, GoesTyped DEF Provision
<1>18. ASSUME NEW t \in Terminals, Deprovision(t) PROVE prov' \in [Tries -> Posts]
  BY <1>18 DEF Deprovision
<1>19. ASSUME NEW t \in Terminals, TryAgain(t) PROVE prov' \in [Tries -> Posts]
  BY <1>19, GoesTyped, TryOf, FieldTypes DEF TryAgain
<1>20. ASSUME NEW t \in Terminals, GivesUp(t) PROVE prov' \in [Tries -> Posts]
  BY <1>20 DEF GivesUp
<1>21. CASE Ready
  BY <1>21 DEF Ready
<1>22. CASE UNCHANGED vars
  BY <1>22 DEF vars, server, history
<1> QED
  BY <1>1, <1>2, <1>3, <1>4, <1>5, <1>6, <1>7, <1>8, <1>9, <1>10, <1>11, <1>12, <1>13, <1>14, <1>15, <1>16, <1>17, <1>18, <1>19, <1>20, <1>21, <1>22 DEF Next, PostStep, DeleteStep, CliStep

\* Handlers of DELETE keep their type.
LEMMA DepTyped ==
  Shapes /\ [Next]_vars => dep' \in [Terminals -> Deletes]
<1> SUFFICES ASSUME Shapes, [Next]_vars
             PROVE  dep' \in [Terminals -> Deletes]
  OBVIOUS
<1> USE DEF Shapes, server
<1>1. ASSUME NEW p \in Tries, CheckLimit(p) PROVE dep' \in [Terminals -> Deletes]
  BY <1>1 DEF CheckLimit
<1>2. ASSUME NEW p \in Tries, Claim(p) PROVE dep' \in [Terminals -> Deletes]
  BY <1>2 DEF Claim
<1>3. ASSUME NEW p \in Tries, RegisterKey(p) PROVE dep' \in [Terminals -> Deletes]
  BY <1>3 DEF RegisterKey
<1>4. ASSUME NEW p \in Tries, CreateServer(p) PROVE dep' \in [Terminals -> Deletes]
  BY <1>4 DEF CreateServer
<1>5. ASSUME NEW p \in Tries, Persist(p) PROVE dep' \in [Terminals -> Deletes]
  BY <1>5 DEF Persist
<1>6. ASSUME NEW p \in Tries, AnswerPost(p) PROVE dep' \in [Terminals -> Deletes]
  BY <1>6 DEF AnswerPost, Awaited
<1>7. ASSUME NEW p \in Tries, PostDies(p) PROVE dep' \in [Terminals -> Deletes]
  BY <1>7 DEF PostDies
<1>8. ASSUME NEW t \in Terminals, FindSandbox(t) PROVE dep' \in [Terminals -> Deletes]
  BY <1>8, ServesTyped, AnswersTyped, FieldTypes DEF FindSandbox, AnswerDelete
<1>9. ASSUME NEW t \in Terminals, FindServerByName(t) PROVE dep' \in [Terminals -> Deletes]
  BY <1>9, ServesTyped, FieldTypes DEF FindServerByName
<1>10. ASSUME NEW t \in Terminals, DestroyServer(t) PROVE dep' \in [Terminals -> Deletes]
  BY <1>10, ServesTyped, AnswersTyped, FieldTypes DEF DestroyServer, AnswerDelete
<1>11. ASSUME NEW t \in Terminals, DropKey(t) PROVE dep' \in [Terminals -> Deletes]
  BY <1>11, ServesTyped, AnswersTyped, FieldTypes DEF DropKey, AnswerDelete
<1>12. ASSUME NEW t \in Terminals, ForgetRow(t) PROVE dep' \in [Terminals -> Deletes]
  BY <1>12, AnswersTyped DEF ForgetRow, AnswerDelete
<1>13. ASSUME NEW t \in Terminals, DeleteDies(t) PROVE dep' \in [Terminals -> Deletes]
  BY <1>13, AnswersTyped DEF DeleteDies, AnswerDelete
<1>14. ASSUME NEW t \in Terminals, PollStatus(t) PROVE dep' \in [Terminals -> Deletes]
  BY <1>14 DEF PollStatus
<1>15. ASSUME NEW t \in Terminals, PollTimesOut(t) PROVE dep' \in [Terminals -> Deletes]
  BY <1>15, ServesTyped DEF PollTimesOut
<1>16. ASSUME NEW t \in Terminals, SshEnds(t) PROVE dep' \in [Terminals -> Deletes]
  BY <1>16 DEF SshEnds
<1>17. ASSUME NEW t \in Terminals, Provision(t) PROVE dep' \in [Terminals -> Deletes]
  BY <1>17 DEF Provision
<1>18. ASSUME NEW t \in Terminals, Deprovision(t) PROVE dep' \in [Terminals -> Deletes]
  BY <1>18, ServesTyped DEF Deprovision
<1>19. ASSUME NEW t \in Terminals, TryAgain(t) PROVE dep' \in [Terminals -> Deletes]
  BY <1>19 DEF TryAgain
<1>20. ASSUME NEW t \in Terminals, GivesUp(t) PROVE dep' \in [Terminals -> Deletes]
  BY <1>20 DEF GivesUp
<1>21. CASE Ready
  BY <1>21 DEF Ready
<1>22. CASE UNCHANGED vars
  BY <1>22 DEF vars, server, history
<1> QED
  BY <1>1, <1>2, <1>3, <1>4, <1>5, <1>6, <1>7, <1>8, <1>9, <1>10, <1>11, <1>12, <1>13, <1>14, <1>15, <1>16, <1>17, <1>18, <1>19, <1>20, <1>21, <1>22 DEF Next, PostStep, DeleteStep, CliStep

\* Commands keep their type.
LEMMA CliTyped ==
  Shapes /\ Counters /\ [Next]_vars => cli' \in [Terminals -> Clis]
<1> SUFFICES ASSUME Shapes, Counters, [Next]_vars
             PROVE  cli' \in [Terminals -> Clis]
  OBVIOUS
<1> USE DEF Shapes, server
<1>1. ASSUME NEW p \in Tries, CheckLimit(p) PROVE cli' \in [Terminals -> Clis]
  BY <1>1 DEF CheckLimit
<1>2. ASSUME NEW p \in Tries, Claim(p) PROVE cli' \in [Terminals -> Clis]
  BY <1>2 DEF Claim
<1>3. ASSUME NEW p \in Tries, RegisterKey(p) PROVE cli' \in [Terminals -> Clis]
  BY <1>3 DEF RegisterKey
<1>4. ASSUME NEW p \in Tries, CreateServer(p) PROVE cli' \in [Terminals -> Clis]
  BY <1>4 DEF CreateServer
<1>5. ASSUME NEW p \in Tries, Persist(p) PROVE cli' \in [Terminals -> Clis]
  BY <1>5 DEF Persist
<1>6. ASSUME NEW p \in Tries, AnswerPost(p) PROVE cli' \in [Terminals -> Clis]
  BY <1>6, Shaped, FieldTypes, TryOf DEF AnswerPost, Awaited
<1>7. ASSUME NEW p \in Tries, PostDies(p) PROVE cli' \in [Terminals -> Clis]
  BY <1>7 DEF PostDies
<1>8. ASSUME NEW t \in Terminals, FindSandbox(t) PROVE cli' \in [Terminals -> Clis]
  BY <1>8, AnswersTyped DEF FindSandbox, AnswerDelete
<1>9. ASSUME NEW t \in Terminals, FindServerByName(t) PROVE cli' \in [Terminals -> Clis]
  BY <1>9 DEF FindServerByName
<1>10. ASSUME NEW t \in Terminals, DestroyServer(t) PROVE cli' \in [Terminals -> Clis]
  BY <1>10, AnswersTyped DEF DestroyServer, AnswerDelete
<1>11. ASSUME NEW t \in Terminals, DropKey(t) PROVE cli' \in [Terminals -> Clis]
  BY <1>11, AnswersTyped DEF DropKey, AnswerDelete
<1>12. ASSUME NEW t \in Terminals, ForgetRow(t) PROVE cli' \in [Terminals -> Clis]
  BY <1>12, AnswersTyped DEF ForgetRow, AnswerDelete
<1>13. ASSUME NEW t \in Terminals, DeleteDies(t) PROVE cli' \in [Terminals -> Clis]
  BY <1>13, AnswersTyped DEF DeleteDies, AnswerDelete
<1>14. ASSUME NEW t \in Terminals, PollStatus(t) PROVE cli' \in [Terminals -> Clis]
  <2>1. Cli("ssh", cli[t].key) \in Clis /\ Idle \in Clis
    BY Shaped, FieldTypes
  <2> QED
    BY <1>14, <2>1 DEF PollStatus
<1>15. ASSUME NEW t \in Terminals, PollTimesOut(t) PROVE cli' \in [Terminals -> Clis]
  BY <1>15, Shaped, FieldTypes DEF PollTimesOut
<1>16. ASSUME NEW t \in Terminals, SshEnds(t) PROVE cli' \in [Terminals -> Clis]
  BY <1>16, Shaped DEF SshEnds
<1>17. ASSUME NEW t \in Terminals, Provision(t) PROVE cli' \in [Terminals -> Clis]
  BY <1>17, Shaped, SandboxAssumption DEF Provision, Counters
<1>18. ASSUME NEW t \in Terminals, Deprovision(t) PROVE cli' \in [Terminals -> Clis]
  BY <1>18, Shaped DEF Deprovision
<1>19. ASSUME NEW t \in Terminals, TryAgain(t) PROVE cli' \in [Terminals -> Clis]
  BY <1>19, Shaped, FieldTypes DEF TryAgain
<1>20. ASSUME NEW t \in Terminals, GivesUp(t) PROVE cli' \in [Terminals -> Clis]
  BY <1>20, Shaped DEF GivesUp
<1>21. CASE Ready
  BY <1>21 DEF Ready
<1>22. CASE UNCHANGED vars
  BY <1>22 DEF vars, server, history
<1> QED
  BY <1>1, <1>2, <1>3, <1>4, <1>5, <1>6, <1>7, <1>8, <1>9, <1>10, <1>11, <1>12, <1>13, <1>14, <1>15, <1>16, <1>17, <1>18, <1>19, <1>20, <1>21, <1>22 DEF Next, PostStep, DeleteStep, CliStep

\* The local entries are names of runs.
LEMMA EntriesTyped ==
  Shapes /\ [Next]_vars => entries' \subseteq Nat
<1> SUFFICES ASSUME Shapes, [Next]_vars
             PROVE  entries' \subseteq Nat
  OBVIOUS
<1>0. entries \subseteq Nat /\ \A t \in Terminals : cli[t].key \in Nat
  BY FieldTypes DEF Shapes
<1>1. ASSUME NEW p \in Tries, AnswerPost(p) PROVE entries' \subseteq Nat
  BY <1>0, <1>1, TryOf DEF AnswerPost
<1>2. ASSUME NEW p \in Tries, CheckLimit(p) \/ Claim(p) \/ RegisterKey(p) \/ CreateServer(p) \/ Persist(p) \/ PostDies(p)
      PROVE  entries' = entries
  BY <1>2 DEF CheckLimit, Claim, RegisterKey, CreateServer, Persist, PostDies
<1>3. ASSUME NEW t \in Terminals, DeleteStep(t) \/ DeleteDies(t) PROVE entries' \subseteq entries
  BY <1>3 DEF DeleteStep, DeleteDies, FindSandbox, FindServerByName, DestroyServer, DropKey, ForgetRow, AnswerDelete
<1>4. ASSUME NEW t \in Terminals, CliStep(t) PROVE entries' = entries
  BY <1>4 DEF CliStep, PollStatus, PollTimesOut, SshEnds
<1>5. ASSUME NEW t \in Terminals, Provision(t) \/ Deprovision(t) \/ TryAgain(t) \/ GivesUp(t) PROVE entries' = entries
  BY <1>5 DEF Provision, Deprovision, TryAgain, GivesUp
<1>6. CASE Ready \/ UNCHANGED vars
  BY <1>0, <1>6 DEF Ready, vars
<1>7. CASE \E p \in Tries : PostStep(p) \/ PostDies(p)
  BY <1>0, <1>1, <1>2, <1>7 DEF PostStep
<1>8. CASE \E t \in Terminals : DeleteStep(t) \/ DeleteDies(t)
  BY <1>0, <1>3, <1>8
<1> QED
  BY <1>0, <1>4, <1>5, <1>6, <1>7, <1>8 DEF Next

\* So do the row, the VM and the key.
LEMMA ServerTyped ==
  Shapes /\ Counters /\ [Next]_vars => (row' \in Rows /\ vm' \in Vms /\ sshKey' \in Nat)
<1> SUFFICES ASSUME Shapes, Counters, [Next]_vars
             PROVE  (row' \in Rows /\ vm' \in Vms /\ sshKey' \in Nat)
  OBVIOUS
<1> USE DEF Shapes, server
<1>1. ASSUME NEW p \in Tries, CheckLimit(p) PROVE (row' \in Rows /\ vm' \in Vms /\ sshKey' \in Nat)
  BY <1>1 DEF CheckLimit
<1>2. ASSUME NEW p \in Tries, Claim(p) PROVE (row' \in Rows /\ vm' \in Vms /\ sshKey' \in Nat)
  <2>1. rows + 1 \in Nat /\ prov[p].key \in Nat
    BY OneMore, FieldTypes DEF Counters
  <2>2. Row(rows + 1, prov[p].key, FALSE, FALSE) \in Rows
    BY <2>1, RowShaped
  <2> QED
    BY <1>2, <2>2 DEF Claim
<1>3. ASSUME NEW p \in Tries, RegisterKey(p) PROVE (row' \in Rows /\ vm' \in Vms /\ sshKey' \in Nat)
  BY <1>3, FieldTypes DEF RegisterKey
<1>4. ASSUME NEW p \in Tries, CreateServer(p) PROVE (row' \in Rows /\ vm' \in Vms /\ sshKey' \in Nat)
  <2>1. Vm(prov[p].rid, sshKey, FALSE) \in Vms
    BY VmShaped, FieldTypes
  <2>2. vm' = vm \/ vm' = Vm(prov[p].rid, sshKey, FALSE)
    BY <1>4 DEF CreateServer
  <2> QED
    BY <1>4, <2>1, <2>2 DEF CreateServer
<1>5. ASSUME NEW p \in Tries, Persist(p) PROVE (row' \in Rows /\ vm' \in Vms /\ sshKey' \in Nat)
  <2>1. Row(row.id, row.key, TRUE, FALSE) \in Rows
    BY RowShaped, FieldTypes
  <2>2. row' = row \/ row' = Row(row.id, row.key, TRUE, FALSE)
    BY <1>5 DEF Persist
  <2> QED
    BY <1>5, <2>1, <2>2 DEF Persist
<1>6. ASSUME NEW p \in Tries, AnswerPost(p) PROVE (row' \in Rows /\ vm' \in Vms /\ sshKey' \in Nat)
  BY <1>6 DEF AnswerPost, Awaited
<1>7. ASSUME NEW p \in Tries, PostDies(p) PROVE (row' \in Rows /\ vm' \in Vms /\ sshKey' \in Nat)
  BY <1>7 DEF PostDies
<1>8. ASSUME NEW t \in Terminals, FindSandbox(t) PROVE (row' \in Rows /\ vm' \in Vms /\ sshKey' \in Nat)
  BY <1>8 DEF FindSandbox, AnswerDelete
<1>9. ASSUME NEW t \in Terminals, FindServerByName(t) PROVE (row' \in Rows /\ vm' \in Vms /\ sshKey' \in Nat)
  BY <1>9 DEF FindServerByName
<1>10. ASSUME NEW t \in Terminals, DestroyServer(t) PROVE (row' \in Rows /\ vm' \in Vms /\ sshKey' \in Nat)
  BY <1>10, Shaped DEF DestroyServer, AnswerDelete
<1>11. ASSUME NEW t \in Terminals, DropKey(t) PROVE (row' \in Rows /\ vm' \in Vms /\ sshKey' \in Nat)
  BY <1>11 DEF DropKey, AnswerDelete
<1>12. ASSUME NEW t \in Terminals, ForgetRow(t) PROVE (row' \in Rows /\ vm' \in Vms /\ sshKey' \in Nat)
  BY <1>12, Shaped DEF ForgetRow, AnswerDelete
<1>13. ASSUME NEW t \in Terminals, DeleteDies(t) PROVE (row' \in Rows /\ vm' \in Vms /\ sshKey' \in Nat)
  BY <1>13 DEF DeleteDies, AnswerDelete
<1>14. ASSUME NEW t \in Terminals, PollStatus(t) PROVE (row' \in Rows /\ vm' \in Vms /\ sshKey' \in Nat)
  BY <1>14 DEF PollStatus
<1>15. ASSUME NEW t \in Terminals, PollTimesOut(t) PROVE (row' \in Rows /\ vm' \in Vms /\ sshKey' \in Nat)
  BY <1>15 DEF PollTimesOut
<1>16. ASSUME NEW t \in Terminals, SshEnds(t) PROVE (row' \in Rows /\ vm' \in Vms /\ sshKey' \in Nat)
  BY <1>16 DEF SshEnds
<1>17. ASSUME NEW t \in Terminals, Provision(t) PROVE (row' \in Rows /\ vm' \in Vms /\ sshKey' \in Nat)
  BY <1>17 DEF Provision
<1>18. ASSUME NEW t \in Terminals, Deprovision(t) PROVE (row' \in Rows /\ vm' \in Vms /\ sshKey' \in Nat)
  BY <1>18 DEF Deprovision
<1>19. ASSUME NEW t \in Terminals, TryAgain(t) PROVE (row' \in Rows /\ vm' \in Vms /\ sshKey' \in Nat)
  BY <1>19 DEF TryAgain
<1>20. ASSUME NEW t \in Terminals, GivesUp(t) PROVE (row' \in Rows /\ vm' \in Vms /\ sshKey' \in Nat)
  BY <1>20 DEF GivesUp
<1>21. CASE Ready
  <2>1. Row(row.id, row.key, row.hid, TRUE) \in Rows /\ Vm(vm.rid, vm.key, TRUE) \in Vms
    BY RowShaped, VmShaped, FieldTypes
  <2>2. row' = row \/ row' = Row(row.id, row.key, row.hid, TRUE)
    BY <1>21 DEF Ready
  <2> QED
    BY <1>21, <2>1, <2>2 DEF Ready
<1>22. CASE UNCHANGED vars
  BY <1>22 DEF vars, server, history
<1> QED
  BY <1>1, <1>2, <1>3, <1>4, <1>5, <1>6, <1>7, <1>8, <1>9, <1>10, <1>11, <1>12, <1>13, <1>14, <1>15, <1>16, <1>17, <1>18, <1>19, <1>20, <1>21, <1>22 DEF Next, PostStep, DeleteStep, CliStep

\* So do the histories.
LEMMA FlagsTyped ==
  Shapes /\ [Next]_vars => (overlap' \in BOOLEAN /\ blind' \in BOOLEAN)
<1> SUFFICES ASSUME Shapes, [Next]_vars
             PROVE  (overlap' \in BOOLEAN /\ blind' \in BOOLEAN)
  OBVIOUS
<1> USE DEF Shapes, server, history
<1>1. ASSUME NEW p \in Tries, CheckLimit(p) PROVE (overlap' \in BOOLEAN /\ blind' \in BOOLEAN)
  BY <1>1 DEF CheckLimit
<1>2. ASSUME NEW p \in Tries, Claim(p) PROVE (overlap' \in BOOLEAN /\ blind' \in BOOLEAN)
  BY <1>2 DEF Claim
<1>3. ASSUME NEW p \in Tries, RegisterKey(p) PROVE (overlap' \in BOOLEAN /\ blind' \in BOOLEAN)
  BY <1>3 DEF RegisterKey
<1>4. ASSUME NEW p \in Tries, CreateServer(p) PROVE (overlap' \in BOOLEAN /\ blind' \in BOOLEAN)
  BY <1>4 DEF CreateServer
<1>5. ASSUME NEW p \in Tries, Persist(p) PROVE (overlap' \in BOOLEAN /\ blind' \in BOOLEAN)
  BY <1>5 DEF Persist
<1>6. ASSUME NEW p \in Tries, AnswerPost(p) PROVE (overlap' \in BOOLEAN /\ blind' \in BOOLEAN)
  BY <1>6 DEF AnswerPost, Awaited
<1>7. ASSUME NEW p \in Tries, PostDies(p) PROVE (overlap' \in BOOLEAN /\ blind' \in BOOLEAN)
  BY <1>7 DEF PostDies
<1>8. ASSUME NEW t \in Terminals, FindSandbox(t) PROVE (overlap' \in BOOLEAN /\ blind' \in BOOLEAN)
  BY <1>8 DEF FindSandbox, AnswerDelete
<1>9. ASSUME NEW t \in Terminals, FindServerByName(t) PROVE (overlap' \in BOOLEAN /\ blind' \in BOOLEAN)
  BY <1>9 DEF FindServerByName
<1>10. ASSUME NEW t \in Terminals, DestroyServer(t) PROVE (overlap' \in BOOLEAN /\ blind' \in BOOLEAN)
  BY <1>10 DEF DestroyServer, AnswerDelete
<1>11. ASSUME NEW t \in Terminals, DropKey(t) PROVE (overlap' \in BOOLEAN /\ blind' \in BOOLEAN)
  BY <1>11 DEF DropKey, AnswerDelete
<1>12. ASSUME NEW t \in Terminals, ForgetRow(t) PROVE (overlap' \in BOOLEAN /\ blind' \in BOOLEAN)
  BY <1>12 DEF ForgetRow, AnswerDelete
<1>13. ASSUME NEW t \in Terminals, DeleteDies(t) PROVE (overlap' \in BOOLEAN /\ blind' \in BOOLEAN)
  BY <1>13 DEF DeleteDies, AnswerDelete
<1>14. ASSUME NEW t \in Terminals, PollStatus(t) PROVE (overlap' \in BOOLEAN /\ blind' \in BOOLEAN)
  BY <1>14 DEF PollStatus
<1>15. ASSUME NEW t \in Terminals, PollTimesOut(t) PROVE (overlap' \in BOOLEAN /\ blind' \in BOOLEAN)
  BY <1>15 DEF PollTimesOut
<1>16. ASSUME NEW t \in Terminals, SshEnds(t) PROVE (overlap' \in BOOLEAN /\ blind' \in BOOLEAN)
  BY <1>16 DEF SshEnds
<1>17. ASSUME NEW t \in Terminals, Provision(t) PROVE (overlap' \in BOOLEAN /\ blind' \in BOOLEAN)
  BY <1>17 DEF Provision, Command
<1>18. ASSUME NEW t \in Terminals, Deprovision(t) PROVE (overlap' \in BOOLEAN /\ blind' \in BOOLEAN)
  BY <1>18 DEF Deprovision, Command
<1>19. ASSUME NEW t \in Terminals, TryAgain(t) PROVE (overlap' \in BOOLEAN /\ blind' \in BOOLEAN)
  BY <1>19 DEF TryAgain
<1>20. ASSUME NEW t \in Terminals, GivesUp(t) PROVE (overlap' \in BOOLEAN /\ blind' \in BOOLEAN)
  BY <1>20 DEF GivesUp
<1>21. CASE Ready
  BY <1>21 DEF Ready
<1>22. CASE UNCHANGED vars
  BY <1>22 DEF vars, server, history
<1> QED
  BY <1>1, <1>2, <1>3, <1>4, <1>5, <1>6, <1>7, <1>8, <1>9, <1>10, <1>11, <1>12, <1>13, <1>14, <1>15, <1>16, <1>17, <1>18, <1>19, <1>20, <1>21, <1>22 DEF Next, PostStep, DeleteStep, CliStep

\* Faults are bounded.
LEMMA FaultsBounded ==
  Counters /\ [Next]_vars => faults' \in 0..MaxFaults
<1> SUFFICES ASSUME Counters, [Next]_vars
             PROVE  faults' \in 0..MaxFaults
  OBVIOUS
<1> USE SandboxAssumption DEF Counters, Fault, NoFault, history
<1>1. ASSUME NEW p \in Tries, CheckLimit(p) PROVE faults' \in 0..MaxFaults
  BY <1>1 DEF CheckLimit
<1>2. ASSUME NEW p \in Tries, Claim(p) PROVE faults' \in 0..MaxFaults
  BY <1>2 DEF Claim
<1>3. ASSUME NEW p \in Tries, RegisterKey(p) PROVE faults' \in 0..MaxFaults
  BY <1>3 DEF RegisterKey
<1>4. ASSUME NEW p \in Tries, CreateServer(p) PROVE faults' \in 0..MaxFaults
  <2>1. Fault \/ NoFault
    BY <1>4 DEF CreateServer
  <2> QED
    BY <2>1
<1>5. ASSUME NEW p \in Tries, Persist(p) PROVE faults' \in 0..MaxFaults
  <2>1. Fault \/ NoFault
    BY <1>5 DEF Persist
  <2> QED
    BY <2>1
<1>6. ASSUME NEW p \in Tries, AnswerPost(p) PROVE faults' \in 0..MaxFaults
  BY <1>6 DEF AnswerPost, Awaited
<1>7. ASSUME NEW p \in Tries, PostDies(p) PROVE faults' \in 0..MaxFaults
  BY <1>7 DEF PostDies
<1>8. ASSUME NEW t \in Terminals, FindSandbox(t) PROVE faults' \in 0..MaxFaults
  BY <1>8 DEF FindSandbox, AnswerDelete
<1>9. ASSUME NEW t \in Terminals, FindServerByName(t) PROVE faults' \in 0..MaxFaults
  BY <1>9 DEF FindServerByName
<1>10. ASSUME NEW t \in Terminals, DestroyServer(t) PROVE faults' \in 0..MaxFaults
  BY <1>10 DEF DestroyServer, AnswerDelete
<1>11. ASSUME NEW t \in Terminals, DropKey(t) PROVE faults' \in 0..MaxFaults
  BY <1>11 DEF DropKey, AnswerDelete
<1>12. ASSUME NEW t \in Terminals, ForgetRow(t) PROVE faults' \in 0..MaxFaults
  BY <1>12 DEF ForgetRow, AnswerDelete
<1>13. ASSUME NEW t \in Terminals, DeleteDies(t) PROVE faults' \in 0..MaxFaults
  BY <1>13 DEF DeleteDies, AnswerDelete
<1>14. ASSUME NEW t \in Terminals, PollStatus(t) PROVE faults' \in 0..MaxFaults
  BY <1>14 DEF PollStatus
<1>15. ASSUME NEW t \in Terminals, PollTimesOut(t) PROVE faults' \in 0..MaxFaults
  BY <1>15 DEF PollTimesOut
<1>16. ASSUME NEW t \in Terminals, SshEnds(t) PROVE faults' \in 0..MaxFaults
  BY <1>16 DEF SshEnds
<1>17. ASSUME NEW t \in Terminals, Provision(t) PROVE faults' \in 0..MaxFaults
  BY <1>17, SandboxAssumption DEF Provision, Command
<1>18. ASSUME NEW t \in Terminals, Deprovision(t) PROVE faults' \in 0..MaxFaults
  BY <1>18, SandboxAssumption DEF Deprovision, Command
<1>19. ASSUME NEW t \in Terminals, TryAgain(t) PROVE faults' \in 0..MaxFaults
  BY <1>19 DEF TryAgain
<1>20. ASSUME NEW t \in Terminals, GivesUp(t) PROVE faults' \in 0..MaxFaults
  BY <1>20 DEF GivesUp
<1>21. CASE Ready
  <2>1. Fault \/ NoFault
    BY <1>21 DEF Ready
  <2> QED
    BY <2>1
<1>22. CASE UNCHANGED vars
  BY <1>22 DEF vars, server, history
<1> QED
  BY <1>1, <1>2, <1>3, <1>4, <1>5, <1>6, <1>7, <1>8, <1>9, <1>10, <1>11, <1>12, <1>13, <1>14, <1>15, <1>16, <1>17, <1>18, <1>19, <1>20, <1>21, <1>22 DEF Next, PostStep, DeleteStep, CliStep

\* So are runs, and rows are counted.
LEMMA RunsBounded ==
  Counters /\ [Next]_vars => (rows' \in Nat /\ runs' \in 0..MaxRuns)
<1> SUFFICES ASSUME Counters, [Next]_vars
             PROVE  (rows' \in Nat /\ runs' \in 0..MaxRuns)
  OBVIOUS
<1> USE DEF Counters, server, history
<1>1. ASSUME NEW p \in Tries, CheckLimit(p) PROVE (rows' \in Nat /\ runs' \in 0..MaxRuns)
  BY <1>1 DEF CheckLimit
<1>2. ASSUME NEW p \in Tries, Claim(p) PROVE (rows' \in Nat /\ runs' \in 0..MaxRuns)
  BY <1>2, OneMore DEF Claim
<1>3. ASSUME NEW p \in Tries, RegisterKey(p) PROVE (rows' \in Nat /\ runs' \in 0..MaxRuns)
  BY <1>3 DEF RegisterKey
<1>4. ASSUME NEW p \in Tries, CreateServer(p) PROVE (rows' \in Nat /\ runs' \in 0..MaxRuns)
  BY <1>4 DEF CreateServer
<1>5. ASSUME NEW p \in Tries, Persist(p) PROVE (rows' \in Nat /\ runs' \in 0..MaxRuns)
  BY <1>5 DEF Persist
<1>6. ASSUME NEW p \in Tries, AnswerPost(p) PROVE (rows' \in Nat /\ runs' \in 0..MaxRuns)
  BY <1>6 DEF AnswerPost, Awaited
<1>7. ASSUME NEW p \in Tries, PostDies(p) PROVE (rows' \in Nat /\ runs' \in 0..MaxRuns)
  BY <1>7 DEF PostDies
<1>8. ASSUME NEW t \in Terminals, FindSandbox(t) PROVE (rows' \in Nat /\ runs' \in 0..MaxRuns)
  BY <1>8 DEF FindSandbox, AnswerDelete
<1>9. ASSUME NEW t \in Terminals, FindServerByName(t) PROVE (rows' \in Nat /\ runs' \in 0..MaxRuns)
  BY <1>9 DEF FindServerByName
<1>10. ASSUME NEW t \in Terminals, DestroyServer(t) PROVE (rows' \in Nat /\ runs' \in 0..MaxRuns)
  BY <1>10 DEF DestroyServer, AnswerDelete
<1>11. ASSUME NEW t \in Terminals, DropKey(t) PROVE (rows' \in Nat /\ runs' \in 0..MaxRuns)
  BY <1>11 DEF DropKey, AnswerDelete
<1>12. ASSUME NEW t \in Terminals, ForgetRow(t) PROVE (rows' \in Nat /\ runs' \in 0..MaxRuns)
  BY <1>12 DEF ForgetRow, AnswerDelete
<1>13. ASSUME NEW t \in Terminals, DeleteDies(t) PROVE (rows' \in Nat /\ runs' \in 0..MaxRuns)
  BY <1>13 DEF DeleteDies, AnswerDelete
<1>14. ASSUME NEW t \in Terminals, PollStatus(t) PROVE (rows' \in Nat /\ runs' \in 0..MaxRuns)
  BY <1>14 DEF PollStatus
<1>15. ASSUME NEW t \in Terminals, PollTimesOut(t) PROVE (rows' \in Nat /\ runs' \in 0..MaxRuns)
  BY <1>15 DEF PollTimesOut
<1>16. ASSUME NEW t \in Terminals, SshEnds(t) PROVE (rows' \in Nat /\ runs' \in 0..MaxRuns)
  BY <1>16 DEF SshEnds
<1>17. ASSUME NEW t \in Terminals, Provision(t) PROVE (rows' \in Nat /\ runs' \in 0..MaxRuns)
  BY <1>17, SandboxAssumption DEF Provision
<1>18. ASSUME NEW t \in Terminals, Deprovision(t) PROVE (rows' \in Nat /\ runs' \in 0..MaxRuns)
  BY <1>18 DEF Deprovision
<1>19. ASSUME NEW t \in Terminals, TryAgain(t) PROVE (rows' \in Nat /\ runs' \in 0..MaxRuns)
  BY <1>19 DEF TryAgain
<1>20. ASSUME NEW t \in Terminals, GivesUp(t) PROVE (rows' \in Nat /\ runs' \in 0..MaxRuns)
  BY <1>20 DEF GivesUp
<1>21. CASE Ready
  BY <1>21 DEF Ready
<1>22. CASE UNCHANGED vars
  BY <1>22 DEF vars, server, history
<1> QED
  BY <1>1, <1>2, <1>3, <1>4, <1>5, <1>6, <1>7, <1>8, <1>9, <1>10, <1>11, <1>12, <1>13, <1>14, <1>15, <1>16, <1>17, <1>18, <1>19, <1>20, <1>21, <1>22 DEF Next, PostStep, DeleteStep, CliStep

\* No row is newer than the last one made.
LEMMA RowsCounted ==
  Shapes /\ Counters /\ [Next]_vars => row'.id <= rows'
<1> SUFFICES ASSUME Shapes, Counters, [Next]_vars
             PROVE  row'.id <= rows'
  OBVIOUS
<1> USE DEF Shapes, Counters, server, history
<1>1. ASSUME NEW p \in Tries, CheckLimit(p) PROVE row'.id <= rows'
  BY <1>1 DEF CheckLimit
<1>2. ASSUME NEW p \in Tries, Claim(p) PROVE row'.id <= rows'
  <2>1. CASE row = NoRow
    <3>1. row' = Row(rows + 1, prov[p].key, FALSE, FALSE)
      BY <1>2, <2>1 DEF Claim
    <3>2. rows' = rows + 1
      BY <1>2, <2>1 DEF Claim
    <3>3. row'.id = rows'
      BY <3>1, <3>2 DEF Row
    <3>4. rows' \in Nat
      BY <3>2, OneMore
    <3> QED
      BY <3>3, <3>4
  <2>2. CASE row # NoRow
    <3>1. row' = row
      BY <1>2, <2>2 DEF Claim
    <3>2. rows' = rows
      BY <1>2, <2>2 DEF Claim
    <3> QED
      BY <3>1, <3>2
  <2> QED
    BY <2>1, <2>2
<1>3. ASSUME NEW p \in Tries, RegisterKey(p) PROVE row'.id <= rows'
  BY <1>3 DEF RegisterKey
<1>4. ASSUME NEW p \in Tries, CreateServer(p) PROVE row'.id <= rows'
  BY <1>4 DEF CreateServer
<1>5. ASSUME NEW p \in Tries, Persist(p) PROVE row'.id <= rows'
  <2>1. row' = row \/ row' = Row(row.id, row.key, TRUE, FALSE)
    BY <1>5 DEF Persist
  <2>2. row'.id = row.id
    BY <2>1 DEF Row
  <2>3. rows' = rows
    BY <1>5 DEF Persist
  <2> QED
    BY <2>2, <2>3
<1>6. ASSUME NEW p \in Tries, AnswerPost(p) PROVE row'.id <= rows'
  BY <1>6 DEF AnswerPost, Awaited
<1>7. ASSUME NEW p \in Tries, PostDies(p) PROVE row'.id <= rows'
  BY <1>7 DEF PostDies
<1>8. ASSUME NEW t \in Terminals, FindSandbox(t) PROVE row'.id <= rows'
  BY <1>8 DEF FindSandbox, AnswerDelete
<1>9. ASSUME NEW t \in Terminals, FindServerByName(t) PROVE row'.id <= rows'
  BY <1>9 DEF FindServerByName
<1>10. ASSUME NEW t \in Terminals, DestroyServer(t) PROVE row'.id <= rows'
  BY <1>10 DEF DestroyServer, AnswerDelete
<1>11. ASSUME NEW t \in Terminals, DropKey(t) PROVE row'.id <= rows'
  BY <1>11 DEF DropKey, AnswerDelete
<1>12. ASSUME NEW t \in Terminals, ForgetRow(t) PROVE row'.id <= rows'
  BY <1>12, Nulls DEF ForgetRow, AnswerDelete
<1>13. ASSUME NEW t \in Terminals, DeleteDies(t) PROVE row'.id <= rows'
  BY <1>13 DEF DeleteDies, AnswerDelete
<1>14. ASSUME NEW t \in Terminals, PollStatus(t) PROVE row'.id <= rows'
  BY <1>14 DEF PollStatus
<1>15. ASSUME NEW t \in Terminals, PollTimesOut(t) PROVE row'.id <= rows'
  BY <1>15 DEF PollTimesOut
<1>16. ASSUME NEW t \in Terminals, SshEnds(t) PROVE row'.id <= rows'
  BY <1>16 DEF SshEnds
<1>17. ASSUME NEW t \in Terminals, Provision(t) PROVE row'.id <= rows'
  BY <1>17 DEF Provision
<1>18. ASSUME NEW t \in Terminals, Deprovision(t) PROVE row'.id <= rows'
  BY <1>18 DEF Deprovision
<1>19. ASSUME NEW t \in Terminals, TryAgain(t) PROVE row'.id <= rows'
  BY <1>19 DEF TryAgain
<1>20. ASSUME NEW t \in Terminals, GivesUp(t) PROVE row'.id <= rows'
  BY <1>20 DEF GivesUp
<1>21. CASE Ready
  <2>1. row' = row \/ row' = Row(row.id, row.key, row.hid, TRUE)
    BY <1>21 DEF Ready
  <2>2. row'.id = row.id
    BY <2>1 DEF Row
  <2>3. rows' = rows
    BY <1>21 DEF Ready
  <2> QED
    BY <2>2, <2>3
<1>22. CASE UNCHANGED vars
  BY <1>22 DEF vars, server, history
<1> QED
  BY <1>1, <1>2, <1>3, <1>4, <1>5, <1>6, <1>7, <1>8, <1>9, <1>10, <1>11, <1>12, <1>13, <1>14, <1>15, <1>16, <1>17, <1>18, <1>19, <1>20, <1>21, <1>22 DEF Next, PostStep, DeleteStep, CliStep

\* Every step keeps the types.
LEMMA TypeStep ==
  TypeOK /\ [Next]_vars => TypeOK'
<1> SUFFICES ASSUME TypeOK, [Next]_vars PROVE TypeOK'
  OBVIOUS
<1>1. Shapes /\ Counters
  BY TypeParts
<1>2. Shapes'
  BY <1>1, ProvTyped, DepTyped, CliTyped, EntriesTyped, ServerTyped, FlagsTyped DEF Shapes
<1>3. Counters'
  BY <1>1, FaultsBounded, RunsBounded, RowsCounted DEF Counters
<1> QED
  BY <1>2, <1>3 DEF TypeOK, Shapes, Counters

LEMMA TypeInit ==
  Init => TypeOK
<1> SUFFICES ASSUME Init PROVE TypeOK
  OBVIOUS
<1>1. Shapes
  BY Shaped DEF Init, Shapes
<1>2. Counters
  BY Nulls, SandboxAssumption DEF Init, Counters
<1> QED
  BY <1>1, <1>2, TypeParts

\* There are never more runs, rows or faults than counted, and records keep their shape: whatever
\* the terminals, runs and faults.
THEOREM TypeCorrect == Spec => []TypeOK
<1> QED
  BY TypeInit, TypeStep, PTL DEF Spec

-----------------------------------------------------------------------------
\* Steps that start nothing at any terminal, and those that do.
Waiting == {"asked", "again", "polling", "ssh"}
Smaller ==
  /\ \A p \in Tries : prov'[p].pc # "none" => prov[p].pc # "none" /\ prov'[p].key = prov[p].key
  /\ \A t \in Terminals : dep'[t].pc # "none" => dep[t].pc # "none"
  /\ \A t \in Terminals : cli'[t].pc # "idle" => cli[t].pc # "idle"
  /\ \A t \in Terminals : cli'[t].pc \in Waiting => cli[t].pc \in Waiting /\ cli'[t].key = cli[t].key
Starts == \E t \in Terminals : Provision(t) \/ Deprovision(t) \/ PollTimesOut(t) \/ TryAgain(t)

LEMMA GoesTo ==
  ASSUME prov \in [Tries -> Posts], NEW p \in Tries, NEW post, Goes(p, post)
  PROVE  prov'[p] = post /\ \A q \in Tries : q # p => prov'[q] = prov[q]
  BY DEF Goes

LEMMA ServesTo ==
  ASSUME dep \in [Terminals -> Deletes], NEW t \in Terminals, NEW delete, Serves(t, delete)
  PROVE  dep'[t] = delete /\ \A u \in Terminals : u # t => dep'[u] = dep[u]
  BY DEF Serves

LEMMA AnswersTo ==
  ASSUME dep \in [Terminals -> Deletes], cli \in [Terminals -> Clis], NEW t \in Terminals, Answered(t)
  PROVE  /\ dep'[t] = NoDelete /\ \A u \in Terminals : u # t => dep'[u] = dep[u] /\ cli'[u] = cli[u]
         /\ cli'[t] = cli[t] \/ cli'[t] = Idle
  BY DEF Answered, Deprovisioning, Serves

\* Every other step starts nothing.
LEMMA Calm ==
  Shapes /\ [Next]_vars => (Smaller /\ overlap' = overlap) \/ Starts
<1> SUFFICES ASSUME Shapes, [Next]_vars
             PROVE  (Smaller /\ overlap' = overlap) \/ Starts
  OBVIOUS
<1> USE DEF Shapes, server, history
<1>1. ASSUME NEW p \in Tries, CheckLimit(p) PROVE (Smaller /\ overlap' = overlap) \/ Starts
  <2>1. prov[p].pc # "none"
    BY <1>1 DEF CheckLimit
  <2>2. \E pc, rid : Goes(p, Post(pc, prov[p].key, rid))
    BY <1>1 DEF CheckLimit, Says
  <2>3. prov'[p].key = prov[p].key /\ \A q \in Tries : q # p => prov'[q] = prov[q]
    BY <2>2, GoesTo, PostFields
  <2>4. dep' = dep /\ cli' = cli /\ overlap' = overlap
    BY <1>1 DEF CheckLimit
  <2> QED
    BY <2>1, <2>3, <2>4 DEF Smaller
<1>2. ASSUME NEW p \in Tries, Claim(p) PROVE (Smaller /\ overlap' = overlap) \/ Starts
  <2>1. prov[p].pc # "none"
    BY <1>2 DEF Claim
  <2>2. \E pc, rid : Goes(p, Post(pc, prov[p].key, rid))
    BY <1>2 DEF Claim, Says
  <2>3. prov'[p].key = prov[p].key /\ \A q \in Tries : q # p => prov'[q] = prov[q]
    BY <2>2, GoesTo, PostFields
  <2>4. dep' = dep /\ cli' = cli /\ overlap' = overlap
    BY <1>2 DEF Claim
  <2> QED
    BY <2>1, <2>3, <2>4 DEF Smaller
<1>3. ASSUME NEW p \in Tries, RegisterKey(p) PROVE (Smaller /\ overlap' = overlap) \/ Starts
  <2>1. prov[p].pc # "none"
    BY <1>3 DEF RegisterKey
  <2>2. \E pc, rid : Goes(p, Post(pc, prov[p].key, rid))
    BY <1>3 DEF RegisterKey, Says
  <2>3. prov'[p].key = prov[p].key /\ \A q \in Tries : q # p => prov'[q] = prov[q]
    BY <2>2, GoesTo, PostFields
  <2>4. dep' = dep /\ cli' = cli /\ overlap' = overlap
    BY <1>3 DEF RegisterKey
  <2> QED
    BY <2>1, <2>3, <2>4 DEF Smaller
<1>4. ASSUME NEW p \in Tries, CreateServer(p) PROVE (Smaller /\ overlap' = overlap) \/ Starts
  <2>1. prov[p].pc # "none"
    BY <1>4 DEF CreateServer
  <2>2. \E pc, rid : Goes(p, Post(pc, prov[p].key, rid))
    BY <1>4 DEF CreateServer, Says
  <2>3. prov'[p].key = prov[p].key /\ \A q \in Tries : q # p => prov'[q] = prov[q]
    BY <2>2, GoesTo, PostFields
  <2>4. dep' = dep /\ cli' = cli /\ overlap' = overlap
    BY <1>4 DEF CreateServer
  <2> QED
    BY <2>1, <2>3, <2>4 DEF Smaller
<1>5. ASSUME NEW p \in Tries, Persist(p) PROVE (Smaller /\ overlap' = overlap) \/ Starts
  <2>1. prov[p].pc # "none"
    BY <1>5 DEF Persist
  <2>2. \E pc, rid : Goes(p, Post(pc, prov[p].key, rid))
    BY <1>5 DEF Persist, Says
  <2>3. prov'[p].key = prov[p].key /\ \A q \in Tries : q # p => prov'[q] = prov[q]
    BY <2>2, GoesTo, PostFields
  <2>4. dep' = dep /\ cli' = cli /\ overlap' = overlap
    BY <1>5 DEF Persist
  <2> QED
    BY <2>1, <2>3, <2>4 DEF Smaller
<1>6. ASSUME NEW p \in Tries, AnswerPost(p) PROVE (Smaller /\ overlap' = overlap) \/ Starts
  <2>1. prov'[p].pc = "none" /\ \A q \in Tries : q # p => prov'[q] = prov[q]
    BY <1>6, GoesTo, Nulls DEF AnswerPost, Awaited
  <2>2. \/ cli'[p[1]] = cli[p[1]] \/ cli'[p[1]].pc = "idle"
        \/ cli[p[1]].pc \in {"asked", "again"} /\ cli'[p[1]].key = cli[p[1]].key
    <3>1. \/ cli' = cli
          \/ /\ cli[p[1]].pc \in {"asked", "again"}
             /\ cli'[p[1]] = Cli("polling", cli[p[1]].key) \/ cli'[p[1]] = Idle
      BY <1>6, TryOf DEF AnswerPost, Awaited
    <3> QED
      BY <3>1, CliFields, Nulls
  <2>3. \A t \in Terminals : t # p[1] => cli'[t] = cli[t]
    BY <1>6 DEF AnswerPost, Awaited
  <2>4. dep' = dep /\ overlap' = overlap
    BY <1>6 DEF AnswerPost, Awaited
  <2> QED
    <3>1. \A t \in Terminals : cli'[t].pc # "idle" => cli[t].pc # "idle"
      BY <2>2, <2>3
    <3>2. \A t \in Terminals : cli'[t].pc \in Waiting => cli[t].pc \in Waiting /\ cli'[t].key = cli[t].key
      BY <2>2, <2>3 DEF Waiting
    <3> QED
      BY <2>1, <2>4, <3>1, <3>2 DEF Smaller
<1>7. ASSUME NEW p \in Tries, PostDies(p) PROVE (Smaller /\ overlap' = overlap) \/ Starts
  <2>1. prov'[p].pc = "none" /\ \A q \in Tries : q # p => prov'[q] = prov[q]
    BY <1>7, GoesTo, Nulls DEF PostDies
  <2>2. dep' = dep /\ cli' = cli /\ overlap' = overlap
    BY <1>7 DEF PostDies
  <2> QED
    BY <2>1, <2>2 DEF Smaller
<1>8. ASSUME NEW t \in Terminals, FindSandbox(t) PROVE (Smaller /\ overlap' = overlap) \/ Starts
  <2>1. dep[t].pc # "none"
    BY <1>8 DEF FindSandbox, AnswerDelete
  <2>2. Answered(t) \/ (cli' = cli /\ Serves(t, IF row.hid THEN Delete("destroy", row.id, row.id) ELSE Delete("look", row.id, 0)))
    BY <1>8 DEF FindSandbox, AnswerDelete
  <2>3. prov' = prov /\ overlap' = overlap
    BY <1>8 DEF FindSandbox, AnswerDelete
  <2>4. (dep'[t].pc = "none" \/ dep[t].pc # "none") /\ \A u \in Terminals : u # t => dep'[u] = dep[u]
    BY <2>1, <2>2, AnswersTo, ServesTo, Nulls
  <2>5. \A u \in Terminals : cli'[u] = cli[u] \/ cli'[u].pc = "idle"
    BY <2>2, AnswersTo, Nulls
  <2> QED
    BY <2>3, <2>4, <2>5 DEF Smaller, Waiting
<1>9. ASSUME NEW t \in Terminals, FindServerByName(t) PROVE (Smaller /\ overlap' = overlap) \/ Starts
  <2>1. dep[t].pc # "none"
    BY <1>9 DEF FindServerByName
  <2>2. cli' = cli /\ \E d : Serves(t, d)
    BY <1>9 DEF FindServerByName
  <2>3. prov' = prov /\ overlap' = overlap
    BY <1>9 DEF FindServerByName
  <2>4. (dep'[t].pc = "none" \/ dep[t].pc # "none") /\ \A u \in Terminals : u # t => dep'[u] = dep[u]
    BY <2>1, <2>2, AnswersTo, ServesTo, Nulls
  <2>5. \A u \in Terminals : cli'[u] = cli[u] \/ cli'[u].pc = "idle"
    BY <2>2, AnswersTo, Nulls
  <2> QED
    BY <2>3, <2>4, <2>5 DEF Smaller, Waiting
<1>10. ASSUME NEW t \in Terminals, DestroyServer(t) PROVE (Smaller /\ overlap' = overlap) \/ Starts
  <2>1. dep[t].pc # "none"
    BY <1>10 DEF DestroyServer, AnswerDelete
  <2>2. Answered(t) \/ (cli' = cli /\ Serves(t, Delete("key", dep[t].rid, dep[t].vm)))
    BY <1>10 DEF DestroyServer, AnswerDelete
  <2>3. prov' = prov /\ overlap' = overlap
    BY <1>10 DEF DestroyServer, AnswerDelete
  <2>4. (dep'[t].pc = "none" \/ dep[t].pc # "none") /\ \A u \in Terminals : u # t => dep'[u] = dep[u]
    BY <2>1, <2>2, AnswersTo, ServesTo, Nulls
  <2>5. \A u \in Terminals : cli'[u] = cli[u] \/ cli'[u].pc = "idle"
    BY <2>2, AnswersTo, Nulls
  <2> QED
    BY <2>3, <2>4, <2>5 DEF Smaller, Waiting
<1>11. ASSUME NEW t \in Terminals, DropKey(t) PROVE (Smaller /\ overlap' = overlap) \/ Starts
  <2>1. dep[t].pc # "none"
    BY <1>11 DEF DropKey, AnswerDelete
  <2>2. Answered(t) \/ (cli' = cli /\ Serves(t, Delete("forget", dep[t].rid, dep[t].vm)))
    BY <1>11 DEF DropKey, AnswerDelete
  <2>3. prov' = prov /\ overlap' = overlap
    BY <1>11 DEF DropKey, AnswerDelete
  <2>4. (dep'[t].pc = "none" \/ dep[t].pc # "none") /\ \A u \in Terminals : u # t => dep'[u] = dep[u]
    BY <2>1, <2>2, AnswersTo, ServesTo, Nulls
  <2>5. \A u \in Terminals : cli'[u] = cli[u] \/ cli'[u].pc = "idle"
    BY <2>2, AnswersTo, Nulls
  <2> QED
    BY <2>3, <2>4, <2>5 DEF Smaller, Waiting
<1>12. ASSUME NEW t \in Terminals, ForgetRow(t) PROVE (Smaller /\ overlap' = overlap) \/ Starts
  <2>1. dep[t].pc # "none"
    BY <1>12 DEF ForgetRow, AnswerDelete
  <2>2. Answered(t)
    BY <1>12 DEF ForgetRow, AnswerDelete
  <2>3. prov' = prov /\ overlap' = overlap
    BY <1>12 DEF ForgetRow, AnswerDelete
  <2>4. (dep'[t].pc = "none" \/ dep[t].pc # "none") /\ \A u \in Terminals : u # t => dep'[u] = dep[u]
    BY <2>1, <2>2, AnswersTo, ServesTo, Nulls
  <2>5. \A u \in Terminals : cli'[u] = cli[u] \/ cli'[u].pc = "idle"
    BY <2>2, AnswersTo, Nulls
  <2> QED
    BY <2>3, <2>4, <2>5 DEF Smaller, Waiting
<1>13. ASSUME NEW t \in Terminals, DeleteDies(t) PROVE (Smaller /\ overlap' = overlap) \/ Starts
  <2>2. Answered(t)
    BY <1>13 DEF DeleteDies, AnswerDelete
  <2>3. prov' = prov /\ overlap' = overlap
    BY <1>13 DEF DeleteDies, AnswerDelete
  <2>4. (dep'[t].pc = "none" \/ dep[t].pc # "none") /\ \A u \in Terminals : u # t => dep'[u] = dep[u]
    BY <2>2, AnswersTo, ServesTo, Nulls
  <2>5. \A u \in Terminals : cli'[u] = cli[u] \/ cli'[u].pc = "idle"
    BY <2>2, AnswersTo, Nulls
  <2> QED
    BY <2>3, <2>4, <2>5 DEF Smaller, Waiting
<1>14. ASSUME NEW t \in Terminals, PollStatus(t) PROVE (Smaller /\ overlap' = overlap) \/ Starts
  <2>1. prov' = prov /\ dep' = dep /\ overlap' = overlap
    BY <1>14 DEF PollStatus
  <2>2. \A u \in Terminals : u # t => cli'[u] = cli[u]
    BY <1>14 DEF PollStatus
  <2>4. cli'[t] = Idle \/ (cli[t].pc = "polling" /\ cli'[t] = Cli("ssh", cli[t].key))
    BY <1>14 DEF PollStatus
  <2>3. cli'[t].pc = "idle" \/ (cli[t].pc = "polling" /\ cli'[t].pc = "ssh" /\ cli'[t].key = cli[t].key)
    BY <2>4, Nulls, CliFields
  <2> QED
    BY <2>1, <2>2, <2>3 DEF Smaller, Waiting
<1>15. ASSUME NEW t \in Terminals, PollTimesOut(t) PROVE (Smaller /\ overlap' = overlap) \/ Starts
  BY <1>15 DEF Starts
<1>16. ASSUME NEW t \in Terminals, SshEnds(t) PROVE (Smaller /\ overlap' = overlap) \/ Starts
  <2>1. prov' = prov /\ dep' = dep /\ overlap' = overlap
    BY <1>16 DEF SshEnds
  <2>2. \A u \in Terminals : u # t => cli'[u] = cli[u]
    BY <1>16 DEF SshEnds
  <2>4. cli'[t] = Idle
    BY <1>16 DEF SshEnds
  <2>3. cli'[t].pc = "idle"
    BY <2>4, Nulls, CliFields
  <2> QED
    BY <2>1, <2>2, <2>3 DEF Smaller, Waiting
<1>17. ASSUME NEW t \in Terminals, Provision(t) PROVE (Smaller /\ overlap' = overlap) \/ Starts
  BY <1>17 DEF Starts
<1>18. ASSUME NEW t \in Terminals, Deprovision(t) PROVE (Smaller /\ overlap' = overlap) \/ Starts
  BY <1>18 DEF Starts
<1>19. ASSUME NEW t \in Terminals, TryAgain(t) PROVE (Smaller /\ overlap' = overlap) \/ Starts
  BY <1>19 DEF Starts
<1>20. ASSUME NEW t \in Terminals, GivesUp(t) PROVE (Smaller /\ overlap' = overlap) \/ Starts
  <2>1. prov' = prov /\ dep' = dep /\ overlap' = overlap
    BY <1>20 DEF GivesUp
  <2>2. \A u \in Terminals : u # t => cli'[u] = cli[u]
    BY <1>20 DEF GivesUp
  <2>4. cli'[t] = Idle
    BY <1>20 DEF GivesUp
  <2>3. cli'[t].pc = "idle"
    BY <2>4, Nulls, CliFields
  <2> QED
    BY <2>1, <2>2, <2>3 DEF Smaller, Waiting
<1>21. CASE Ready
  BY <1>21 DEF Ready, Smaller
<1>22. CASE UNCHANGED vars
  BY <1>22 DEF vars, server, history, Smaller
<1> QED
  BY <1>1, <1>2, <1>3, <1>4, <1>5, <1>6, <1>7, <1>8, <1>9, <1>10, <1>11, <1>12, <1>13, <1>14, <1>15, <1>16, <1>17, <1>18, <1>19, <1>20, <1>21, <1>22 DEF Next, PostStep, DeleteStep, CliStep

\* What was careless or blind stays so.
LEMMA HistoryStays ==
  [Next]_vars => (overlap => overlap') /\ (blind => blind')
<1> SUFFICES ASSUME [Next]_vars PROVE (overlap => overlap') /\ (blind => blind')
  OBVIOUS
<1>1. ASSUME NEW p \in Tries, CheckLimit(p) PROVE (overlap => overlap') /\ (blind => blind')
  BY <1>1 DEF CheckLimit, history
<1>2. ASSUME NEW p \in Tries, Claim(p) PROVE (overlap => overlap') /\ (blind => blind')
  BY <1>2 DEF Claim, history
<1>3. ASSUME NEW p \in Tries, RegisterKey(p) PROVE (overlap => overlap') /\ (blind => blind')
  BY <1>3 DEF RegisterKey, history
<1>4. ASSUME NEW p \in Tries, CreateServer(p) PROVE (overlap => overlap') /\ (blind => blind')
  BY <1>4 DEF CreateServer, history
<1>5. ASSUME NEW p \in Tries, Persist(p) PROVE (overlap => overlap') /\ (blind => blind')
  BY <1>5 DEF Persist, history
<1>6. ASSUME NEW p \in Tries, AnswerPost(p) PROVE (overlap => overlap') /\ (blind => blind')
  BY <1>6 DEF AnswerPost, Awaited, history
<1>7. ASSUME NEW p \in Tries, PostDies(p) PROVE (overlap => overlap') /\ (blind => blind')
  BY <1>7 DEF PostDies, history
<1>8. ASSUME NEW t \in Terminals, FindSandbox(t) PROVE (overlap => overlap') /\ (blind => blind')
  BY <1>8 DEF FindSandbox, AnswerDelete, history
<1>9. ASSUME NEW t \in Terminals, FindServerByName(t) PROVE (overlap => overlap') /\ (blind => blind')
  BY <1>9 DEF FindServerByName, history
<1>10. ASSUME NEW t \in Terminals, DestroyServer(t) PROVE (overlap => overlap') /\ (blind => blind')
  BY <1>10 DEF DestroyServer, AnswerDelete, history
<1>11. ASSUME NEW t \in Terminals, DropKey(t) PROVE (overlap => overlap') /\ (blind => blind')
  BY <1>11 DEF DropKey, AnswerDelete, history
<1>12. ASSUME NEW t \in Terminals, ForgetRow(t) PROVE (overlap => overlap') /\ (blind => blind')
  BY <1>12 DEF ForgetRow, AnswerDelete, history
<1>13. ASSUME NEW t \in Terminals, DeleteDies(t) PROVE (overlap => overlap') /\ (blind => blind')
  BY <1>13 DEF DeleteDies, AnswerDelete, history
<1>14. ASSUME NEW t \in Terminals, PollStatus(t) PROVE (overlap => overlap') /\ (blind => blind')
  BY <1>14 DEF PollStatus, history
<1>15. ASSUME NEW t \in Terminals, PollTimesOut(t) PROVE (overlap => overlap') /\ (blind => blind')
  BY <1>15 DEF PollTimesOut, history
<1>16. ASSUME NEW t \in Terminals, SshEnds(t) PROVE (overlap => overlap') /\ (blind => blind')
  BY <1>16 DEF SshEnds, history
<1>17. ASSUME NEW t \in Terminals, Provision(t) PROVE (overlap => overlap') /\ (blind => blind')
  BY <1>17 DEF Provision, history, Command
<1>18. ASSUME NEW t \in Terminals, Deprovision(t) PROVE (overlap => overlap') /\ (blind => blind')
  BY <1>18 DEF Deprovision, history, Command
<1>19. ASSUME NEW t \in Terminals, TryAgain(t) PROVE (overlap => overlap') /\ (blind => blind')
  BY <1>19 DEF TryAgain, history
<1>20. ASSUME NEW t \in Terminals, GivesUp(t) PROVE (overlap => overlap') /\ (blind => blind')
  BY <1>20 DEF GivesUp, history
<1>21. CASE Ready
  BY <1>21 DEF Ready, history
<1>22. CASE UNCHANGED vars
  BY <1>22 DEF vars, history
<1> QED
  BY <1>1, <1>2, <1>3, <1>4, <1>5, <1>6, <1>7, <1>8, <1>9, <1>10, <1>11, <1>12, <1>13, <1>14, <1>15, <1>16, <1>17, <1>18, <1>19, <1>20, <1>21, <1>22 DEF Next, PostStep, DeleteStep, CliStep

\* A step leaves the names of the row and the VM alone, but for four.
SameServer ==
  /\ row'.id = row.id /\ row'.key = row.key
  /\ vm'.rid = vm.rid /\ vm'.key = vm.key /\ (vm' = NoVm <=> vm = NoVm)
NewServer ==
  \/ \E a \in Tries : Claim(a) \/ CreateServer(a)
  \/ \E t \in Terminals : DestroyServer(t) \/ ForgetRow(t)

\* Only Claim, CreateServer, DestroyServer and ForgetRow do.
LEMMA ServerKept ==
  Shapes /\ [Next]_vars => SameServer \/ NewServer
<1> SUFFICES ASSUME Shapes, [Next]_vars
             PROVE  SameServer \/ NewServer
  OBVIOUS
<1> USE DEF SameServer, NewServer
<1>1. ASSUME NEW p \in Tries, CheckLimit(p) PROVE SameServer \/ NewServer
  BY <1>1 DEF CheckLimit, SameServer, server, NewServer
<1>2. ASSUME NEW p \in Tries, Claim(p) PROVE SameServer \/ NewServer
  BY <1>2 DEF Claim, SameServer, server, NewServer
<1>3. ASSUME NEW p \in Tries, RegisterKey(p) PROVE SameServer \/ NewServer
  BY <1>3 DEF RegisterKey, SameServer
<1>4. ASSUME NEW p \in Tries, CreateServer(p) PROVE SameServer \/ NewServer
  BY <1>4 DEF CreateServer, SameServer, server, NewServer
<1>5. ASSUME NEW p \in Tries, Persist(p) PROVE SameServer \/ NewServer
  <2>1. row' = row \/ row' = Row(row.id, row.key, TRUE, FALSE)
    BY <1>5 DEF Persist
  <2>2. row'.id = row.id /\ row'.key = row.key
    BY <2>1 DEF Row
  <2> QED
    BY <1>5, <2>2 DEF Persist, SameServer
<1>6. ASSUME NEW p \in Tries, AnswerPost(p) PROVE SameServer \/ NewServer
  BY <1>6 DEF AnswerPost, Awaited, SameServer, server, NewServer
<1>7. ASSUME NEW p \in Tries, PostDies(p) PROVE SameServer \/ NewServer
  BY <1>7 DEF PostDies, SameServer, server, NewServer
<1>8. ASSUME NEW t \in Terminals, FindSandbox(t) PROVE SameServer \/ NewServer
  BY <1>8 DEF FindSandbox, AnswerDelete, SameServer, server, NewServer
<1>9. ASSUME NEW t \in Terminals, FindServerByName(t) PROVE SameServer \/ NewServer
  BY <1>9 DEF FindServerByName, SameServer, server, NewServer
<1>10. ASSUME NEW t \in Terminals, DestroyServer(t) PROVE SameServer \/ NewServer
  BY <1>10 DEF DestroyServer, AnswerDelete, SameServer, server, NewServer
<1>11. ASSUME NEW t \in Terminals, DropKey(t) PROVE SameServer \/ NewServer
  BY <1>11 DEF DropKey, AnswerDelete, SameServer
<1>12. ASSUME NEW t \in Terminals, ForgetRow(t) PROVE SameServer \/ NewServer
  BY <1>12 DEF ForgetRow, AnswerDelete, SameServer, server, NewServer
<1>13. ASSUME NEW t \in Terminals, DeleteDies(t) PROVE SameServer \/ NewServer
  BY <1>13 DEF DeleteDies, AnswerDelete, SameServer, server, NewServer
<1>14. ASSUME NEW t \in Terminals, PollStatus(t) PROVE SameServer \/ NewServer
  BY <1>14 DEF PollStatus, SameServer, server, NewServer
<1>15. ASSUME NEW t \in Terminals, PollTimesOut(t) PROVE SameServer \/ NewServer
  BY <1>15 DEF PollTimesOut, SameServer, server, NewServer
<1>16. ASSUME NEW t \in Terminals, SshEnds(t) PROVE SameServer \/ NewServer
  BY <1>16 DEF SshEnds, SameServer, server, NewServer
<1>17. ASSUME NEW t \in Terminals, Provision(t) PROVE SameServer \/ NewServer
  BY <1>17 DEF Provision, SameServer, server, NewServer
<1>18. ASSUME NEW t \in Terminals, Deprovision(t) PROVE SameServer \/ NewServer
  BY <1>18 DEF Deprovision, SameServer, server, NewServer
<1>19. ASSUME NEW t \in Terminals, TryAgain(t) PROVE SameServer \/ NewServer
  BY <1>19 DEF TryAgain, SameServer, server, NewServer
<1>20. ASSUME NEW t \in Terminals, GivesUp(t) PROVE SameServer \/ NewServer
  BY <1>20 DEF GivesUp, SameServer, server, NewServer
<1>21. CASE Ready
  <2>1. row' = row \/ row' = Row(row.id, row.key, row.hid, TRUE)
    BY <1>21 DEF Ready
  <2>2. row'.id = row.id /\ row'.key = row.key
    BY <2>1 DEF Row
  <2>3. vm # NoVm /\ vm' = Vm(vm.rid, vm.key, TRUE)
    BY <1>21 DEF Ready
  <2>4. vm'.rid = vm.rid /\ vm'.key = vm.key
    BY <2>3 DEF Vm
  <2>5. vm' # NoVm
    BY <2>3 DEF Vm, NoVm
  <2> QED
    BY <2>2, <2>3, <2>4, <2>5 DEF SameServer
<1>22. CASE UNCHANGED vars
  BY <1>22 DEF vars, server
<1> QED
  BY <1>1, <1>2, <1>3, <1>4, <1>5, <1>6, <1>7, <1>8, <1>9, <1>10, <1>11, <1>12, <1>13, <1>14, <1>15, <1>16, <1>17, <1>18, <1>19, <1>20, <1>21, <1>22 DEF Next, PostStep, DeleteStep, CliStep

\* A handler that has claimed the row claimed it before or does now.
SameClaims == \A p \in Tries : (At(p) \in Claimed)' => At(p) \in Claimed /\ prov'[p].rid = prov[p].rid

\* Claim is the only step that claims.
LEMMA ClaimsKept ==
  Shapes /\ [Next]_vars => SameClaims \/ \E a \in Tries : Claim(a)
<1> SUFFICES ASSUME Shapes, [Next]_vars
             PROVE  SameClaims \/ \E a \in Tries : Claim(a)
  OBVIOUS
<1> USE DEF Shapes, SameClaims, At, Claimed
<1>1. ASSUME NEW p \in Tries, CheckLimit(p) PROVE SameClaims \/ \E a \in Tries : Claim(a)
  <2>1. Goes(p, Post("claim", prov[p].key, 0)) \/ Goes(p, Post("refused", prov[p].key, 0))
    BY <1>1 DEF CheckLimit, Says
  <2>2. prov'[p].pc \in {"claim", "refused"} /\ \A q \in Tries : q # p => prov'[q] = prov[q]
    BY <2>1, GoesTo, PostFields
  <2> QED
    BY <2>2
<1>2. ASSUME NEW p \in Tries, Claim(p) PROVE SameClaims \/ \E a \in Tries : Claim(a)
  BY <1>2
<1>3. ASSUME NEW p \in Tries, RegisterKey(p) PROVE SameClaims \/ \E a \in Tries : Claim(a)
  <2>1. Goes(p, Post("server", prov[p].key, prov[p].rid)) \/ Goes(p, Post("failed", prov[p].key, 0))
    BY <1>3 DEF RegisterKey, Says
  <2>2. (prov'[p].pc = "failed" \/ prov'[p].rid = prov[p].rid) /\ \A q \in Tries : q # p => prov'[q] = prov[q]
    BY <2>1, GoesTo, PostFields
  <2>3. prov[p].pc \in Claimed
    BY <1>3 DEF RegisterKey, Claimed
  <2> QED
    BY <2>2, <2>3
<1>4. ASSUME NEW p \in Tries, CreateServer(p) PROVE SameClaims \/ \E a \in Tries : Claim(a)
  <2>1. Goes(p, Post("persist", prov[p].key, prov[p].rid)) \/ Goes(p, Post("failed", prov[p].key, 0))
    BY <1>4 DEF CreateServer, Says
  <2>2. (prov'[p].pc = "failed" \/ prov'[p].rid = prov[p].rid) /\ \A q \in Tries : q # p => prov'[q] = prov[q]
    BY <2>1, GoesTo, PostFields
  <2>3. prov[p].pc \in Claimed
    BY <1>4 DEF CreateServer, Claimed
  <2> QED
    BY <2>2, <2>3
<1>5. ASSUME NEW p \in Tries, Persist(p) PROVE SameClaims \/ \E a \in Tries : Claim(a)
  <2>1. Goes(p, Post("ok", prov[p].key, 0))
    BY <1>5 DEF Persist, Says
  <2>2. prov'[p].pc = "ok" /\ \A q \in Tries : q # p => prov'[q] = prov[q]
    BY <2>1, GoesTo, PostFields
  <2>3. prov[p].pc \in Claimed
    BY <1>5 DEF Persist, Claimed
  <2> QED
    BY <2>2, <2>3
<1>6. ASSUME NEW p \in Tries, AnswerPost(p) PROVE SameClaims \/ \E a \in Tries : Claim(a)
  BY <1>6, GoesTo, PostFields, Nulls DEF AnswerPost, Awaited, Says
<1>7. ASSUME NEW p \in Tries, PostDies(p) PROVE SameClaims \/ \E a \in Tries : Claim(a)
  BY <1>7, GoesTo, PostFields, Nulls DEF PostDies, Says
<1>8. ASSUME NEW t \in Terminals, FindSandbox(t) PROVE SameClaims \/ \E a \in Tries : Claim(a)
  BY <1>8 DEF FindSandbox, AnswerDelete
<1>9. ASSUME NEW t \in Terminals, FindServerByName(t) PROVE SameClaims \/ \E a \in Tries : Claim(a)
  BY <1>9 DEF FindServerByName
<1>10. ASSUME NEW t \in Terminals, DestroyServer(t) PROVE SameClaims \/ \E a \in Tries : Claim(a)
  BY <1>10 DEF DestroyServer, AnswerDelete
<1>11. ASSUME NEW t \in Terminals, DropKey(t) PROVE SameClaims \/ \E a \in Tries : Claim(a)
  BY <1>11 DEF DropKey, AnswerDelete
<1>12. ASSUME NEW t \in Terminals, ForgetRow(t) PROVE SameClaims \/ \E a \in Tries : Claim(a)
  BY <1>12 DEF ForgetRow, AnswerDelete
<1>13. ASSUME NEW t \in Terminals, DeleteDies(t) PROVE SameClaims \/ \E a \in Tries : Claim(a)
  BY <1>13 DEF DeleteDies, AnswerDelete
<1>14. ASSUME NEW t \in Terminals, PollStatus(t) PROVE SameClaims \/ \E a \in Tries : Claim(a)
  BY <1>14 DEF PollStatus
<1>15. ASSUME NEW t \in Terminals, PollTimesOut(t) PROVE SameClaims \/ \E a \in Tries : Claim(a)
  BY <1>15 DEF PollTimesOut
<1>16. ASSUME NEW t \in Terminals, SshEnds(t) PROVE SameClaims \/ \E a \in Tries : Claim(a)
  BY <1>16 DEF SshEnds
<1>17. ASSUME NEW t \in Terminals, Provision(t) PROVE SameClaims \/ \E a \in Tries : Claim(a)
  <2>1. Goes(<<t, 1>>, Post("limit", runs + 1, 0)) /\ <<t, 1>> \in Tries
    BY <1>17, TryOf DEF Provision
  <2>2. prov'[<<t, 1>>].pc = "limit" /\ \A q \in Tries : q # <<t, 1>> => prov'[q] = prov[q]
    BY <2>1, GoesTo, PostFields
  <2> QED
    BY <2>2
<1>18. ASSUME NEW t \in Terminals, Deprovision(t) PROVE SameClaims \/ \E a \in Tries : Claim(a)
  BY <1>18 DEF Deprovision
<1>19. ASSUME NEW t \in Terminals, TryAgain(t) PROVE SameClaims \/ \E a \in Tries : Claim(a)
  <2>1. Goes(<<t, 2>>, Post("limit", cli[t].key, 0)) /\ <<t, 2>> \in Tries
    BY <1>19, TryOf DEF TryAgain
  <2>2. prov'[<<t, 2>>].pc = "limit" /\ \A q \in Tries : q # <<t, 2>> => prov'[q] = prov[q]
    BY <2>1, GoesTo, PostFields
  <2> QED
    BY <2>2
<1>20. ASSUME NEW t \in Terminals, GivesUp(t) PROVE SameClaims \/ \E a \in Tries : Claim(a)
  BY <1>20 DEF GivesUp
<1>21. CASE Ready
  BY <1>21 DEF Ready
<1>22. CASE UNCHANGED vars
  BY <1>22 DEF vars
<1> QED
  BY <1>1, <1>2, <1>3, <1>4, <1>5, <1>6, <1>7, <1>8, <1>9, <1>10, <1>11, <1>12, <1>13, <1>14, <1>15, <1>16, <1>17, <1>18, <1>19, <1>20, <1>21, <1>22 DEF Next, PostStep, DeleteStep, CliStep

\* A deprovision that is about to delete was so before, or starts to now.
Knows == {"destroy", "key", "forget"}
SameDeletes ==
  \A t \in Terminals : dep'[t].pc \in Knows =>
    dep'[t] = dep[t] \/ (dep'[t].pc = "forget" /\ dep[t].pc = "key")
NewDelete == \E t \in Terminals : FindSandbox(t) \/ FindServerByName(t) \/ DestroyServer(t)

\* It starts to when it finds the row, finds the VM or deletes it.
LEMMA DeletesKept ==
  Shapes /\ [Next]_vars => SameDeletes \/ NewDelete
<1> SUFFICES ASSUME Shapes, [Next]_vars
             PROVE  SameDeletes \/ NewDelete
  OBVIOUS
<1> USE DEF Shapes, SameDeletes, Knows
<1>1. ASSUME NEW p \in Tries, CheckLimit(p) PROVE SameDeletes \/ NewDelete
  BY <1>1 DEF CheckLimit
<1>2. ASSUME NEW p \in Tries, Claim(p) PROVE SameDeletes \/ NewDelete
  BY <1>2 DEF Claim
<1>3. ASSUME NEW p \in Tries, RegisterKey(p) PROVE SameDeletes \/ NewDelete
  BY <1>3 DEF RegisterKey
<1>4. ASSUME NEW p \in Tries, CreateServer(p) PROVE SameDeletes \/ NewDelete
  BY <1>4 DEF CreateServer
<1>5. ASSUME NEW p \in Tries, Persist(p) PROVE SameDeletes \/ NewDelete
  BY <1>5 DEF Persist
<1>6. ASSUME NEW p \in Tries, AnswerPost(p) PROVE SameDeletes \/ NewDelete
  BY <1>6 DEF AnswerPost, Awaited
<1>7. ASSUME NEW p \in Tries, PostDies(p) PROVE SameDeletes \/ NewDelete
  BY <1>7 DEF PostDies
<1>8. ASSUME NEW t \in Terminals, FindSandbox(t) PROVE SameDeletes \/ NewDelete
  BY <1>8 DEF NewDelete
<1>9. ASSUME NEW t \in Terminals, FindServerByName(t) PROVE SameDeletes \/ NewDelete
  BY <1>9 DEF NewDelete
<1>10. ASSUME NEW t \in Terminals, DestroyServer(t) PROVE SameDeletes \/ NewDelete
  BY <1>10 DEF NewDelete
<1>11. ASSUME NEW t \in Terminals, DropKey(t) PROVE SameDeletes \/ NewDelete
  <2>1. Answered(t) \/ Serves(t, Delete("forget", dep[t].rid, dep[t].vm))
    BY <1>11 DEF DropKey, AnswerDelete
  <2>2. (dep'[t].pc = "none" \/ dep'[t].pc = "forget") /\ \A u \in Terminals : u # t => dep'[u] = dep[u]
    BY <2>1, AnswersTo, ServesTo, DeleteFields, Nulls
  <2>3. dep[t].pc = "key"
    BY <1>11 DEF DropKey, AnswerDelete
  <2> QED
    BY <2>2, <2>3
<1>12. ASSUME NEW t \in Terminals, ForgetRow(t) PROVE SameDeletes \/ NewDelete
  <2>1. dep'[t].pc = "none" /\ \A u \in Terminals : u # t => dep'[u] = dep[u]
    BY <1>12, AnswersTo, Nulls DEF ForgetRow, AnswerDelete
  <2> QED
    BY <2>1
<1>13. ASSUME NEW t \in Terminals, DeleteDies(t) PROVE SameDeletes \/ NewDelete
  <2>1. dep'[t].pc = "none" /\ \A u \in Terminals : u # t => dep'[u] = dep[u]
    BY <1>13, AnswersTo, Nulls DEF DeleteDies, AnswerDelete
  <2> QED
    BY <2>1
<1>14. ASSUME NEW t \in Terminals, PollStatus(t) PROVE SameDeletes \/ NewDelete
  BY <1>14 DEF PollStatus
<1>15. ASSUME NEW t \in Terminals, PollTimesOut(t) PROVE SameDeletes \/ NewDelete
  <2>1. Serves(t, Delete("find", 0, 0))
    BY <1>15 DEF PollTimesOut
  <2>2. dep'[t].pc = "find" /\ \A u \in Terminals : u # t => dep'[u] = dep[u]
    BY <2>1, ServesTo, DeleteFields
  <2> QED
    BY <2>2
<1>16. ASSUME NEW t \in Terminals, SshEnds(t) PROVE SameDeletes \/ NewDelete
  BY <1>16 DEF SshEnds
<1>17. ASSUME NEW t \in Terminals, Provision(t) PROVE SameDeletes \/ NewDelete
  BY <1>17 DEF Provision
<1>18. ASSUME NEW t \in Terminals, Deprovision(t) PROVE SameDeletes \/ NewDelete
  <2>1. Serves(t, Delete("find", 0, 0))
    BY <1>18 DEF Deprovision
  <2>2. dep'[t].pc = "find" /\ \A u \in Terminals : u # t => dep'[u] = dep[u]
    BY <2>1, ServesTo, DeleteFields
  <2> QED
    BY <2>2
<1>19. ASSUME NEW t \in Terminals, TryAgain(t) PROVE SameDeletes \/ NewDelete
  BY <1>19 DEF TryAgain
<1>20. ASSUME NEW t \in Terminals, GivesUp(t) PROVE SameDeletes \/ NewDelete
  BY <1>20 DEF GivesUp
<1>21. CASE Ready
  BY <1>21 DEF Ready
<1>22. CASE UNCHANGED vars
  BY <1>22 DEF vars
<1> QED
  BY <1>1, <1>2, <1>3, <1>4, <1>5, <1>6, <1>7, <1>8, <1>9, <1>10, <1>11, <1>12, <1>13, <1>14, <1>15, <1>16, <1>17, <1>18, <1>19, <1>20, <1>21, <1>22 DEF Next, PostStep, DeleteStep, CliStep

-----------------------------------------------------------------------------
\* When all is quiet, nothing is at work.
LEMMA QuietIsIdle ==
  Quiet => /\ \A p \in Tries : At(p) = "none"
           /\ \A t \in Terminals : dep[t].pc = "none" /\ cli[t].pc = "idle"
<1> SUFFICES ASSUME Quiet
             PROVE  /\ \A p \in Tries : At(p) = "none"
                    /\ \A t \in Terminals : dep[t].pc = "none" /\ cli[t].pc = "idle"
  OBVIOUS
<1>1. \A t \in Terminals : dep[t].pc = "none" /\ cli[t].pc = "idle"
  BY Nulls DEF Quiet, Free
<1>2. ASSUME NEW p \in Tries PROVE At(p) = "none"
  <2>1. PICK t \in Terminals, k \in {1, 2} : p = <<t, k>>
    BY DEF Tries
  <2>2. prov[p] = NoPost
    BY <2>1 DEF Quiet, Free
  <2> QED
    BY <2>2, Nulls DEF At
<1> QED
  BY <1>1, <1>2

\* One terminal is at work at a time, unless a command was given while another was.
LEMMA OneAtWorkStep ==
  Shapes /\ OneAtWork /\ CliAtWork /\ [Next]_vars => OneAtWork'
<1> SUFFICES ASSUME Shapes, OneAtWork, CliAtWork, [Next]_vars, ~overlap' PROVE Alone'
  BY DEF OneAtWork
<1>0. ~overlap /\ Alone
  BY HistoryStays DEF OneAtWork
<1>1. CASE Smaller
  BY <1>0, <1>1 DEF Smaller, Alone, At
<1>2. ASSUME NEW t \in Terminals, Provision(t) PROVE Alone'
  <2>1. Quiet
    BY <1>2 DEF Provision, Command
  <2>2. Goes(<<t, 1>>, Post("limit", runs + 1, 0)) /\ <<t, 1>> \in Tries
    BY <1>2, TryOf DEF Provision
  <2>3. \A q \in Tries : q # <<t, 1>> => At(q)' = "none"
    BY <2>1, <2>2, QuietIsIdle, GoesTo DEF Shapes, At
  <2>4. \A u \in Terminals : dep'[u].pc = "none" /\ (u # t => cli'[u].pc = "idle")
    BY <1>2, <2>1, QuietIsIdle DEF Provision, Shapes
  <2>5. <<t, 1>>[1] = t
    OBVIOUS
  <2> QED
    BY <2>3, <2>4, <2>5 DEF Alone
<1>3. ASSUME NEW t \in Terminals, Deprovision(t) PROVE Alone'
  <2>1. Quiet
    BY <1>3 DEF Deprovision, Command
  <2>2. Serves(t, Delete("find", 0, 0)) /\ prov' = prov
    BY <1>3 DEF Deprovision
  <2>3. \A u \in Terminals : u # t => dep'[u].pc = "none"
    BY <2>1, <2>2, QuietIsIdle, ServesTo DEF Shapes
  <2>4. \A u \in Terminals : u # t => cli'[u].pc = "idle"
    BY <1>3, <2>1, QuietIsIdle DEF Deprovision, Shapes
  <2>5. \A p \in Tries : At(p)' = "none"
    BY <2>1, <2>2, QuietIsIdle DEF At
  <2> QED
    BY <2>3, <2>4, <2>5 DEF Alone
<1>4. ASSUME NEW t \in Terminals, PollTimesOut(t) PROVE Alone'
  <2>1. \A p \in Tries : prov[p] = NoPost
    BY <1>4 DEF PollTimesOut, Provisioning
  <2>2. Serves(t, Delete("find", 0, 0)) /\ prov' = prov /\ cli[t].pc = "polling"
    BY <1>4 DEF PollTimesOut
  <2>3. \A p \in Tries : At(p)' = "none"
    BY <2>1, <2>2, Nulls DEF At
  <2>4. \A u \in Terminals : u # t => dep'[u].pc = "none"
    BY <1>0, <2>2, ServesTo DEF Shapes, Alone
  <2>5. \A u \in Terminals : u # t => cli'[u].pc = "idle"
    BY <1>0, <1>4, <2>2 DEF PollTimesOut, Shapes, Alone
  <2> QED
    BY <2>3, <2>4, <2>5 DEF Alone
<1>5. ASSUME NEW t \in Terminals, TryAgain(t) PROVE Alone'
  <2>1. cli[t].pc = "asked" /\ dep' = dep
    BY <1>5 DEF TryAgain
  <2>2. \A u \in Terminals : dep'[u].pc = "none"
    BY <1>0, <2>1 DEF Alone, CliAtWork
  <2>3. \A u \in Terminals : u # t => cli'[u].pc = "idle"
    BY <1>0, <1>5, <2>1 DEF TryAgain, Shapes, Alone
  <2>4. Goes(<<t, 2>>, Post("limit", cli[t].key, 0)) /\ <<t, 2>> \in Tries /\ <<t, 2>>[1] = t
    BY <1>5, TryOf DEF TryAgain
  <2>5. \A q \in Tries : At(q)' # "none" => q[1] = t
    BY <1>0, <2>1, <2>4, GoesTo DEF Shapes, Alone, At
  <2> QED
    BY <2>2, <2>3, <2>5 DEF Alone
<1> QED
  BY <1>1, <1>2, <1>3, <1>4, <1>5, Calm DEF Starts

\* A command that waits for a sandbox has no deprovision of its own.
LEMMA CliAtWorkStep ==
  Shapes /\ CliAtWork /\ [Next]_vars => CliAtWork'
<1> SUFFICES ASSUME Shapes, CliAtWork, [Next]_vars PROVE CliAtWork'
  OBVIOUS
<1>1. CASE Smaller
  BY <1>1 DEF Smaller, CliAtWork, Waiting
<1>2. ASSUME NEW t \in Terminals, Provision(t) PROVE CliAtWork'
  <2>1. dep' = dep /\ dep[t].pc = "none" /\ \A u \in Terminals : u # t => cli'[u] = cli[u]
    BY <1>2, Nulls DEF Provision, Free
  <2> QED
    BY <2>1 DEF CliAtWork
<1>3. ASSUME NEW t \in Terminals, Deprovision(t) \/ PollTimesOut(t) PROVE CliAtWork'
  <2>1. Serves(t, Delete("find", 0, 0)) /\ (\E c : c.pc \in {"waiting", "cleaning"} /\ cli' = [cli EXCEPT ![t] = c])
    BY <1>3, CliFields DEF Deprovision, PollTimesOut
  <2>2. cli'[t].pc \in {"waiting", "cleaning"} /\ \A u \in Terminals : u # t => cli'[u] = cli[u] /\ dep'[u] = dep[u]
    BY <2>1, ServesTo, CliFields DEF Shapes
  <2> QED
    BY <2>2 DEF CliAtWork
<1>4. ASSUME NEW t \in Terminals, TryAgain(t) PROVE CliAtWork'
  <2>1. dep' = dep /\ cli[t].pc = "asked" /\ \A u \in Terminals : u # t => cli'[u] = cli[u]
    BY <1>4 DEF TryAgain
  <2> QED
    BY <2>1 DEF CliAtWork
<1> QED
  BY <1>1, <1>2, <1>3, <1>4, Calm DEF Starts

\* What Claim does.
LEMMA ClaimDoes ==
  ASSUME Shapes, NEW p \in Tries, Claim(p)
  PROVE  /\ vm' = vm /\ dep' = dep /\ At(p) = "claim"
         /\ \A q \in Tries : q # p => prov'[q] = prov[q]
         /\ \/ row = NoRow /\ row'.id = rows + 1 /\ prov'[p].rid = rows + 1
            \/ row' = row /\ At(p)' = "ok"
<1>1. vm' = vm /\ dep' = dep /\ At(p) = "claim"
  BY DEF Claim, At
<1>2. CASE row = NoRow
  <2>1. row' = Row(rows + 1, prov[p].key, FALSE, FALSE) /\ Goes(p, Post("key", prov[p].key, rows + 1))
    BY <1>2 DEF Claim
  <2>2. row'.id = rows + 1 /\ prov'[p].rid = rows + 1 /\ \A q \in Tries : q # p => prov'[q] = prov[q]
    <3>1. row'.id = rows + 1
      BY <2>1 DEF Row
    <3>2. prov'[p].rid = rows + 1 /\ \A q \in Tries : q # p => prov'[q] = prov[q]
      BY <2>1, PostFields, GoesTo DEF Shapes
    <3> QED
      BY <3>1, <3>2
  <2> QED
    BY <1>1, <1>2, <2>2
<1>3. CASE row # NoRow
  <2>1. row' = row /\ Goes(p, Post("ok", prov[p].key, 0))
    BY <1>3 DEF Claim, Says
  <2>2. At(p)' = "ok" /\ \A q \in Tries : q # p => prov'[q] = prov[q]
    BY <2>1, PostFields, GoesTo DEF Shapes, At
  <2> QED
    BY <1>1, <2>1, <2>2
<1> QED
  BY <1>2, <1>3

\* The row a handler has claimed stays until it is done.
LEMMA ClaimedRowStep ==
  Shapes /\ Counters /\ OneAtWork /\ ClaimedRow /\ [Next]_vars => ClaimedRow'
<1> SUFFICES ASSUME Shapes, Counters, OneAtWork, ClaimedRow, [Next]_vars, NEW p \in Tries, (At(p) \in Claimed)'
             PROVE  prov'[p].rid # 0 /\ (~overlap' => row'.id = prov'[p].rid)
  BY DEF ClaimedRow
<1>1. ASSUME NEW q \in Tries, Claim(q) PROVE prov'[p].rid # 0 /\ (~overlap' => row'.id = prov'[p].rid)
  <2>1. rows + 1 # 0
    BY OneMore DEF Counters
  <2>2. CASE p = q
    BY <1>1, <2>1, <2>2, ClaimDoes DEF Claimed
  <2>3. CASE p # q
    <3>1. prov'[p] = prov[p]
      BY <1>1, <2>3, ClaimDoes
    <3>2. prov[p].rid # 0 /\ (~overlap => row.id = prov[p].rid)
      BY <3>1 DEF ClaimedRow, At
    <3>3. ~overlap' => row # NoRow
      BY <3>2, HistoryStays, Nulls
    <3> QED
      BY <1>1, <3>1, <3>2, <3>3, ClaimDoes, HistoryStays
  <2> QED
    BY <2>2, <2>3
<1>2. CASE SameClaims
  <2>1. prov'[p].rid = prov[p].rid /\ prov[p].rid # 0 /\ (~overlap => row.id = prov[p].rid) /\ At(p) \in Claimed
    BY <1>2 DEF SameClaims, ClaimedRow
  <2>2. ASSUME NEW t \in Terminals, ForgetRow(t), ~overlap PROVE FALSE
    <3>1. dep[t].pc # "none" /\ At(p) # "none"
      BY <2>1, <2>2 DEF ForgetRow, AnswerDelete, Claimed
    <3> QED
      BY <2>2, <3>1 DEF OneAtWork, Alone
  <2>3. ~overlap => row'.id = row.id \/ \E q \in Tries : Claim(q)
    <3>1. ASSUME NEW q \in Tries, CreateServer(q) PROVE row' = row
      BY <3>1 DEF CreateServer
    <3>2. ASSUME NEW t \in Terminals, DestroyServer(t) PROVE row' = row
      BY <3>2 DEF DestroyServer, AnswerDelete
    <3> QED
      BY <2>2, <3>1, <3>2, ServerKept DEF SameServer, NewServer
  <2> QED
    BY <1>1, <2>1, <2>3, HistoryStays
<1> QED
  BY <1>1, <1>2, ClaimsKept

\* What CreateServer and DestroyServer do.
LEMMA CreateServerDoes ==
  ASSUME NEW p \in Tries, CreateServer(p)
  PROVE  /\ At(p) \in Claimed /\ row' = row /\ dep' = dep
         /\ vm' = vm \/ vm'.rid = prov[p].rid
<1>1. vm' = vm \/ vm' = Vm(prov[p].rid, sshKey, FALSE)
  BY DEF CreateServer
<1> QED
  BY <1>1 DEF CreateServer, At, Claimed, Vm

LEMMA DestroyServerDoes ==
  ASSUME Shapes, NEW t \in Terminals, DestroyServer(t)
  PROVE  /\ dep[t].pc = "destroy" /\ row' = row
         /\ vm' = vm \/ vm' = NoVm
         /\ \A u \in Terminals : u # t => dep'[u] = dep[u]
         /\ dep'[t].pc = "none" \/ (dep'[t].pc = "key" /\ vm' = IF vm.rid = dep[t].vm THEN NoVm ELSE vm)
<1>1. \/ Answered(t)
      \/ /\ vm' = IF vm.rid = dep[t].vm THEN NoVm ELSE vm
         /\ Serves(t, Delete("key", dep[t].rid, dep[t].vm))
  BY DEF DestroyServer, AnswerDelete
<1>2. \A u \in Terminals : u # t => dep'[u] = dep[u]
  BY <1>1, AnswersTo, ServesTo DEF Shapes
<1>3. dep'[t].pc = "none" \/ (dep'[t].pc = "key" /\ vm' = IF vm.rid = dep[t].vm THEN NoVm ELSE vm)
  BY <1>1, AnswersTo, ServesTo, DeleteFields, Nulls DEF Shapes
<1> QED
  BY <1>2, <1>3 DEF DestroyServer, AnswerDelete

\* A VM is named after a row.
LEMMA VmNamedStep ==
  Shapes /\ ClaimedRow /\ VmNamed /\ [Next]_vars => VmNamed'
<1> SUFFICES ASSUME Shapes, ClaimedRow, VmNamed, [Next]_vars PROVE VmNamed'
  OBVIOUS
<1>1. CASE SameServer
  BY <1>1 DEF SameServer, VmNamed
<1>2. ASSUME NEW p \in Tries, Claim(p) PROVE VmNamed'
  BY <1>2 DEF Claim, VmNamed
<1>3. ASSUME NEW p \in Tries, CreateServer(p) PROVE VmNamed'
  BY <1>3, CreateServerDoes DEF VmNamed, ClaimedRow
<1>4. ASSUME NEW t \in Terminals, DestroyServer(t) PROVE VmNamed'
  BY <1>4, DestroyServerDoes DEF VmNamed, NoVm
<1>5. ASSUME NEW t \in Terminals, ForgetRow(t) PROVE VmNamed'
  BY <1>5 DEF ForgetRow, AnswerDelete, VmNamed
<1> QED
  BY <1>1, <1>2, <1>3, <1>4, <1>5, ServerKept DEF NewServer

\* A deprovision deletes the VM there is before it forgets the row.
LEMMA DeleteKnowsStep ==
  Shapes /\ OneAtWork /\ VmHasRow /\ DeleteKnows /\ [Next]_vars => DeleteKnows'
<1> DEFINE Right(t) ==
      /\ dep[t].pc = "destroy" /\ vm # NoVm => vm.rid = dep[t].vm
      /\ dep[t].pc \in {"key", "forget"} => vm = NoVm
<1> SUFFICES ASSUME Shapes, OneAtWork, VmHasRow, DeleteKnows, [Next]_vars, ~overlap', ~blind', NEW t \in Terminals
             PROVE  Right(t)'
  BY DEF DeleteKnows
<1>0. ~overlap /\ ~blind /\ \A u \in Terminals : Right(u)
  BY HistoryStays DEF DeleteKnows
<1>1. ASSUME NEW u \in Terminals, FindSandbox(u) PROVE Right(t)'
  <2>1. vm' = vm
    BY <1>1 DEF FindSandbox, AnswerDelete, server
  <2>2. Answered(u) \/ Serves(u, Delete("destroy", row.id, row.id)) \/ Serves(u, Delete("look", row.id, 0))
    BY <1>1 DEF FindSandbox, AnswerDelete
  <2>3. \A v \in Terminals : v # u => dep'[v] = dep[v]
    BY <2>2, AnswersTo, ServesTo DEF Shapes
  <2>4. dep'[u].pc = "none" \/ dep'[u].pc = "look" \/ (dep'[u].pc = "destroy" /\ dep'[u].vm = row.id)
    BY <2>2, AnswersTo, ServesTo, DeleteFields, Nulls DEF Shapes
  <2>5. vm # NoVm => row.id = vm.rid
    BY <1>0 DEF VmHasRow
  <2> QED
    BY <1>0, <2>1, <2>3, <2>4, <2>5
<1>2. ASSUME NEW u \in Terminals, FindServerByName(u) PROVE Right(t)'
  <2>1. vm' = vm
    BY <1>2 DEF FindServerByName, server
  <2>2. Serves(u, Delete(IF vm = NoVm THEN "forget" ELSE "destroy", dep[u].rid, vm.rid))
    BY <1>2 DEF FindServerByName
  <2>3. \A v \in Terminals : v # u => dep'[v] = dep[v]
    BY <2>2, ServesTo DEF Shapes
  <2>4. dep'[u].pc = (IF vm = NoVm THEN "forget" ELSE "destroy") /\ dep'[u].vm = vm.rid
    BY <2>2, ServesTo, DeleteFields DEF Shapes
  <2> QED
    BY <1>0, <2>1, <2>3, <2>4
<1>3. ASSUME NEW u \in Terminals, DestroyServer(u) PROVE Right(t)'
  <2>1. dep'[u].pc = "key" => vm' = NoVm
    BY <1>0, <1>3, DestroyServerDoes
  <2> QED
    BY <1>0, <1>3, <2>1, DestroyServerDoes
<1>4. CASE SameDeletes /\ SameServer
  BY <1>0, <1>4 DEF SameDeletes, SameServer, Knows
<1>5. ASSUME NEW p \in Tries, CreateServer(p) PROVE Right(t)'
  <2>1. dep[t].pc = "none" /\ dep' = dep
    BY <1>0, <1>5, CreateServerDoes DEF OneAtWork, Alone, Claimed
  <2> QED
    BY <2>1
<1>6. ASSUME NEW p \in Tries, Claim(p) PROVE Right(t)'
  BY <1>0, <1>6 DEF Claim
<1>7. ASSUME NEW u \in Terminals, ForgetRow(u) PROVE Right(t)'
  <2>1. vm' = vm /\ dep'[u].pc = "none" /\ \A v \in Terminals : v # u => dep'[v] = dep[v]
    BY <1>7, AnswersTo, Nulls DEF ForgetRow, AnswerDelete, Shapes
  <2> QED
    BY <1>0, <2>1
<1> QED
  BY <1>1, <1>2, <1>3, <1>4, <1>5, <1>6, <1>7, DeletesKept, ServerKept DEF NewDelete, NewServer

\* The VM is the one of the row.
LEMMA VmHasRowStep ==
  Shapes /\ ClaimedRow /\ VmNamed /\ DeleteKnows /\ VmHasRow /\ [Next]_vars => VmHasRow'
<1> SUFFICES ASSUME Shapes, ClaimedRow, VmNamed, DeleteKnows, VmHasRow, [Next]_vars,
                    vm' # NoVm, ~overlap', ~blind'
             PROVE  row'.id = vm'.rid
  BY DEF VmHasRow, NoVm, Vm
<1>0. ~overlap /\ ~blind
  BY HistoryStays
<1>1. CASE SameServer
  BY <1>0, <1>1 DEF SameServer, VmHasRow
<1>2. ASSUME NEW p \in Tries, Claim(p) PROVE row'.id = vm'.rid
  <2>1. vm' = vm /\ row.id = vm.rid /\ vm.rid # 0
    BY <1>0, <1>2 DEF Claim, VmHasRow, VmNamed
  <2>2. row # NoRow
    BY <2>1, Nulls
  <2> QED
    BY <1>2, <2>1, <2>2, ClaimDoes
<1>3. ASSUME NEW p \in Tries, CreateServer(p) PROVE row'.id = vm'.rid
  BY <1>0, <1>3, CreateServerDoes DEF ClaimedRow, VmHasRow
<1>4. ASSUME NEW t \in Terminals, DestroyServer(t) PROVE row'.id = vm'.rid
  BY <1>0, <1>4, DestroyServerDoes DEF VmHasRow
<1>5. ASSUME NEW t \in Terminals, ForgetRow(t) PROVE row'.id = vm'.rid
  <2>1. vm = NoVm /\ vm' = vm
    BY <1>0, <1>5 DEF ForgetRow, AnswerDelete, DeleteKnows
  <2> QED
    BY <2>1
<1> QED
  BY <1>1, <1>2, <1>3, <1>4, <1>5, ServerKept DEF NewServer

LEMMA VmInvInit ==
  Init => VmInv
<1> SUFFICES ASSUME Init PROVE VmInv
  OBVIOUS
<1>1. /\ \A p \in Tries : At(p) = "none"
      /\ \A t \in Terminals : dep[t].pc = "none" /\ cli[t].pc = "idle"
      /\ vm = NoVm
  BY Nulls DEF Init, At
<1>2. OneAtWork /\ CliAtWork /\ ClaimedRow /\ VmNamed /\ DeleteKnows /\ VmHasRow
  BY <1>1 DEF OneAtWork, Alone, CliAtWork, ClaimedRow, Claimed, VmNamed, DeleteKnows, VmHasRow
<1> QED
  BY <1>2, TypeInit DEF VmInv

LEMMA VmInvStep ==
  VmInv /\ [Next]_vars => VmInv'
<1> SUFFICES ASSUME VmInv, [Next]_vars PROVE VmInv'
  OBVIOUS
<1>1. TypeOK /\ Shapes /\ Counters
  BY TypeParts DEF VmInv
<1> QED
  BY <1>1, TypeStep, OneAtWorkStep, CliAtWorkStep, ClaimedRowStep, VmNamedStep, DeleteKnowsStep, VmHasRowStep
     DEF VmInv

\* No VM is left running without its row, whatever calls failed or died, for any number of
\* terminals, runs and faults, while commands do not overlap and no lookup fails.
THEOREM VmHasItsRow == Spec => []VmHasRow
<1>1. VmInv => VmHasRow
  BY DEF VmInv
<1> QED
  BY <1>1, VmInvInit, VmInvStep, PTL DEF Spec

-----------------------------------------------------------------------------
(* The keys.  A run has one key, and while its commands do not overlap     *)
(* with others the row, the key at the provider and the VM are made with   *)
(* it.                                                                     *)

Passed == {"claim", "ok"} \cup Claimed

RowNamed == row # NoRow => row.id # 0

\* A key is that of a run.
KeysCounted ==
  /\ row.key <= runs
  /\ \A p \in Tries : At(p) # "none" => prov[p].key <= runs
  /\ \A t \in Terminals : cli[t].pc \in Waiting => cli[t].key <= runs

\* What is at work is at work for one run.
OneRun == ~overlap =>
  /\ \A p, q \in Tries : At(p) # "none" /\ At(q) # "none" => prov[p].key = prov[q].key
  /\ \A t \in Terminals, p \in Tries : cli[t].pc \in Waiting /\ At(p) # "none" => prov[p].key = cli[t].key

OneClaim == ~overlap => \A p, q \in Tries : At(p) \in Claimed /\ At(q) \in Claimed => p = q

\* The row that a handler may count on, and a command asks after, is of their run.
RowOfRun == ~overlap /\ row.id # 0 =>
  /\ \A p \in Tries : At(p) \in Passed => row.key = prov[p].key
  /\ \A t \in Terminals : cli[t].pc = "polling" => row.key = cli[t].key

KeyMade == ~overlap => \A p \in Tries : At(p) = "server" => sshKey = prov[p].key
VmOfRow == ~overlap => vm.rid <= rows /\ (vm # NoVm /\ vm.rid = row.id => vm.key = row.key)

\* The row of a run a command still waits for is active when its VM has reported.
ActiveVm == ~overlap /\ row.active =>
  \A t \in Terminals : cli[t].pc \in Waiting /\ row.key = cli[t].key => vm # NoVm /\ vm.rid = row.id

KeyInv ==
  /\ RowNamed /\ KeysCounted /\ OneRun /\ OneClaim
  /\ RowOfRun /\ KeyMade /\ VmOfRow /\ ActiveVm /\ KeyWorks

\* The handlers change by their steps, by the commands that send them, and not otherwise.
LEMMA HandlersKept ==
  ASSUME [Next]_vars
  PROVE  \/ prov' = prov
         \/ \E p \in Tries : PostStep(p) \/ PostDies(p)
         \/ \E t \in Terminals : Provision(t) \/ TryAgain(t)
<1>1. ASSUME NEW t \in Terminals, DeleteStep(t) PROVE prov' = prov
  BY <1>1 DEF DeleteStep, FindSandbox, FindServerByName, DestroyServer, DropKey, ForgetRow, AnswerDelete
<1>2. ASSUME NEW t \in Terminals, DeleteDies(t) \/ CliStep(t) PROVE prov' = prov
  BY <1>2 DEF DeleteDies, AnswerDelete, CliStep, PollStatus, PollTimesOut, SshEnds
<1>3. ASSUME NEW t \in Terminals, Deprovision(t) \/ GivesUp(t) PROVE prov' = prov
  BY <1>3 DEF Deprovision, GivesUp
<1>4. CASE Ready \/ UNCHANGED vars
  BY <1>4 DEF Ready, vars
<1> QED
  BY <1>1, <1>2, <1>3, <1>4 DEF Next

\* A handler passes the limit when there is no row, or has passed it before.
LEMMA PassedKept ==
  ASSUME Shapes, [Next]_vars, NEW p \in Tries, At(p)' \in Passed
  PROVE  At(p) \in Passed \/ (CheckLimit(p) /\ row = NoRow)
<1> USE DEF Shapes, At
<1>0. Passed = {"claim", "ok", "key", "server", "persist"}
  BY DEF Passed, Claimed
<1>1. ASSUME NEW q \in Tries, CheckLimit(q) PROVE At(p) \in Passed \/ (CheckLimit(p) /\ row = NoRow)
  <2>1. (Goes(q, Post("claim", prov[q].key, 0)) /\ row = NoRow) \/ Goes(q, Post("refused", prov[q].key, 0))
    BY <1>1 DEF CheckLimit, Says
  <2> QED
    BY <1>0, <1>1, <2>1, GoesTo, PostFields
<1>2. ASSUME NEW q \in Tries, Claim(q) \/ RegisterKey(q) \/ CreateServer(q) \/ Persist(q)
      PROVE  At(p) \in Passed
  <2>1. At(q) \in Passed
    BY <1>0, <1>2 DEF Claim, RegisterKey, CreateServer, Persist
  <2>2. \E post : Goes(q, post)
    BY <1>2 DEF Claim, RegisterKey, CreateServer, Persist, Says
  <2> QED
    BY <2>1, <2>2, GoesTo
<1>3. ASSUME NEW q \in Tries, AnswerPost(q) \/ PostDies(q) PROVE At(p) \in Passed
  <2>1. Goes(q, NoPost)
    BY <1>3 DEF AnswerPost, Awaited, PostDies
  <2> QED
    BY <1>0, <2>1, GoesTo, Nulls
<1>4. ASSUME NEW t \in Terminals, Provision(t) \/ TryAgain(t) PROVE At(p) \in Passed
  <2>1. \E q \in Tries : \E key : Goes(q, Post("limit", key, 0))
    BY <1>4, TryOf DEF Provision, TryAgain
  <2> QED
    BY <1>0, <2>1, GoesTo, PostFields
<1>5. CASE prov' = prov
  BY <1>5
<1> QED
  BY <1>1, <1>2, <1>3, <1>4, <1>5, HandlersKept DEF PostStep

\* A handler goes to create the VM when it has made the key.
LEMMA MadeKept ==
  ASSUME Shapes, [Next]_vars, NEW p \in Tries, At(p)' = "server"
  PROVE  (RegisterKey(p) /\ sshKey' = prov'[p].key) \/ At(p) = "server"
<1> USE DEF Shapes, At
<1>1. ASSUME NEW q \in Tries, RegisterKey(q)
      PROVE  (RegisterKey(p) /\ sshKey' = prov'[p].key) \/ At(p) = "server"
  <2>1. \/ Goes(q, Post("server", prov[q].key, prov[q].rid)) /\ sshKey' = prov[q].key
        \/ Goes(q, Post("failed", prov[q].key, 0))
    BY <1>1 DEF RegisterKey, Says
  <2> QED
    BY <1>1, <2>1, GoesTo, PostFields
<1>2. ASSUME NEW q \in Tries, CheckLimit(q) \/ Claim(q) \/ CreateServer(q) \/ Persist(q)
      PROVE  At(p) = "server"
  <2>1. \E pc \in {"claim", "refused", "key", "ok", "persist", "failed"} : \E key, rid : Goes(q, Post(pc, key, rid))
    BY <1>2 DEF CheckLimit, Claim, CreateServer, Persist, Says
  <2> QED
    BY <2>1, GoesTo, PostFields
<1>3. ASSUME NEW q \in Tries, AnswerPost(q) \/ PostDies(q) PROVE At(p) = "server"
  <2>1. Goes(q, NoPost)
    BY <1>3 DEF AnswerPost, Awaited, PostDies
  <2> QED
    BY <2>1, GoesTo, Nulls
<1>4. ASSUME NEW t \in Terminals, Provision(t) \/ TryAgain(t) PROVE At(p) = "server"
  <2>1. \E q \in Tries : \E key : Goes(q, Post("limit", key, 0))
    BY <1>4, TryOf DEF Provision, TryAgain
  <2> QED
    BY <2>1, GoesTo, PostFields
<1>5. CASE prov' = prov
  BY <1>5
<1> QED
  BY <1>1, <1>2, <1>3, <1>4, <1>5, HandlersKept DEF PostStep

\* Only these touch the key at the provider.
LEMMA SshKeyKept ==
  ASSUME [Next]_vars
  PROVE  \/ sshKey' = sshKey
         \/ \E p \in Tries : RegisterKey(p)
         \/ \E t \in Terminals : DropKey(t)
<1>1. ASSUME NEW p \in Tries, CheckLimit(p) \/ Claim(p) \/ CreateServer(p) \/ Persist(p) \/ AnswerPost(p) \/ PostDies(p)
      PROVE  sshKey' = sshKey
  BY <1>1 DEF CheckLimit, Claim, CreateServer, Persist, AnswerPost, Awaited, PostDies, server
<1>2. ASSUME NEW t \in Terminals, FindSandbox(t) \/ FindServerByName(t) \/ DestroyServer(t) \/ ForgetRow(t) \/ DeleteDies(t)
      PROVE  sshKey' = sshKey
  BY <1>2 DEF FindSandbox, FindServerByName, DestroyServer, ForgetRow, DeleteDies, AnswerDelete, server
<1>3. ASSUME NEW t \in Terminals, CliStep(t) \/ Provision(t) \/ Deprovision(t) \/ TryAgain(t) \/ GivesUp(t)
      PROVE  sshKey' = sshKey
  BY <1>3 DEF CliStep, PollStatus, PollTimesOut, SshEnds, Provision, Deprovision, TryAgain, GivesUp, server
<1>4. CASE Ready \/ UNCHANGED vars
  BY <1>4 DEF Ready, vars, server
<1> QED
  BY <1>1, <1>2, <1>3, <1>4 DEF Next, PostStep, DeleteStep

\* A row is left as it is, but for these.
LEMMA RowKept ==
  ASSUME [Next]_vars
  PROVE  \/ row' = row
         \/ Ready
         \/ \E p \in Tries : Claim(p) \/ Persist(p)
         \/ \E t \in Terminals : ForgetRow(t)
<1>1. ASSUME NEW p \in Tries, CheckLimit(p) \/ RegisterKey(p) \/ CreateServer(p) \/ AnswerPost(p) \/ PostDies(p)
      PROVE  row' = row
  BY <1>1 DEF CheckLimit, RegisterKey, CreateServer, AnswerPost, Awaited, PostDies, server
<1>2. ASSUME NEW t \in Terminals, FindSandbox(t) \/ FindServerByName(t) \/ DestroyServer(t) \/ DropKey(t) \/ DeleteDies(t)
      PROVE  row' = row
  BY <1>2 DEF FindSandbox, FindServerByName, DestroyServer, DropKey, DeleteDies, AnswerDelete, server
<1>3. ASSUME NEW t \in Terminals, CliStep(t) \/ Provision(t) \/ Deprovision(t) \/ TryAgain(t) \/ GivesUp(t)
      PROVE  row' = row
  BY <1>3 DEF CliStep, PollStatus, PollTimesOut, SshEnds, Provision, Deprovision, TryAgain, GivesUp, server
<1>4. CASE UNCHANGED vars
  BY <1>4 DEF vars, server
<1> QED
  BY <1>1, <1>2, <1>3, <1>4 DEF Next, PostStep, DeleteStep

\* An active row was active before, or its VM reports now.
LEMMA ActiveKept ==
  ASSUME Shapes, [Next]_vars, row'.active
  PROVE  (row.active /\ row' = row) \/ (Ready /\ vm # NoVm /\ vm.rid = row.id)
<1>1. ASSUME NEW p \in Tries, Claim(p) PROVE row' = row
  <2>1. row' = row \/ row' = Row(rows + 1, prov[p].key, FALSE, FALSE)
    BY <1>1 DEF Claim
  <2> QED
    BY <2>1 DEF Row
<1>2. ASSUME NEW p \in Tries, Persist(p) PROVE row' = row
  <2>1. row' = row \/ row' = Row(row.id, row.key, TRUE, FALSE)
    BY <1>2 DEF Persist
  <2> QED
    BY <2>1 DEF Row
<1>3. ASSUME NEW t \in Terminals, ForgetRow(t) PROVE row' = row
  BY <1>3, Nulls DEF ForgetRow, AnswerDelete
<1>4. CASE Ready
  <2>1. vm # NoVm /\ (row' = row \/ vm.rid = row.id)
    BY <1>4 DEF Ready
  <2> QED
    BY <1>4, <2>1
<1> QED
  BY <1>1, <1>2, <1>3, <1>4, RowKept

\* Rows and runs are never counted down, and a run is counted by Provision.
LEMMA CountsGrow ==
  ASSUME Counters, [Next]_vars
  PROVE  /\ rows' \in Nat /\ runs' \in Nat /\ rows <= rows' /\ runs <= runs'
         /\ runs' = runs \/ \E t \in Terminals : Provision(t)
<1>0. rows \in Nat /\ runs \in Nat /\ rows <= rows /\ runs <= runs
  BY SandboxAssumption DEF Counters
<1>1. ASSUME NEW p \in Tries, PostStep(p) \/ PostDies(p) PROVE runs' = runs /\ (rows' = rows \/ rows' = rows + 1)
  <2>1. CASE Claim(p)
    BY <2>1 DEF Claim, history
  <2>2. CASE CheckLimit(p) \/ RegisterKey(p) \/ CreateServer(p)
    BY <2>2 DEF CheckLimit, RegisterKey, CreateServer, server, history
  <2>3. CASE Persist(p) \/ AnswerPost(p) \/ PostDies(p)
    BY <2>3 DEF Persist, AnswerPost, Awaited, PostDies, server, history
  <2> QED
    BY <1>1, <2>1, <2>2, <2>3 DEF PostStep
<1>2. ASSUME NEW t \in Terminals, DeleteStep(t) \/ DeleteDies(t) PROVE runs' = runs /\ rows' = rows
  BY <1>2 DEF DeleteStep, FindSandbox, FindServerByName, DestroyServer, DropKey, ForgetRow, DeleteDies, AnswerDelete, server, history
<1>3. ASSUME NEW t \in Terminals, CliStep(t) \/ Deprovision(t) \/ TryAgain(t) \/ GivesUp(t)
      PROVE  runs' = runs /\ rows' = rows
  BY <1>3 DEF CliStep, PollStatus, PollTimesOut, SshEnds, Deprovision, TryAgain, GivesUp, server, history
<1>4. ASSUME NEW t \in Terminals, Provision(t) PROVE runs' = runs + 1 /\ rows' = rows
  BY <1>4 DEF Provision, server
<1>5. ASSUME Ready \/ UNCHANGED vars PROVE runs' = runs /\ rows' = rows
  BY <1>5 DEF Ready, vars, server, history
<1>6. \/ runs' = runs /\ (rows' = rows \/ rows' = rows + 1)
      \/ runs' = runs + 1 /\ rows' = rows /\ \E t \in Terminals : Provision(t)
  BY <1>1, <1>2, <1>3, <1>4, <1>5 DEF Next
<1> QED
  BY <1>0, <1>6

\* A command that still asks asked before, or was given now.
LEMMA AskingKept ==
  ASSUME Shapes, [Next]_vars, NEW t \in Terminals, cli'[t].pc \in Waiting
  PROVE  \/ cli[t].pc \in Waiting /\ cli'[t].key = cli[t].key
         \/ Provision(t) /\ cli'[t].pc = "asked" /\ cli'[t].key = runs + 1
<1> USE DEF Shapes
<1>1. CASE Smaller
  BY <1>1 DEF Smaller
<1>2. ASSUME NEW u \in Terminals, Provision(u)
      PROVE  cli'[t] = cli[t] \/ (Provision(t) /\ cli'[t].pc = "asked" /\ cli'[t].key = runs + 1)
  <2>1. cli' = [cli EXCEPT ![u] = Cli("asked", runs + 1)]
    BY <1>2 DEF Provision
  <2> QED
    BY <1>2, <2>1, CliFields
<1>3. ASSUME NEW u \in Terminals, Deprovision(u) \/ PollTimesOut(u) PROVE cli'[t] = cli[t]
  <2>1. \E c : c.pc \in {"waiting", "cleaning"} /\ cli' = [cli EXCEPT ![u] = c]
    BY <1>3, CliFields DEF Deprovision, PollTimesOut
  <2> QED
    BY <2>1, CliFields DEF Waiting
<1>4. ASSUME NEW u \in Terminals, TryAgain(u)
      PROVE  cli'[t] = cli[t] \/ (cli[t].pc \in Waiting /\ cli'[t].key = cli[t].key)
  <2>1. cli' = [cli EXCEPT ![u] = Cli("again", cli[u].key)] /\ cli[u].pc = "asked"
    BY <1>4 DEF TryAgain
  <2> QED
    BY <2>1, CliFields DEF Waiting
<1> QED
  BY <1>1, <1>2, <1>3, <1>4, Calm DEF Starts

\* A command polls for a handler that answered ok.
LEMMA PollingKept ==
  ASSUME Shapes, [Next]_vars, NEW t \in Terminals, cli'[t].pc = "polling"
  PROVE  cli[t].pc = "polling" \/ \E p \in Tries : p[1] = t /\ At(p) = "ok" /\ AnswerPost(p)
<1> USE DEF Shapes
<1>1. ASSUME NEW p \in Tries, AnswerPost(p) PROVE cli'[t] = cli[t] \/ (p[1] = t /\ At(p) = "ok")
  <2>1. \/ cli' = cli
        \/ cli' = [cli EXCEPT ![p[1]] = IF prov[p].pc = "ok" THEN Cli("polling", cli[p[1]].key) ELSE Idle]
    BY <1>1 DEF AnswerPost, Awaited
  <2> QED
    BY <2>1, CliFields, Nulls DEF At
<1>2. ASSUME NEW p \in Tries, CheckLimit(p) \/ Claim(p) \/ RegisterKey(p) \/ CreateServer(p) \/ Persist(p) \/ PostDies(p)
      PROVE  cli' = cli
  BY <1>2 DEF CheckLimit, Claim, RegisterKey, CreateServer, Persist, PostDies
<1>3. ASSUME NEW u \in Terminals, DeleteStep(u) \/ DeleteDies(u) PROVE cli'[t] = cli[t]
  <2>1. cli' = cli \/ Answered(u)
    BY <1>3 DEF DeleteStep, FindSandbox, FindServerByName, DestroyServer, DropKey, ForgetRow, DeleteDies, AnswerDelete
  <2> QED
    BY <2>1, AnswersTo, Nulls
<1>4. ASSUME NEW u \in Terminals, CliStep(u) \/ Provision(u) \/ Deprovision(u) \/ TryAgain(u) \/ GivesUp(u)
      PROVE  cli'[t] = cli[t]
  <2>1. \E c : cli' = [cli EXCEPT ![u] = c] /\ c.pc # "polling"
    <3>1. CASE Provision(u) \/ TryAgain(u)
      BY <3>1, CliFields DEF Provision, TryAgain
    <3>2. CASE Deprovision(u) \/ PollTimesOut(u)
      BY <3>2, CliFields DEF Deprovision, PollTimesOut
    <3>3. CASE GivesUp(u) \/ SshEnds(u)
      BY <3>3, Nulls DEF GivesUp, SshEnds
    <3>4. CASE PollStatus(u)
      BY <3>4, CliFields, Nulls DEF PollStatus
    <3> QED
      BY <1>4, <3>1, <3>2, <3>3, <3>4 DEF CliStep
  <2> QED
    BY <2>1
<1>5. CASE Ready \/ UNCHANGED vars
  BY <1>5 DEF Ready, vars
<1> QED
  BY <1>1, <1>2, <1>3, <1>4, <1>5 DEF Next, PostStep

\* A command logs in when it is told of an active server.
LEMMA SshKept ==
  ASSUME Shapes, [Next]_vars, NEW t \in Terminals, cli'[t].pc = "ssh"
  PROVE  cli[t].pc = "ssh" \/ (cli[t].pc = "polling" /\ row.active /\ server' = server)
<1> USE DEF Shapes
<1>1. ASSUME NEW p \in Tries, PostStep(p) \/ PostDies(p) PROVE cli'[t] = cli[t]
  <2>1. CASE AnswerPost(p)
    <3>1. \/ cli' = cli
          \/ cli' = [cli EXCEPT ![p[1]] = IF prov[p].pc = "ok" THEN Cli("polling", cli[p[1]].key) ELSE Idle]
      BY <2>1 DEF AnswerPost, Awaited
    <3> QED
      BY <3>1, CliFields, Nulls
  <2>2. CASE ~AnswerPost(p)
    BY <1>1, <2>2 DEF PostStep, CheckLimit, Claim, RegisterKey, CreateServer, Persist, PostDies
  <2> QED
    BY <2>1, <2>2
<1>2. ASSUME NEW u \in Terminals, DeleteStep(u) \/ DeleteDies(u) PROVE cli'[t] = cli[t]
  <2>1. cli' = cli \/ Answered(u)
    BY <1>2 DEF DeleteStep, FindSandbox, FindServerByName, DestroyServer, DropKey, ForgetRow, DeleteDies, AnswerDelete
  <2> QED
    BY <2>1, AnswersTo, Nulls
<1>3. ASSUME NEW u \in Terminals, PollStatus(u)
      PROVE  cli'[t] = cli[t] \/ (cli[t].pc = "polling" /\ row.active /\ server' = server)
  <2>1. /\ cli[u].pc = "polling" /\ server' = server
        /\ \/ cli' = [cli EXCEPT ![u] = Idle]
           \/ row.active /\ cli' = [cli EXCEPT ![u] = Cli("ssh", cli[u].key)]
    BY <1>3 DEF PollStatus, server
  <2> QED
    BY <2>1, Nulls
<1>4. ASSUME NEW u \in Terminals, PollTimesOut(u) \/ SshEnds(u) \/ Provision(u) \/ Deprovision(u) \/ TryAgain(u) \/ GivesUp(u)
      PROVE  cli'[t] = cli[t]
  <2>1. \E c : cli' = [cli EXCEPT ![u] = c] /\ c.pc # "ssh"
    <3>1. CASE Provision(u) \/ TryAgain(u)
      BY <3>1, CliFields DEF Provision, TryAgain
    <3>2. CASE Deprovision(u) \/ PollTimesOut(u)
      BY <3>2, CliFields DEF Deprovision, PollTimesOut
    <3>3. CASE GivesUp(u) \/ SshEnds(u)
      BY <3>3, Nulls DEF GivesUp, SshEnds
    <3> QED
      BY <1>4, <3>1, <3>2, <3>3
  <2> QED
    BY <2>1
<1>5. CASE Ready \/ UNCHANGED vars
  BY <1>5 DEF Ready, vars
<1> QED
  BY <1>1, <1>2, <1>3, <1>4, <1>5 DEF Next, CliStep

\* A handler that has passed the limit keeps its key.
LEMMA PassedKey ==
  ASSUME Shapes, [Next]_vars, NEW p \in Tries, At(p)' \in Passed
  PROVE  At(p)' # "none" /\ prov'[p].key = prov[p].key
<1> USE DEF Shapes, At
<1>0. prov'[p].pc # "none" /\ prov'[p].pc # "limit"
  BY DEF Passed, Claimed
<1>1. CASE Smaller
  BY <1>0, <1>1 DEF Smaller
<1>2. ASSUME NEW t \in Terminals, Provision(t) \/ TryAgain(t) PROVE prov'[p] = prov[p]
  <2>1. \E q \in Tries : \E key : Goes(q, Post("limit", key, 0))
    BY <1>2, TryOf DEF Provision, TryAgain
  <2> QED
    BY <1>0, <2>1, GoesTo, PostFields
<1>3. ASSUME NEW t \in Terminals, Deprovision(t) \/ PollTimesOut(t) PROVE prov'[p] = prov[p]
  BY <1>3 DEF Deprovision, PollTimesOut
<1> QED
  BY <1>0, <1>1, <1>2, <1>3, Calm DEF Starts

\* The row there is was there before, or a handler has just claimed it.
LEMMA RowKeyKept ==
  ASSUME Shapes, [Next]_vars, row'.id # 0
  PROVE  \/ row'.id = row.id /\ row'.key = row.key
         \/ \E a \in Tries : Claim(a) /\ row'.key = prov[a].key /\ row'.id = rows + 1
<1>1. CASE SameServer
  BY <1>1 DEF SameServer
<1>2. ASSUME NEW a \in Tries, Claim(a)
      PROVE  row' = row \/ (row'.key = prov[a].key /\ row'.id = rows + 1)
  BY <1>2 DEF Claim, Row
<1>3. ASSUME NEW a \in Tries, CreateServer(a) PROVE row' = row
  BY <1>3 DEF CreateServer
<1>4. ASSUME NEW t \in Terminals, DestroyServer(t) PROVE row' = row
  BY <1>4 DEF DestroyServer, AnswerDelete
<1>5. ASSUME NEW t \in Terminals, ForgetRow(t) PROVE row' = row
  BY <1>5, Nulls DEF ForgetRow, AnswerDelete
<1> QED
  BY <1>1, <1>2, <1>3, <1>4, <1>5, ServerKept DEF NewServer

\* A command that waits for its sandbox keeps the VM there is.
LEMMA VmStays ==
  ASSUME Shapes, OneAtWork, CliAtWork, [Next]_vars, ~overlap,
         NEW t \in Terminals, cli[t].pc \in Waiting, vm # NoVm
  PROVE  vm' # NoVm /\ vm'.rid = vm.rid /\ vm'.key = vm.key
<1>1. CASE SameServer
  BY <1>1 DEF SameServer
<1>2. ASSUME NEW a \in Tries, Claim(a) \/ CreateServer(a) PROVE vm' = vm
  BY <1>2 DEF Claim, CreateServer
<1>3. ASSUME NEW u \in Terminals, DestroyServer(u) PROVE FALSE
  <2>1. dep[u].pc # "none" /\ cli[t].pc # "idle"
    BY <1>3 DEF DestroyServer, AnswerDelete, Waiting
  <2>2. t = u
    BY <2>1 DEF OneAtWork, Alone
  <2> QED
    BY <2>1, <2>2 DEF CliAtWork, Waiting
<1>4. ASSUME NEW u \in Terminals, ForgetRow(u) PROVE vm' = vm
  BY <1>4 DEF ForgetRow, AnswerDelete
<1> QED
  BY <1>1, <1>2, <1>3, <1>4, ServerKept DEF NewServer

-----------------------------------------------------------------------------
\* A row has an id that counts it.
LEMMA RowNamedStep ==
  Shapes /\ Counters /\ ClaimedRow /\ VmNamed /\ RowNamed /\ [Next]_vars => RowNamed'
<1> SUFFICES ASSUME Shapes, Counters, ClaimedRow, VmNamed, RowNamed, [Next]_vars, row' # NoRow PROVE row'.id # 0
  BY DEF RowNamed, NoRow, Row
<1>1. CASE row' = row
  BY <1>1 DEF RowNamed
<1>2. ASSUME NEW p \in Tries, Claim(p) PROVE row' = row \/ row'.id # 0
  BY <1>2, OneMore DEF Claim, Row, Counters
<1>3. ASSUME NEW p \in Tries, Persist(p) PROVE row' = row \/ row'.id # 0
  <2>1. prov[p].rid # 0
    BY <1>3 DEF Persist, ClaimedRow, Claimed, At
  <2> QED
    BY <1>3, <2>1 DEF Persist, Row
<1>4. CASE Ready
  <2>1. vm.rid # 0
    BY <1>4 DEF Ready, VmNamed
  <2>2. row' = row \/ (row.id = vm.rid /\ row'.id = row.id)
    BY <1>4 DEF Ready, Row
  <2> QED
    BY <1>1, <2>1, <2>2
<1>5. ASSUME NEW t \in Terminals, ForgetRow(t) PROVE row' = row
  BY <1>5 DEF ForgetRow, AnswerDelete
<1> QED
  BY <1>1, <1>2, <1>3, <1>4, <1>5, RowKept

\* Keys are made by runs of the command alone.
LEMMA KeysCountedStep ==
  Shapes /\ Counters /\ KeysCounted /\ [Next]_vars => KeysCounted'
<1> SUFFICES ASSUME Shapes, Counters, KeysCounted, [Next]_vars PROVE KeysCounted'
  OBVIOUS
<1>0. /\ runs \in Nat /\ runs' \in Nat /\ runs <= runs' /\ row.key \in Nat
      /\ \A p \in Tries : prov[p].key \in Nat
      /\ \A t \in Terminals : cli[t].key \in Nat
  BY CountsGrow, FieldTypes, SandboxAssumption DEF Shapes, Counters
<1>1. row'.key <= runs'
  <2>1. CASE row'.id # 0 /\ row'.id = row.id /\ row'.key = row.key
    BY <1>0, <2>1 DEF KeysCounted
  <2>2. ASSUME NEW a \in Tries, Claim(a), row'.key = prov[a].key PROVE row'.key <= runs'
    <3>1. prov[a].key <= runs
      BY <2>2 DEF KeysCounted, Claim, At
    <3> QED
      BY <1>0, <2>2, <3>1
  <2>3. CASE SameServer
    BY <1>0, <2>3 DEF SameServer, KeysCounted
  <2>4. ASSUME NEW p \in Tries, CreateServer(p) \/ Claim(p), row'.id = 0 PROVE row' = row
    <3>1. rows + 1 # 0
      BY OneMore DEF Counters
    <3>2. CASE Claim(p)
      BY <2>4, <3>1, <3>2 DEF Claim, Row
    <3> QED
      BY <2>4, <3>2 DEF CreateServer
  <2>5. ASSUME NEW t \in Terminals, DestroyServer(t) \/ ForgetRow(t), row'.id = 0 PROVE row' = row \/ row' = NoRow
    BY <2>5 DEF DestroyServer, ForgetRow, AnswerDelete
  <2>6. CASE row' = row \/ row' = NoRow
    BY <1>0, <2>6, Nulls DEF KeysCounted
  <2> QED
    BY <2>1, <2>2, <2>3, <2>4, <2>5, <2>6, RowKeyKept, ServerKept DEF NewServer
<1>2. ASSUME NEW p \in Tries, At(p)' # "none" PROVE prov'[p].key <= runs'
  <2>1. CASE At(p) # "none" /\ prov'[p].key = prov[p].key
    BY <1>0, <2>1 DEF KeysCounted
  <2>2. ASSUME NEW t \in Terminals, Provision(t)
        PROVE  prov'[p] = prov[p] \/ prov'[p].key = runs'
    <3>1. Goes(<<t, 1>>, Post("limit", runs + 1, 0)) /\ runs' = runs + 1 /\ <<t, 1>> \in Tries
      BY <2>2, TryOf DEF Provision
    <3> QED
      BY <3>1, GoesTo, PostFields DEF Shapes
  <2>3. ASSUME NEW t \in Terminals, TryAgain(t)
        PROVE  prov'[p] = prov[p] \/ prov'[p].key <= runs'
    <3>1. Goes(<<t, 2>>, Post("limit", cli[t].key, 0)) /\ cli[t].pc \in Waiting /\ <<t, 2>> \in Tries
      BY <2>3, TryOf DEF TryAgain, Waiting
    <3>2. cli[t].key <= runs'
      BY <1>0, <3>1 DEF KeysCounted
    <3> QED
      BY <3>1, <3>2, GoesTo, PostFields DEF Shapes
  <2>4. ASSUME NEW t \in Terminals, Deprovision(t) \/ PollTimesOut(t) PROVE prov'[p] = prov[p]
    BY <2>4 DEF Deprovision, PollTimesOut
  <2>5. CASE prov'[p] = prov[p]
    BY <1>2, <2>1, <2>5 DEF At
  <2>6. CASE Smaller
    BY <1>2, <2>1, <2>6 DEF Smaller, At
  <2>7. runs' <= runs'
    BY <1>0
  <2> QED
    BY <2>2, <2>3, <2>4, <2>5, <2>6, <2>7, Calm DEF Starts
<1>3. ASSUME NEW t \in Terminals, cli'[t].pc \in Waiting PROVE cli'[t].key <= runs'
  <2>1. CASE cli[t].pc \in Waiting /\ cli'[t].key = cli[t].key
    BY <1>0, <2>1 DEF KeysCounted
  <2>2. CASE Provision(t) /\ cli'[t].key = runs + 1
    BY <1>0, <2>2 DEF Provision
  <2> QED
    BY <1>3, <2>1, <2>2, AskingKept
<1> QED
  BY <1>1, <1>2, <1>3 DEF KeysCounted

\* The handlers at work, and the command that waits for them, are of one run.
LEMMA OneRunStep ==
  Shapes /\ OneAtWork /\ OneRun /\ [Next]_vars => OneRun'
<1> DEFINE Same ==
      /\ \A p, q \in Tries : At(p) # "none" /\ At(q) # "none" => prov[p].key = prov[q].key
      /\ \A t \in Terminals, p \in Tries : cli[t].pc \in Waiting /\ At(p) # "none" => prov[p].key = cli[t].key
<1> SUFFICES ASSUME Shapes, OneAtWork, OneRun, [Next]_vars, ~overlap' PROVE Same'
  BY DEF OneRun
<1>0. Same /\ Alone
  BY HistoryStays DEF OneAtWork, OneRun
<1>1. CASE Smaller
  BY <1>0, <1>1 DEF Smaller, At
<1>2. ASSUME NEW t \in Terminals, Provision(t) PROVE Same'
  <2>1. Quiet
    BY <1>2 DEF Provision, Command
  <2>2. Goes(<<t, 1>>, Post("limit", runs + 1, 0)) /\ <<t, 1>> \in Tries
    BY <1>2, TryOf DEF Provision
  <2>3. prov'[<<t, 1>>].key = runs + 1 /\ \A q \in Tries : q # <<t, 1>> => At(q)' = "none"
    BY <2>1, <2>2, QuietIsIdle, GoesTo, PostFields DEF Shapes, At
  <2>4. \A u \in Terminals : cli'[u].pc \in Waiting => cli'[u].key = runs + 1
    BY <2>1, QuietIsIdle, AskingKept DEF Waiting
  <2> QED
    BY <2>3, <2>4
<1>3. ASSUME NEW t \in Terminals, Deprovision(t) \/ PollTimesOut(t) PROVE Same'
  <2>1. prov' = prov /\ ~\E u \in Terminals : Provision(u) /\ cli'[u].pc = "asked"
    <3>1. prov' = prov /\ \E c : c.pc \in {"waiting", "cleaning"} /\ cli' = [cli EXCEPT ![t] = c]
      BY <1>3, CliFields DEF Deprovision, PollTimesOut
    <3>2. ASSUME NEW u \in Terminals, Provision(u) PROVE cli'[u].pc # "asked"
      BY <3>1, <3>2, CliFields, Nulls DEF Provision, Free, Shapes
    <3> QED
      BY <3>1, <3>2
  <2>2. \A u \in Terminals : cli'[u].pc \in Waiting => cli[u].pc \in Waiting /\ cli'[u].key = cli[u].key
    BY <2>1, AskingKept
  <2> QED
    BY <1>0, <2>1, <2>2 DEF At
<1>4. ASSUME NEW t \in Terminals, TryAgain(t) PROVE Same'
  <2>1. cli[t].pc = "asked" /\ cli[t].pc \in Waiting
    BY <1>4 DEF TryAgain, Waiting
  <2>2. Goes(<<t, 2>>, Post("limit", cli[t].key, 0)) /\ <<t, 2>> \in Tries
    BY <1>4, TryOf DEF TryAgain
  <2>3. \A q \in Tries : At(q)' # "none" => prov'[q].key = cli[t].key
    BY <1>0, <2>1, <2>2, GoesTo, PostFields DEF Shapes, At
  <2>4. \A u \in Terminals : cli'[u].pc \in Waiting => cli'[u].key = cli[t].key
    <3>1. cli' = [cli EXCEPT ![t] = Cli("again", cli[t].key)]
      BY <1>4 DEF TryAgain
    <3>2. \A u \in Terminals : cli[u].pc \in Waiting => u = t
      BY <1>0, <2>1 DEF Alone, Waiting
    <3> QED
      BY <3>1, <3>2, CliFields DEF Shapes
  <2> QED
    BY <2>3, <2>4
<1> QED
  BY <1>1, <1>2, <1>3, <1>4, Calm DEF Starts

\* Who claims finds no row, so nobody has claimed it.
LEMMA OneClaimStep ==
  Shapes /\ ClaimedRow /\ OneClaim /\ [Next]_vars => OneClaim'
<1> SUFFICES ASSUME Shapes, ClaimedRow, OneClaim, [Next]_vars, ~overlap', NEW p \in Tries, NEW q \in Tries,
                    At(p)' \in Claimed, At(q)' \in Claimed
             PROVE  p = q
  BY DEF OneClaim
<1>0. ~overlap
  BY HistoryStays
<1>1. CASE SameClaims
  BY <1>0, <1>1 DEF SameClaims, OneClaim
<1>2. ASSUME NEW a \in Tries, Claim(a) PROVE p = q
  <2>1. CASE row = NoRow
    <3>1. \A b \in Tries : At(b) \notin Claimed
      BY <1>0, <2>1, Nulls DEF ClaimedRow
    <3>2. \A b \in Tries : b # a => At(b)' \notin Claimed
      BY <1>2, <3>1, ClaimDoes DEF At
    <3> QED
      BY <3>2
  <2>2. CASE row # NoRow
    <3>1. At(a)' = "ok"
      BY <1>2, <2>2, ClaimDoes
    <3>2. \A b \in Tries : At(b)' \in Claimed => At(b) \in Claimed
      BY <1>2, <3>1, ClaimDoes DEF At, Claimed
    <3> QED
      BY <1>0, <3>2 DEF OneClaim
  <2> QED
    BY <2>1, <2>2
<1> QED
  BY <1>1, <1>2, ClaimsKept

\* The row of a run stays the row of that run.
LEMMA RowOfRunStep ==
  Shapes /\ OneRun /\ RowOfRun /\ [Next]_vars => RowOfRun'
<1> SUFFICES ASSUME Shapes, OneRun, RowOfRun, [Next]_vars, ~overlap', row'.id # 0
             PROVE  /\ \A p \in Tries : At(p)' \in Passed => row'.key = prov'[p].key
                    /\ \A t \in Terminals : cli'[t].pc = "polling" => row'.key = cli'[t].key
  BY DEF RowOfRun
<1>0. ~overlap
  BY HistoryStays
<1>1. ASSUME NEW p \in Tries, At(p)' \in Passed PROVE row'.key = prov'[p].key
  <2>1. prov'[p].key = prov[p].key
    BY <1>1, PassedKey
  <2>2. CASE CheckLimit(p) /\ row = NoRow
    <3>1. row' = NoRow
      BY <2>2 DEF CheckLimit, server
    <3> QED
      BY <3>1, Nulls
  <2>3. CASE At(p) \in Passed
    <3>1. CASE row'.id = row.id /\ row'.key = row.key
      BY <1>0, <2>1, <2>3, <3>1 DEF RowOfRun
    <3>2. ASSUME NEW a \in Tries, Claim(a), row'.key = prov[a].key PROVE row'.key = prov[p].key
      BY <1>0, <2>3, <3>2 DEF OneRun, Claim, At, Passed, Claimed
    <3> QED
      BY <2>1, <3>1, <3>2, RowKeyKept
  <2> QED
    BY <1>1, <2>2, <2>3, PassedKept
<1>2. ASSUME NEW t \in Terminals, cli'[t].pc = "polling" PROVE row'.key = cli'[t].key
  <2>1. cli[t].pc \in Waiting /\ cli'[t].key = cli[t].key
    BY <1>2, AskingKept DEF Waiting
  <2>2. ASSUME NEW a \in Tries, Claim(a), row'.key = prov[a].key PROVE row'.key = cli[t].key
    BY <1>0, <2>1, <2>2 DEF OneRun, Claim, At
  <2>3. ASSUME row'.id = row.id, row'.key = row.key PROVE row'.key = cli[t].key
    <3>1. CASE cli[t].pc = "polling"
      BY <1>0, <2>3, <3>1 DEF RowOfRun
    <3>2. ASSUME NEW p \in Tries, At(p) = "ok" PROVE row'.key = cli[t].key
      <4>1. row.key = prov[p].key
        BY <1>0, <2>3, <3>2 DEF RowOfRun, Passed
      <4>2. prov[p].key = cli[t].key
        BY <1>0, <2>1, <3>2 DEF OneRun
      <4> QED
        BY <2>3, <4>1, <4>2
    <3> QED
      BY <1>2, <3>1, <3>2, PollingKept
  <2> QED
    BY <2>1, <2>2, <2>3, RowKeyKept
<1> QED
  BY <1>1, <1>2

\* The key a VM is about to be made with is that of the run.
LEMMA KeyMadeStep ==
  Shapes /\ OneAtWork /\ OneClaim /\ KeyMade /\ [Next]_vars => KeyMade'
<1> SUFFICES ASSUME Shapes, OneAtWork, OneClaim, KeyMade, [Next]_vars, ~overlap', NEW p \in Tries, At(p)' = "server"
             PROVE  sshKey' = prov'[p].key
  BY DEF KeyMade
<1>0. ~overlap /\ prov'[p].key = prov[p].key
  BY HistoryStays, PassedKey DEF Passed, Claimed
<1>1. CASE At(p) = "server"
  <2>1. sshKey = prov[p].key
    BY <1>0, <1>1 DEF KeyMade
  <2>2. ASSUME NEW q \in Tries, RegisterKey(q) PROVE FALSE
    <3>1. At(q) = "key"
      BY <2>2 DEF RegisterKey, At
    <3>2. p = q
      BY <1>0, <1>1, <3>1 DEF OneClaim, Claimed
    <3> QED
      BY <1>1, <3>1, <3>2
  <2>3. ASSUME NEW t \in Terminals, DropKey(t) PROVE FALSE
    BY <1>0, <1>1, <2>3 DEF OneAtWork, Alone, DropKey, AnswerDelete
  <2> QED
    BY <1>0, <2>1, <2>2, <2>3, SshKeyKept
<1> QED
  BY <1>1, MadeKept

\* The VM of a row has the key of its run.
LEMMA VmOfRowStep ==
  Shapes /\ Counters /\ ClaimedRow /\ VmNamed /\ RowOfRun /\ KeyMade /\ VmOfRow /\ [Next]_vars => VmOfRow'
<1> SUFFICES ASSUME Shapes, Counters, ClaimedRow, VmNamed, RowOfRun, KeyMade, VmOfRow, [Next]_vars, ~overlap'
             PROVE  vm'.rid <= rows' /\ (vm' # NoVm /\ vm'.rid = row'.id => vm'.key = row'.key)
  BY DEF VmOfRow
<1>0. /\ ~overlap /\ vm.rid <= rows /\ (vm # NoVm /\ vm.rid = row.id => vm.key = row.key)
      /\ vm.rid \in Nat /\ rows \in Nat /\ rows' \in Nat /\ rows <= rows' /\ row.id <= rows /\ row.id \in Nat
  BY HistoryStays, CountsGrow, FieldTypes DEF VmOfRow, Shapes, Counters
<1>1. vm.rid <= rows'
  BY <1>0
<1>2. CASE SameServer
  BY <1>0, <1>1, <1>2 DEF SameServer
<1>3. ASSUME NEW a \in Tries, Claim(a)
      PROVE  vm'.rid <= rows' /\ (vm' # NoVm /\ vm'.rid = row'.id => vm'.key = row'.key)
  <2>1. vm' = vm /\ (row' = row \/ row'.id = rows + 1)
    BY <1>3, ClaimDoes
  <2>2. vm.rid # rows + 1
    BY <1>0
  <2> QED
    BY <1>0, <1>1, <2>1, <2>2
<1>4. ASSUME NEW a \in Tries, CreateServer(a)
      PROVE  vm'.rid <= rows' /\ (vm' # NoVm /\ vm'.rid = row'.id => vm'.key = row'.key)
  <2>1. row' = row /\ At(a) = "server" /\ (vm' = vm \/ vm' = Vm(prov[a].rid, sshKey, FALSE))
    BY <1>4 DEF CreateServer, At
  <2>2. row.id = prov[a].rid /\ prov[a].rid # 0
    BY <1>0, <2>1 DEF ClaimedRow, Claimed
  <2>3. sshKey = prov[a].key /\ row.key = prov[a].key
    BY <1>0, <2>1, <2>2 DEF KeyMade, RowOfRun, Passed, Claimed
  <2>4. CASE vm' = Vm(prov[a].rid, sshKey, FALSE)
    <3>1. vm'.rid = row.id /\ vm'.key = row.key
      BY <2>2, <2>3, <2>4 DEF Vm
    <3>2. row.id <= rows'
      BY <1>0
    <3> QED
      BY <2>1, <3>1, <3>2
  <2> QED
    BY <1>0, <1>1, <2>1, <2>4
<1>5. ASSUME NEW t \in Terminals, DestroyServer(t)
      PROVE  vm'.rid <= rows' /\ (vm' # NoVm /\ vm'.rid = row'.id => vm'.key = row'.key)
  <2>1. row' = row /\ (vm' = vm \/ vm' = NoVm)
    BY <1>5, DestroyServerDoes
  <2>2. 0 <= rows'
    BY <1>0
  <2> QED
    BY <1>0, <1>1, <2>1, <2>2, Nulls
<1>6. ASSUME NEW t \in Terminals, ForgetRow(t)
      PROVE  vm'.rid <= rows' /\ (vm' # NoVm /\ vm'.rid = row'.id => vm'.key = row'.key)
  <2>1. vm' = vm /\ (row' = row \/ row' = NoRow)
    BY <1>6 DEF ForgetRow, AnswerDelete
  <2> QED
    BY <1>0, <1>1, <2>1, Nulls DEF VmNamed
<1> QED
  BY <1>2, <1>3, <1>4, <1>5, <1>6, ServerKept DEF NewServer

\* A row is made active by its VM, which stays while a command waits for it.
LEMMA ActiveVmStep ==
  Shapes /\ Counters /\ OneAtWork /\ CliAtWork /\ KeysCounted /\ ActiveVm /\ [Next]_vars => ActiveVm'
<1> SUFFICES ASSUME Shapes, Counters, OneAtWork, CliAtWork, KeysCounted, ActiveVm, [Next]_vars, ~overlap', row'.active,
                    NEW t \in Terminals, cli'[t].pc \in Waiting, row'.key = cli'[t].key
             PROVE  vm' # NoVm /\ vm'.rid = row'.id
  BY DEF ActiveVm
<1>0. ~overlap
  BY HistoryStays
<1>1. CASE Ready
  <2>1. vm # NoVm /\ vm' = Vm(vm.rid, vm.key, TRUE) /\ cli' = cli
        /\ (row' = row \/ (vm.rid = row.id /\ row' = Row(row.id, row.key, row.hid, TRUE)))
    BY <1>1 DEF Ready
  <2>2. vm' # NoVm /\ vm'.rid = vm.rid /\ row'.id = row.id
    BY <2>1 DEF Vm, NoVm, Row
  <2>3. CASE vm.rid = row.id
    BY <2>2, <2>3
  <2>4. CASE row' = row
    BY <1>0, <2>1, <2>2, <2>4 DEF ActiveVm
  <2> QED
    BY <2>1, <2>3, <2>4
<1>2. CASE row.active /\ row' = row
  <2>1. CASE Provision(t) /\ cli'[t].key = runs + 1
    <3>1. row.key <= runs /\ row.key \in Nat /\ runs \in Nat /\ row.key = runs + 1
      BY <1>2, <2>1, FieldTypes, SandboxAssumption DEF KeysCounted, Shapes, Counters
    <3> QED
      BY <3>1
  <2>2. CASE cli[t].pc \in Waiting /\ cli'[t].key = cli[t].key
    <3>1. vm # NoVm /\ vm.rid = row.id
      BY <1>0, <1>2, <2>2 DEF ActiveVm
    <3> QED
      BY <1>0, <1>2, <2>2, <3>1, VmStays
  <2> QED
    BY <2>1, <2>2, AskingKept
<1> QED
  BY <1>1, <1>2, ActiveKept

\* A command that logs in has the key of the VM.
LEMMA KeyWorksStep ==
  /\ Shapes /\ OneAtWork /\ CliAtWork /\ RowNamed /\ RowOfRun /\ VmOfRow /\ ActiveVm /\ KeyWorks /\ [Next]_vars
  => KeyWorks'
<1> SUFFICES ASSUME Shapes, OneAtWork, CliAtWork, RowNamed, RowOfRun, VmOfRow, ActiveVm, KeyWorks, [Next]_vars,
                    ~overlap', NEW t \in Terminals, cli'[t].pc = "ssh"
             PROVE  vm' # NoVm /\ vm'.key = cli'[t].key
  BY DEF KeyWorks
<1>0. ~overlap /\ cli[t].pc \in Waiting /\ cli'[t].key = cli[t].key
  BY HistoryStays, AskingKept DEF Waiting
<1>1. vm # NoVm /\ vm.key = cli[t].key
  <2>1. CASE cli[t].pc = "ssh"
    BY <1>0, <2>1 DEF KeyWorks
  <2>2. CASE cli[t].pc = "polling" /\ row.active
    <3>1. row.id # 0
      BY <2>2, Nulls DEF RowNamed
    <3>2. row.key = cli[t].key
      BY <1>0, <2>2, <3>1 DEF RowOfRun
    <3> QED
      BY <1>0, <2>2, <3>2 DEF ActiveVm, VmOfRow
  <2> QED
    BY <2>1, <2>2, SshKept
<1> QED
  BY <1>0, <1>1, VmStays

IInv == VmInv /\ KeyInv

LEMMA KeyInvInit ==
  Init => KeyInv
<1> SUFFICES ASSUME Init PROVE KeyInv
  OBVIOUS
<1>1. /\ \A p \in Tries : At(p) = "none"
      /\ \A t \in Terminals : cli[t].pc = "idle"
      /\ row = NoRow /\ vm = NoVm /\ rows = 0 /\ runs = 0
  BY Nulls DEF Init, At
<1>2. row.id = 0 /\ row.key = 0 /\ ~row.active /\ vm.rid = 0 /\ 0 <= 0
  BY <1>1, Nulls
<1>3. RowNamed /\ KeysCounted /\ OneRun /\ OneClaim
  BY <1>1, <1>2 DEF RowNamed, KeysCounted, OneRun, OneClaim, Waiting, Claimed
<1>4. RowOfRun /\ KeyMade /\ VmOfRow /\ ActiveVm /\ KeyWorks
  BY <1>1, <1>2 DEF RowOfRun, KeyMade, VmOfRow, ActiveVm, KeyWorks
<1> QED
  BY <1>3, <1>4 DEF KeyInv

LEMMA KeyInvStep ==
  VmInv /\ KeyInv /\ [Next]_vars => KeyInv'
<1> SUFFICES ASSUME VmInv, KeyInv, [Next]_vars PROVE KeyInv'
  OBVIOUS
<1>1. Shapes /\ Counters /\ OneAtWork /\ CliAtWork /\ ClaimedRow /\ VmNamed
  BY TypeParts DEF VmInv
<1>2. RowNamed /\ KeysCounted /\ OneRun /\ OneClaim /\ RowOfRun /\ KeyMade /\ VmOfRow /\ ActiveVm /\ KeyWorks
  BY DEF KeyInv
<1>3. RowNamed' /\ KeysCounted' /\ OneRun' /\ OneClaim' /\ RowOfRun'
  BY <1>1, <1>2, RowNamedStep, KeysCountedStep, OneRunStep, OneClaimStep, RowOfRunStep
<1>4. KeyMade' /\ VmOfRow' /\ ActiveVm' /\ KeyWorks'
  BY <1>1, <1>2, KeyMadeStep, VmOfRowStep, ActiveVmStep, KeyWorksStep
<1> QED
  BY <1>3, <1>4 DEF KeyInv

\* A command that is told of an active sandbox holds the key of its VM, whatever calls failed or
\* died and however often the request was sent, while commands do not overlap.
THEOREM KeyIsOfVm == Spec => []KeyWorks
<1>1. Init => IInv
  BY VmInvInit, KeyInvInit DEF IInv
<1>2. IInv /\ [Next]_vars => IInv'
  BY VmInvStep, KeyInvStep DEF IInv
<1>3. IInv => KeyWorks
  BY DEF IInv, KeyInv
<1> QED
  BY <1>1, <1>2, <1>3, PTL DEF Spec

-----------------------------------------------------------------------------
(* Whatever was left behind, commands that do not fail come to a sandbox   *)
(* that lets the user in, unless she is stranded.  The rounds they take: a *)
(* deprovision of a row that knows another VM than there is (26..22), a    *)
(* provision that finds a VM without a row in its way and fails, which     *)
(* strands a user who has no older entry (21..16), a deprovision that      *)
(* clears all away (15..10) and a provision that comes through (9..1).     *)

Only(t) == prov[<<t, 2>>] = NoPost /\ \A u \in Terminals \ {t} : Free(u)

\* The handlers of the command at t, and nobody else's, are where they are.
ProvisionAt(t, pc) ==
  /\ Only(t) /\ dep[t] = NoDelete /\ cli[t].pc = "asked"
  /\ prov[<<t, 1>>].pc = pc /\ prov[<<t, 1>>].key = cli[t].key /\ cli[t].key # 0
Polling(t) == Only(t) /\ dep[t] = NoDelete /\ prov[<<t, 1>>] = NoPost /\ cli[t].pc = "polling"
DeprovisionAt(t, pc) == Only(t) /\ prov[<<t, 1>>] = NoPost /\ cli[t].pc = "waiting" /\ dep[t].pc = pc

\* A VM that has not reported yet.
Untold == IF vm # NoVm /\ ~vm.told THEN 1 ELSE 0

\* The VM of the row, with the key of the command.
Arrived(t) == row # NoRow /\ vm # NoVm /\ vm.rid = row.id /\ vm.key = cli[t].key /\ (vm.told => row.active)

Coming(t, k) ==
  \/ ProvisionAt(t, "limit") /\ row = NoRow /\ vm = NoVm /\ k = 8
  \/ ProvisionAt(t, "claim") /\ row = NoRow /\ vm = NoVm /\ k = 7
  \/ ProvisionAt(t, "key") /\ row # NoRow /\ row.id = prov[<<t, 1>>].rid /\ vm = NoVm /\ k = 6
  \/ ProvisionAt(t, "server") /\ row # NoRow /\ row.id = prov[<<t, 1>>].rid /\ vm = NoVm /\ sshKey = cli[t].key /\ k = 5
  \/ ProvisionAt(t, "persist") /\ Arrived(t) /\ row.id = prov[<<t, 1>>].rid /\ ~vm.told /\ k = 3
  \/ ProvisionAt(t, "ok") /\ Arrived(t) /\ k = 2
  \/ Polling(t) /\ Arrived(t) /\ k = 1

\* The id in the config of the row is that of the VM there is.
Known == row.hid => vm = NoVm \/ vm.rid = row.id

Clearing(t, k) ==
  \/ DeprovisionAt(t, "find") /\ row # NoRow /\ Known /\ k = 14
  \/ DeprovisionAt(t, "look") /\ dep[t].rid = row.id /\ k = 13
  \/ DeprovisionAt(t, "destroy") /\ dep[t].rid = row.id /\ (vm = NoVm \/ vm.rid = dep[t].vm) /\ k = 12
  \/ DeprovisionAt(t, "key") /\ dep[t].rid = row.id /\ vm = NoVm /\ k = 11
  \/ DeprovisionAt(t, "forget") /\ dep[t].rid = row.id /\ vm = NoVm /\ k = 10

Stuck(t, k) ==
  /\ vm # NoVm
  /\ \/ ProvisionAt(t, "limit") /\ row = NoRow /\ k = 20
     \/ ProvisionAt(t, "claim") /\ row = NoRow /\ k = 19
     \/ ProvisionAt(t, "key") /\ row # NoRow /\ ~row.hid /\ k = 18
     \/ ProvisionAt(t, "server") /\ row # NoRow /\ ~row.hid /\ k = 17
     \/ ProvisionAt(t, "failed") /\ row # NoRow /\ ~row.hid /\ k = 16

Missing(t, k) ==
  /\ vm # NoVm
  /\ \/ DeprovisionAt(t, "find") /\ row # NoRow /\ ~Known /\ k = 25
     \/ DeprovisionAt(t, "destroy") /\ dep[t].rid = row.id /\ vm.rid # dep[t].vm /\ k = 24
     \/ DeprovisionAt(t, "key") /\ dep[t].rid = row.id /\ k = 23
     \/ DeprovisionAt(t, "forget") /\ dep[t].rid = row.id /\ k = 22

Between(k) ==
  /\ Quiet
  /\ \/ row = NoRow /\ vm = NoVm /\ k = 9
     \/ row # NoRow /\ Known /\ entries # {} /\ k = 15
     \/ row = NoRow /\ vm # NoVm /\ k = 21
     \/ row # NoRow /\ ~Known /\ entries # {} /\ k = 26

OnTrack(k) == Between(k) \/ \E t \in Terminals : Coming(t, k) \/ Clearing(t, k) \/ Stuck(t, k) \/ Missing(t, k)

\* A step that comes nearer to the sandbox.
Nearer(k) == \E j \in 0..26 : OnTrack(j)' /\ j + Untold' < k + Untold
GetsIn == \E t \in Terminals : LoggedIn(t)

Sound == Shapes /\ rows \in Nat /\ runs \in Nat /\ faults \in Nat /\ VmNamed /\ RowNamed

LEMMA UntoldIs == Untold \in {0, 1} /\ (vm = NoVm => Untold = 0)
  BY DEF Untold

\* A place nearer, or two where a VM is created.
LEMMA Less ==
  ASSUME NEW j \in 0..26, NEW k \in 0..26, OnTrack(j)',
         (j < k /\ (UNCHANGED vm \/ vm' = NoVm)) \/ j + 1 < k
  PROVE  Nearer(k)
<1>1. Untold' \in {0, 1} /\ (vm' = NoVm => Untold' = 0) /\ (UNCHANGED vm => Untold' = Untold)
  BY DEF Untold
<1>2. \A a, b \in {0, 1} : (j < k /\ b <= a) \/ j + 1 < k => j + b < k + a
  OBVIOUS
<1>3. (j < k /\ Untold' <= Untold) \/ j + 1 < k
  BY <1>1, UntoldIs
<1>4. j + Untold' < k + Untold
  BY <1>1, <1>2, <1>3, UntoldIs
<1> QED
  BY <1>4 DEF Nearer

-----------------------------------------------------------------------------
\* Nothing goes wrong in a step without a fault.
LEMMA NoneFails ==
  ASSUME Sound, NoFault
  PROVE  ~Fault
  BY DEF Sound, NoFault, Fault

\* While one terminal is at work, the other terminals do nothing, and no command is given.
LEMMA OnlyThere ==
  ASSUME Sound, NEW t \in Terminals, Only(t), ~Free(t), Next, NoFault
  PROVE  PostStep(<<t, 1>>) \/ DeleteStep(t) \/ CliStep(t) \/ TryAgain(t) \/ GivesUp(t) \/ Ready
<1>0. ~Fault /\ ~Quiet
  BY NoneFails DEF Quiet
<1>1. ASSUME NEW p \in Tries, PostStep(p) PROVE p = <<t, 1>>
  <2>1. PICK u \in Terminals, k \in {1, 2} : p = <<u, k>>
    BY DEF Tries
  <2>2. prov[p].pc # "none"
    BY <1>1 DEF PostStep, CheckLimit, Claim, RegisterKey, CreateServer, Persist, AnswerPost, Awaited, Claimed
  <2>3. prov[p] # NoPost
    BY <2>2, Nulls
  <2> QED
    BY <2>1, <2>3 DEF Only, Free
<1>2. ASSUME NEW p \in Tries, PostDies(p) PROVE FALSE
  BY <1>0, <1>2 DEF PostDies
<1>3. ASSUME NEW u \in Terminals, DeleteStep(u) PROVE u = t
  <2>1. dep[u].pc # "none"
    BY <1>3 DEF DeleteStep, FindSandbox, FindServerByName, DestroyServer, DropKey, ForgetRow, AnswerDelete
  <2> QED
    BY <2>1, Nulls DEF Only, Free
<1>4. ASSUME NEW u \in Terminals, DeleteDies(u) PROVE FALSE
  BY <1>0, <1>4 DEF DeleteDies, AnswerDelete
<1>5. ASSUME NEW u \in Terminals, CliStep(u) \/ TryAgain(u) \/ GivesUp(u) PROVE u = t
  <2>1. cli[u].pc # "idle"
    BY <1>5 DEF CliStep, PollStatus, PollTimesOut, SshEnds, TryAgain, GivesUp
  <2> QED
    BY <2>1, Nulls DEF Only, Free
<1>6. ASSUME NEW u \in Terminals, Provision(u) \/ Deprovision(u) PROVE FALSE
  BY <1>0, <1>6 DEF Provision, Deprovision, Command
<1> QED
  BY <1>1, <1>2, <1>3, <1>4, <1>5, <1>6 DEF Next

LEMMA ProvisionMoves ==
  ASSUME Sound, NEW t \in Terminals, NEW pc, ProvisionAt(t, pc), pc # "none", Next, NoFault
  PROVE  PostStep(<<t, 1>>) \/ Ready
<1>1. ~Fault /\ prov[<<t, 1>>] # NoPost /\ dep[t].pc = "none" /\ cli[t].pc = "asked"
  BY NoneFails, Nulls DEF ProvisionAt
<1>2. Only(t) /\ ~Free(t)
  BY <1>1 DEF ProvisionAt, Free
<1>3. ~DeleteStep(t) /\ ~CliStep(t) /\ ~TryAgain(t) /\ ~GivesUp(t)
  BY <1>1 DEF DeleteStep, FindSandbox, FindServerByName, DestroyServer, DropKey, ForgetRow, AnswerDelete,
              CliStep, PollStatus, PollTimesOut, SshEnds, TryAgain, GivesUp
<1> QED
  BY <1>2, <1>3, OnlyThere

LEMMA DeprovisionMoves ==
  ASSUME Sound, NEW t \in Terminals, NEW pc, DeprovisionAt(t, pc), pc # "none", Next, NoFault
  PROVE  DeleteStep(t) \/ Ready
<1>1. ~Fault /\ prov[<<t, 1>>].pc = "none" /\ dep[t] # NoDelete /\ cli[t].pc = "waiting"
  BY NoneFails, Nulls DEF DeprovisionAt
<1>2. Only(t) /\ ~Free(t)
  BY <1>1 DEF DeprovisionAt, Free
<1>3. ~PostStep(<<t, 1>>) /\ ~CliStep(t) /\ ~TryAgain(t) /\ ~GivesUp(t)
  BY <1>1 DEF PostStep, CheckLimit, Claim, RegisterKey, CreateServer, Persist, AnswerPost, Awaited, Claimed,
              CliStep, PollStatus, PollTimesOut, SshEnds, TryAgain, GivesUp
<1> QED
  BY <1>2, <1>3, OnlyThere

LEMMA PollingMoves ==
  ASSUME Sound, NEW t \in Terminals, Polling(t), Next, NoFault
  PROVE  PollStatus(t) \/ PollTimesOut(t) \/ Ready
<1>1. ~Fault /\ prov[<<t, 1>>].pc = "none" /\ dep[t].pc = "none" /\ cli[t].pc = "polling"
  BY NoneFails, Nulls DEF Polling
<1>2. Only(t) /\ ~Free(t)
  BY <1>1, Nulls DEF Polling, Free
<1>3. ~PostStep(<<t, 1>>) /\ ~DeleteStep(t) /\ ~SshEnds(t) /\ ~TryAgain(t) /\ ~GivesUp(t)
  BY <1>1 DEF PostStep, CheckLimit, Claim, RegisterKey, CreateServer, Persist, AnswerPost, Awaited, Claimed,
              DeleteStep, FindSandbox, FindServerByName, DestroyServer, DropKey, ForgetRow, AnswerDelete,
              SshEnds, TryAgain, GivesUp
<1> QED
  BY <1>2, <1>3, OnlyThere DEF CliStep

LEMMA QuietMoves ==
  ASSUME Sound, Quiet, Next, NoFault
  PROVE  \/ \E t \in Terminals : (Provision(t) /\ row = NoRow) \/ (Deprovision(t) /\ row # NoRow)
         \/ Ready
<1>0. ~Fault /\ \A p \in Tries : prov[p].pc = "none"
  BY NoneFails, QuietIsIdle DEF At
<1>1. \A t \in Terminals : dep[t].pc = "none" /\ cli[t].pc = "idle"
  BY QuietIsIdle
<1>2. ASSUME NEW p \in Tries, PostStep(p) \/ PostDies(p) PROVE FALSE
  BY <1>0, <1>2 DEF PostStep, CheckLimit, Claim, RegisterKey, CreateServer, Persist, AnswerPost, Awaited, Claimed, PostDies
<1>3. ASSUME NEW t \in Terminals, DeleteStep(t) \/ DeleteDies(t) \/ CliStep(t) \/ TryAgain(t) \/ GivesUp(t)
      PROVE  FALSE
  BY <1>0, <1>1, <1>3 DEF DeleteStep, FindSandbox, FindServerByName, DestroyServer, DropKey, ForgetRow, AnswerDelete,
     DeleteDies, AnswerDelete, CliStep, PollStatus, PollTimesOut, SshEnds, TryAgain, GivesUp
<1>4. ASSUME NEW t \in Terminals, Provision(t) \/ Deprovision(t)
      PROVE  (Provision(t) /\ row = NoRow) \/ (Deprovision(t) /\ row # NoRow)
  BY <1>0, <1>4 DEF Provision, Deprovision, Command
<1> QED
  BY <1>2, <1>3, <1>4 DEF Next

-----------------------------------------------------------------------------
\* The handler goes on, and the rest is as it was.
LEMMA GoesOn ==
  ASSUME Sound, NEW t \in Terminals, NEW pc, ProvisionAt(t, pc), NEW post, Goes(<<t, 1>>, post),
         UNCHANGED <<cli, dep>>, post.key = cli[t].key
  PROVE  ProvisionAt(t, post.pc)' /\ prov'[<<t, 1>>] = post
<1>1. prov'[<<t, 1>>] = post /\ \A q \in Tries : q # <<t, 1>> => prov'[q] = prov[q]
  BY GoesTo, TryOf DEF Sound, Shapes
<1>2. prov'[<<t, 2>>] = NoPost /\ \A u \in Terminals \ {t} : Free(u)'
  BY <1>1, TryOf DEF ProvisionAt, Only, Free
<1> QED
  BY <1>1, <1>2 DEF ProvisionAt, Only

\* The answer of the handler is there for the command that waits for it.
LEMMA AnswersOn ==
  ASSUME Sound, NEW t \in Terminals, NEW pc, ProvisionAt(t, pc), AnswerPost(<<t, 1>>)
  PROVE  /\ pc = "ok" => Polling(t)' /\ cli'[t].key = cli[t].key
         /\ pc = "failed" => Quiet'
         /\ UNCHANGED server
<1>1. /\ prov'[<<t, 1>>] = NoPost /\ \A q \in Tries : q # <<t, 1>> => prov'[q] = prov[q]
      /\ dep' = dep /\ UNCHANGED server
  BY GoesTo, TryOf DEF Sound, Shapes, AnswerPost, Awaited, history
<1>2. cli' = [cli EXCEPT ![t] = IF pc = "ok" THEN Cli("polling", cli[t].key) ELSE Idle]
  BY DEF AnswerPost, Awaited, ProvisionAt
<1>3. /\ cli'[t] = IF pc = "ok" THEN Cli("polling", cli[t].key) ELSE Idle
      /\ \A u \in Terminals \ {t} : cli'[u] = cli[u]
  BY <1>2 DEF Sound, Shapes
<1>4. prov'[<<t, 2>>] = NoPost /\ \A u \in Terminals \ {t} : Free(u)'
  BY <1>1, <1>3, TryOf DEF ProvisionAt, Only, Free
<1>5. dep'[t] = NoDelete
  BY <1>1 DEF ProvisionAt
<1>6. ASSUME pc = "ok" PROVE Polling(t)' /\ cli'[t].key = cli[t].key
  BY <1>1, <1>3, <1>4, <1>5, <1>6, CliFields DEF Polling, Only
<1>7. ASSUME pc = "failed" PROVE Quiet'
  BY <1>1, <1>3, <1>4, <1>5, <1>7 DEF Quiet, Free
<1> QED
  BY <1>1, <1>6, <1>7

LEMMA ServesOn ==
  ASSUME Sound, NEW t \in Terminals, NEW pc, DeprovisionAt(t, pc), NEW delete, Serves(t, delete),
         UNCHANGED <<cli, prov>>
  PROVE  DeprovisionAt(t, delete.pc)' /\ dep'[t] = delete
<1>1. dep'[t] = delete /\ \A u \in Terminals : u # t => dep'[u] = dep[u]
  BY ServesTo DEF Sound, Shapes
<1> QED
  BY <1>1 DEF DeprovisionAt, Only, Free

LEMMA ServesEnd ==
  ASSUME Sound, NEW t \in Terminals, NEW pc, DeprovisionAt(t, pc), Answered(t), UNCHANGED prov
  PROVE  Quiet'
<1>1. dep'[t] = NoDelete /\ \A u \in Terminals : u # t => dep'[u] = dep[u] /\ cli'[u] = cli[u]
  BY AnswersTo DEF Sound, Shapes
<1>2. cli'[t] = Idle
  BY DEF Answered, Deprovisioning, DeprovisionAt, Sound, Shapes
<1> QED
  BY <1>1, <1>2 DEF DeprovisionAt, Only, Free, Quiet

-----------------------------------------------------------------------------
\* A provision whose calls do not fail comes through.
LEMMA ComingStep ==
  ASSUME Sound, NEW t \in Terminals, NEW k \in 0..26, Coming(t, k), Next, ~Ready, NoFault
  PROVE  GetsIn' \/ Nearer(k)
<1> DEFINE p == <<t, 1>>
           post == prov[p]
<1>0. /\ ~Fault /\ p \in Tries /\ post \in Posts /\ post.key \in Nat /\ post.rid \in Nat /\ rows \in Nat
      /\ NoRow.id = 0 /\ (row # NoRow => row.id # 0)
  BY NoneFails, TryOf, FieldTypes, Nulls DEF Sound, Shapes, RowNamed
<1>1. CASE ProvisionAt(t, "limit") /\ row = NoRow /\ vm = NoVm /\ k = 8
  <2>1. CheckLimit(p)
    BY <1>1, ProvisionMoves DEF PostStep, CheckLimit, Claim, RegisterKey, CreateServer, Persist, AnswerPost, Awaited, ProvisionAt
  <2>2. Goes(p, Post("claim", post.key, 0)) /\ UNCHANGED <<cli, dep, row, vm>>
    BY <1>1, <2>1 DEF CheckLimit, server
  <2>3. ProvisionAt(t, "claim")'
    BY <1>1, <2>2, GoesOn, PostFields DEF ProvisionAt
  <2>4. OnTrack(7)'
    BY <1>1, <2>2, <2>3 DEF OnTrack, Coming
  <2> QED
    BY <1>1, <2>2, <2>4, Less
<1>2. CASE ProvisionAt(t, "claim") /\ row = NoRow /\ vm = NoVm /\ k = 7
  <2>1. Claim(p)
    BY <1>2, ProvisionMoves DEF PostStep, CheckLimit, Claim, RegisterKey, CreateServer, Persist, AnswerPost, Awaited, ProvisionAt
  <2>2. /\ Goes(p, Post("key", post.key, rows + 1)) /\ UNCHANGED <<cli, dep, vm>>
        /\ row' = Row(rows + 1, post.key, FALSE, FALSE)
    BY <1>2, <2>1 DEF Claim
  <2>3. ProvisionAt(t, "key")' /\ prov'[p].rid = rows + 1
    BY <1>2, <2>2, GoesOn, PostFields DEF ProvisionAt
  <2>4. row'.id = rows + 1 /\ rows + 1 # 0
    BY <1>0, <2>2 DEF Row
  <2>5. OnTrack(6)'
    BY <1>0, <1>2, <2>2, <2>3, <2>4 DEF OnTrack, Coming
  <2> QED
    BY <1>2, <2>2, <2>5, Less
<1>3. CASE ProvisionAt(t, "key") /\ row # NoRow /\ row.id = post.rid /\ vm = NoVm /\ k = 6
  <2>1. RegisterKey(p)
    BY <1>3, ProvisionMoves DEF PostStep, CheckLimit, Claim, RegisterKey, CreateServer, Persist, AnswerPost, Awaited, ProvisionAt
  <2>2. /\ Goes(p, Post("server", post.key, post.rid)) /\ UNCHANGED <<cli, dep, vm, row>>
        /\ sshKey' = post.key
    BY <1>0, <2>1 DEF RegisterKey
  <2>3. ProvisionAt(t, "server")' /\ prov'[p].rid = post.rid /\ cli'[t].key = post.key
    BY <1>3, <2>2, GoesOn, PostFields DEF ProvisionAt
  <2>5. OnTrack(5)'
    BY <1>3, <2>2, <2>3 DEF OnTrack, Coming
  <2> QED
    BY <1>3, <2>2, <2>5, Less
<1>4. CASE ProvisionAt(t, "server") /\ row # NoRow /\ row.id = post.rid /\ vm = NoVm /\ sshKey = cli[t].key /\ k = 5
  <2>1. CreateServer(p)
    BY <1>4, ProvisionMoves DEF PostStep, CheckLimit, Claim, RegisterKey, CreateServer, Persist, AnswerPost, Awaited, ProvisionAt
  <2>2. /\ Goes(p, Post("persist", post.key, post.rid)) /\ UNCHANGED <<cli, dep, row>>
        /\ vm' = Vm(post.rid, sshKey, FALSE)
    BY <1>0, <1>4, <2>1 DEF CreateServer, ProvisionAt
  <2>3. ProvisionAt(t, "persist")' /\ prov'[p].rid = post.rid
    BY <1>4, <2>2, GoesOn, PostFields DEF ProvisionAt
  <2>4. vm'.rid = post.rid /\ vm'.key = sshKey /\ vm'.told = FALSE /\ vm' # NoVm
    BY <1>0, <1>4, <2>2, Nulls DEF Vm
  <2>5. OnTrack(3)'
    BY <1>4, <2>2, <2>3, <2>4 DEF OnTrack, Coming, Arrived
  <2> QED
    BY <1>4, <2>5, Less
<1>5. CASE ProvisionAt(t, "persist") /\ Arrived(t) /\ row.id = post.rid /\ ~vm.told /\ k = 3
  <2>1. Persist(p)
    BY <1>5, ProvisionMoves DEF PostStep, CheckLimit, Claim, RegisterKey, CreateServer, Persist, AnswerPost, Awaited, ProvisionAt
  <2>2. /\ Goes(p, Post("ok", post.key, 0)) /\ UNCHANGED <<cli, dep, vm>>
        /\ row' = Row(row.id, row.key, TRUE, FALSE)
    BY <1>0, <1>5, <2>1 DEF Persist, Says
  <2>3. ProvisionAt(t, "ok")'
    BY <1>5, <2>2, GoesOn, PostFields DEF ProvisionAt
  <2>4. row'.id = row.id
    BY <2>2 DEF Row
  <2>5. OnTrack(2)'
    BY <1>0, <1>5, <2>2, <2>3, <2>4 DEF OnTrack, Coming, Arrived
  <2> QED
    BY <1>5, <2>2, <2>5, Less
<1>6. CASE ProvisionAt(t, "ok") /\ Arrived(t) /\ k = 2
  <2>1. AnswerPost(p)
    BY <1>6, ProvisionMoves DEF PostStep, CheckLimit, Claim, RegisterKey, CreateServer, Persist, AnswerPost, Awaited, ProvisionAt
  <2>2. Polling(t)' /\ cli'[t].key = cli[t].key /\ UNCHANGED <<row, vm>>
    BY <1>6, <2>1, AnswersOn DEF server
  <2>3. OnTrack(1)'
    BY <1>6, <2>2 DEF OnTrack, Coming, Arrived
  <2> QED
    BY <1>6, <2>2, <2>3, Less
<1>7. CASE Polling(t) /\ Arrived(t) /\ k = 1
  <2>1. ~PollTimesOut(t)
    BY <1>0, <1>7 DEF PollTimesOut, Arrived
  <2>2. PollStatus(t)
    BY <1>7, <2>1, PollingMoves
  <2>3. cli' = [cli EXCEPT ![t] = Cli("ssh", cli[t].key)] /\ vm' = vm
    BY <1>7, <2>2 DEF PollStatus, Arrived, server
  <2>4. cli'[t].pc = "ssh" /\ cli'[t].key = cli[t].key
    BY <2>3, CliFields DEF Sound, Shapes
  <2>5. LoggedIn(t)'
    BY <1>7, <2>3, <2>4 DEF LoggedIn, Arrived
  <2> QED
    BY <2>5 DEF GetsIn
<1> QED
  BY <1>1, <1>2, <1>3, <1>4, <1>5, <1>6, <1>7 DEF Coming

\* A deprovision of a row that leads to its VM, whose calls do not fail, leaves nothing.
LEMMA ClearingStep ==
  ASSUME Sound, NEW t \in Terminals, NEW k \in 0..26, Clearing(t, k), Next, ~Ready, NoFault
  PROVE  Nearer(k)
<1>0. ~Fault
  BY NoneFails
<1>1. CASE DeprovisionAt(t, "find") /\ row # NoRow /\ Known /\ k = 14
  <2>1. FindSandbox(t)
    BY <1>1, DeprovisionMoves DEF DeleteStep, FindSandbox, FindServerByName, DestroyServer, DropKey, ForgetRow, AnswerDelete, DeprovisionAt
  <2>2. /\ Serves(t, IF row.hid THEN Delete("destroy", row.id, row.id) ELSE Delete("look", row.id, 0))
        /\ UNCHANGED <<cli, prov, row, vm>>
    BY <1>1, <2>1 DEF FindSandbox, AnswerDelete, server
  <2>3. CASE row.hid
    <3>1. DeprovisionAt(t, "destroy")' /\ dep'[t].rid = row.id /\ dep'[t].vm = row.id
      BY <1>1, <2>2, <2>3, ServesOn, DeleteFields
    <3>2. OnTrack(12)'
      BY <1>1, <2>2, <2>3, <3>1 DEF OnTrack, Clearing, Known
    <3> QED
      BY <1>1, <2>2, <3>2, Less
  <2>4. CASE ~row.hid
    <3>1. DeprovisionAt(t, "look")' /\ dep'[t].rid = row.id
      BY <1>1, <2>2, <2>4, ServesOn, DeleteFields
    <3>2. OnTrack(13)'
      BY <2>2, <3>1 DEF OnTrack, Clearing
    <3> QED
      BY <1>1, <2>2, <3>2, Less
  <2> QED
    BY <2>3, <2>4
<1>2. CASE DeprovisionAt(t, "look") /\ dep[t].rid = row.id /\ k = 13
  <2>1. FindServerByName(t)
    BY <1>2, DeprovisionMoves DEF DeleteStep, FindSandbox, FindServerByName, DestroyServer, DropKey, ForgetRow, AnswerDelete, DeprovisionAt
  <2>2. /\ Serves(t, Delete(IF vm = NoVm THEN "forget" ELSE "destroy", dep[t].rid, vm.rid))
        /\ UNCHANGED <<cli, prov, row, vm>>
    BY <1>0, <2>1 DEF FindServerByName, server
  <2>3. CASE vm = NoVm
    <3>1. DeprovisionAt(t, "forget")' /\ dep'[t].rid = row.id
      BY <1>2, <2>2, <2>3, ServesOn, DeleteFields
    <3>2. OnTrack(10)'
      BY <2>2, <2>3, <3>1 DEF OnTrack, Clearing
    <3> QED
      BY <1>2, <2>2, <3>2, Less
  <2>4. CASE vm # NoVm
    <3>1. DeprovisionAt(t, "destroy")' /\ dep'[t].rid = row.id /\ dep'[t].vm = vm.rid
      BY <1>2, <2>2, <2>4, ServesOn, DeleteFields
    <3>2. OnTrack(12)'
      BY <2>2, <3>1 DEF OnTrack, Clearing
    <3> QED
      BY <1>2, <2>2, <3>2, Less
  <2> QED
    BY <2>3, <2>4
<1>3. CASE DeprovisionAt(t, "destroy") /\ dep[t].rid = row.id /\ (vm = NoVm \/ vm.rid = dep[t].vm) /\ k = 12
  <2>1. DestroyServer(t)
    BY <1>3, DeprovisionMoves DEF DeleteStep, FindSandbox, FindServerByName, DestroyServer, DropKey, ForgetRow, AnswerDelete, DeprovisionAt
  <2>2. /\ Serves(t, Delete("key", dep[t].rid, dep[t].vm)) /\ vm' = NoVm
        /\ UNCHANGED <<cli, prov, row>>
    BY <1>0, <1>3, <2>1 DEF DestroyServer, AnswerDelete
  <2>3. DeprovisionAt(t, "key")' /\ dep'[t].rid = row.id
    BY <1>3, <2>2, ServesOn, DeleteFields
  <2>4. OnTrack(11)'
    BY <2>2, <2>3 DEF OnTrack, Clearing
  <2> QED
    BY <1>3, <2>2, <2>4, Less
<1>4. CASE DeprovisionAt(t, "key") /\ dep[t].rid = row.id /\ vm = NoVm /\ k = 11
  <2>1. DropKey(t)
    BY <1>4, DeprovisionMoves DEF DeleteStep, FindSandbox, FindServerByName, DestroyServer, DropKey, ForgetRow, AnswerDelete, DeprovisionAt
  <2>2. /\ Serves(t, Delete("forget", dep[t].rid, dep[t].vm))
        /\ UNCHANGED <<cli, prov, row, vm>>
    BY <1>0, <2>1 DEF DropKey, AnswerDelete
  <2>3. DeprovisionAt(t, "forget")' /\ dep'[t].rid = row.id
    BY <1>4, <2>2, ServesOn, DeleteFields
  <2>4. OnTrack(10)'
    BY <1>4, <2>2, <2>3 DEF OnTrack, Clearing
  <2> QED
    BY <1>4, <2>2, <2>4, Less
<1>5. CASE DeprovisionAt(t, "forget") /\ dep[t].rid = row.id /\ vm = NoVm /\ k = 10
  <2>1. ForgetRow(t)
    BY <1>5, DeprovisionMoves DEF DeleteStep, FindSandbox, FindServerByName, DestroyServer, DropKey, ForgetRow, AnswerDelete, DeprovisionAt
  <2>2. Answered(t) /\ row' = NoRow /\ UNCHANGED <<prov, vm>>
    BY <1>0, <1>5, <2>1 DEF ForgetRow, AnswerDelete
  <2>3. Quiet'
    BY <1>5, <2>2, ServesEnd
  <2>4. OnTrack(9)'
    BY <1>5, <2>2, <2>3 DEF OnTrack, Between
  <2> QED
    BY <1>5, <2>2, <2>4, Less
<1> QED
  BY <1>1, <1>2, <1>3, <1>4, <1>5 DEF Clearing

\* A provision that finds a VM without a row makes a row that knows no VM.
LEMMA StuckStep ==
  ASSUME Sound, NEW t \in Terminals, NEW k \in 0..26, Stuck(t, k), Next, ~Ready, NoFault
  PROVE  Nearer(k) \/ (k > 15 /\ Stranded')
<1> DEFINE p == <<t, 1>>
           post == prov[p]
<1>0. /\ ~Fault /\ p \in Tries /\ post \in Posts /\ post.key \in Nat /\ post.rid \in Nat /\ rows \in Nat
      /\ NoRow.id = 0 /\ vm # NoVm
  BY NoneFails, TryOf, FieldTypes, Nulls DEF Sound, Shapes, Stuck
<1>1. CASE ProvisionAt(t, "limit") /\ row = NoRow /\ k = 20
  <2>1. CheckLimit(p)
    BY <1>1, ProvisionMoves DEF PostStep, CheckLimit, Claim, RegisterKey, CreateServer, Persist, AnswerPost, Awaited, ProvisionAt
  <2>2. Goes(p, Post("claim", post.key, 0)) /\ UNCHANGED <<cli, dep, row, vm>>
    BY <1>1, <2>1 DEF CheckLimit, server
  <2>3. ProvisionAt(t, "claim")'
    BY <1>1, <2>2, GoesOn, PostFields DEF ProvisionAt
  <2>4. OnTrack(19)'
    BY <1>0, <1>1, <2>2, <2>3 DEF OnTrack, Stuck
  <2> QED
    BY <1>1, <2>2, <2>4, Less
<1>2. CASE ProvisionAt(t, "claim") /\ row = NoRow /\ k = 19
  <2>1. Claim(p)
    BY <1>2, ProvisionMoves DEF PostStep, CheckLimit, Claim, RegisterKey, CreateServer, Persist, AnswerPost, Awaited, ProvisionAt
  <2>2. /\ Goes(p, Post("key", post.key, rows + 1)) /\ UNCHANGED <<cli, dep, vm>>
        /\ row' = Row(rows + 1, post.key, FALSE, FALSE)
    BY <1>2, <2>1 DEF Claim
  <2>3. ProvisionAt(t, "key")'
    BY <1>2, <2>2, GoesOn, PostFields DEF ProvisionAt
  <2>4. row'.id = rows + 1 /\ rows + 1 # 0 /\ row'.hid = FALSE
    BY <1>0, <2>2 DEF Row
  <2>5. OnTrack(18)'
    BY <1>0, <2>2, <2>3, <2>4 DEF OnTrack, Stuck
  <2> QED
    BY <1>2, <2>2, <2>5, Less
<1>3. CASE ProvisionAt(t, "key") /\ row # NoRow /\ ~row.hid /\ k = 18
  <2>1. RegisterKey(p)
    BY <1>3, ProvisionMoves DEF PostStep, CheckLimit, Claim, RegisterKey, CreateServer, Persist, AnswerPost, Awaited, ProvisionAt
  <2>2. Goes(p, Post("server", post.key, post.rid)) /\ UNCHANGED <<cli, dep, vm, row>>
    BY <1>0, <2>1 DEF RegisterKey
  <2>3. ProvisionAt(t, "server")'
    BY <1>3, <2>2, GoesOn, PostFields DEF ProvisionAt
  <2>5. OnTrack(17)'
    BY <1>0, <1>3, <2>2, <2>3 DEF OnTrack, Stuck
  <2> QED
    BY <1>3, <2>2, <2>5, Less
<1>4. CASE ProvisionAt(t, "server") /\ row # NoRow /\ ~row.hid /\ k = 17
  <2>1. CreateServer(p)
    BY <1>4, ProvisionMoves DEF PostStep, CheckLimit, Claim, RegisterKey, CreateServer, Persist, AnswerPost, Awaited, ProvisionAt
  <2>2. Goes(p, Post("failed", post.key, 0)) /\ UNCHANGED <<cli, dep, row, vm>>
    BY <1>0, <2>1 DEF CreateServer, Says
  <2>3. ProvisionAt(t, "failed")'
    BY <1>4, <2>2, GoesOn, PostFields DEF ProvisionAt
  <2>5. OnTrack(16)'
    BY <1>0, <1>4, <2>2, <2>3 DEF OnTrack, Stuck
  <2> QED
    BY <1>4, <2>2, <2>5, Less
<1>5. CASE ProvisionAt(t, "failed") /\ row # NoRow /\ ~row.hid /\ k = 16
  <2>1. AnswerPost(p)
    BY <1>5, ProvisionMoves DEF PostStep, CheckLimit, Claim, RegisterKey, CreateServer, Persist, AnswerPost, Awaited, ProvisionAt
  <2>2. Quiet' /\ UNCHANGED <<row, vm>>
    BY <1>5, <2>1, AnswersOn DEF server
  <2>3. CASE entries' = {}
    BY <1>5, <2>2, <2>3 DEF Stranded
  <2>4. CASE entries' # {}
    <3>1. OnTrack(15)'
      BY <1>5, <2>2, <2>4 DEF OnTrack, Between, Known
    <3> QED
      BY <1>5, <2>2, <3>1, Less
  <2> QED
    BY <2>3, <2>4
<1> QED
  BY <1>1, <1>2, <1>3, <1>4, <1>5 DEF Stuck

\* A deprovision that deletes another VM than there is forgets the row, and no more.
LEMMA MissingStep ==
  ASSUME Sound, NEW t \in Terminals, NEW k \in 0..26, Missing(t, k), Next, ~Ready, NoFault
  PROVE  Nearer(k)
<1>0. ~Fault /\ vm # NoVm
  BY NoneFails DEF Missing
<1>1. CASE DeprovisionAt(t, "find") /\ row # NoRow /\ ~Known /\ k = 25
  <2>1. FindSandbox(t)
    BY <1>1, DeprovisionMoves DEF DeleteStep, FindSandbox, FindServerByName, DestroyServer, DropKey, ForgetRow, AnswerDelete, DeprovisionAt
  <2>2. Serves(t, Delete("destroy", row.id, row.id)) /\ UNCHANGED <<cli, prov, row, vm>>
    BY <1>1, <2>1 DEF FindSandbox, AnswerDelete, server, Known
  <2>3. DeprovisionAt(t, "destroy")' /\ dep'[t].rid = row.id /\ dep'[t].vm = row.id
    BY <1>1, <2>2, ServesOn, DeleteFields
  <2>4. OnTrack(24)'
    BY <1>0, <1>1, <2>2, <2>3 DEF OnTrack, Missing, Known
  <2> QED
    BY <1>1, <2>2, <2>4, Less
<1>2. CASE DeprovisionAt(t, "destroy") /\ dep[t].rid = row.id /\ vm.rid # dep[t].vm /\ k = 24
  <2>1. DestroyServer(t)
    BY <1>2, DeprovisionMoves DEF DeleteStep, FindSandbox, FindServerByName, DestroyServer, DropKey, ForgetRow, AnswerDelete, DeprovisionAt
  <2>2. Serves(t, Delete("key", dep[t].rid, dep[t].vm)) /\ UNCHANGED <<cli, prov, row, vm>>
    BY <1>0, <1>2, <2>1 DEF DestroyServer, AnswerDelete
  <2>3. DeprovisionAt(t, "key")' /\ dep'[t].rid = row.id
    BY <1>2, <2>2, ServesOn, DeleteFields
  <2>4. OnTrack(23)'
    BY <1>0, <2>2, <2>3 DEF OnTrack, Missing
  <2> QED
    BY <1>2, <2>2, <2>4, Less
<1>3. CASE DeprovisionAt(t, "key") /\ dep[t].rid = row.id /\ k = 23
  <2>1. DropKey(t)
    BY <1>3, DeprovisionMoves DEF DeleteStep, FindSandbox, FindServerByName, DestroyServer, DropKey, ForgetRow, AnswerDelete, DeprovisionAt
  <2>2. Serves(t, Delete("forget", dep[t].rid, dep[t].vm)) /\ UNCHANGED <<cli, prov, row, vm>>
    BY <1>0, <2>1 DEF DropKey, AnswerDelete
  <2>3. DeprovisionAt(t, "forget")' /\ dep'[t].rid = row.id
    BY <1>3, <2>2, ServesOn, DeleteFields
  <2>4. OnTrack(22)'
    BY <1>0, <2>2, <2>3 DEF OnTrack, Missing
  <2> QED
    BY <1>3, <2>2, <2>4, Less
<1>4. CASE DeprovisionAt(t, "forget") /\ dep[t].rid = row.id /\ k = 22
  <2>1. ForgetRow(t)
    BY <1>4, DeprovisionMoves DEF DeleteStep, FindSandbox, FindServerByName, DestroyServer, DropKey, ForgetRow, AnswerDelete, DeprovisionAt
  <2>2. Answered(t) /\ row' = NoRow /\ UNCHANGED <<prov, vm>>
    BY <1>0, <1>4, <2>1 DEF ForgetRow, AnswerDelete
  <2>3. Quiet'
    BY <1>4, <2>2, ServesEnd
  <2>4. OnTrack(21)'
    BY <1>0, <2>2, <2>3 DEF OnTrack, Between
  <2> QED
    BY <1>4, <2>2, <2>4, Less
<1> QED
  BY <1>1, <1>2, <1>3, <1>4 DEF Missing

\* When all is quiet the user provisions, if there is no row, and deprovisions, if there is one.
LEMMA BetweenStep ==
  ASSUME Sound, NEW k \in 0..26, Between(k), Next, ~Ready, NoFault
  PROVE  Nearer(k)
<1>1. ASSUME NEW t \in Terminals, Provision(t), row = NoRow PROVE Nearer(k)
  <2>1. /\ cli' = [cli EXCEPT ![t] = Cli("asked", runs + 1)] /\ Goes(<<t, 1>>, Post("limit", runs + 1, 0))
        /\ UNCHANGED <<row, vm, dep>>
    BY <1>1 DEF Provision, server
  <2>2. prov'[<<t, 1>>] = Post("limit", runs + 1, 0) /\ \A q \in Tries : q # <<t, 1>> => prov'[q] = prov[q]
    BY <2>1, GoesTo, TryOf DEF Sound, Shapes
  <2>3. /\ cli'[t].pc = "asked" /\ cli'[t].key = runs + 1 /\ runs + 1 # 0
        /\ prov'[<<t, 1>>].pc = "limit" /\ prov'[<<t, 1>>].key = runs + 1
    BY <2>1, <2>2, CliFields, PostFields DEF Sound, Shapes
  <2>4. \A u \in Terminals : Free(u)
    BY DEF Between, Quiet
  <2>5. prov'[<<t, 2>>] = NoPost /\ dep'[t] = NoDelete /\ \A u \in Terminals \ {t} : Free(u)'
    BY <2>1, <2>2, <2>4, TryOf DEF Free, Sound, Shapes
  <2>6. ProvisionAt(t, "limit")'
    BY <2>3, <2>5 DEF ProvisionAt, Only
  <2>7. CASE vm = NoVm
    <3>1. OnTrack(8)' /\ k = 9
      BY <1>1, <2>1, <2>6, <2>7 DEF OnTrack, Coming, Between
    <3> QED
      BY <2>1, <3>1, Less
  <2>8. CASE vm # NoVm
    <3>1. OnTrack(20)' /\ k = 21
      BY <1>1, <2>1, <2>6, <2>8 DEF OnTrack, Stuck, Between
    <3> QED
      BY <2>1, <3>1, Less
  <2> QED
    BY <2>7, <2>8
<1>2. ASSUME NEW t \in Terminals, Deprovision(t), row # NoRow PROVE Nearer(k)
  <2>1. PICK name \in entries : /\ cli' = [cli EXCEPT ![t] = Cli("waiting", name)] /\ Serves(t, Delete("find", 0, 0))
                              /\ UNCHANGED <<row, vm, prov>>
    BY <1>2 DEF Deprovision, server
  <2>2. dep'[t] = Delete("find", 0, 0) /\ \A u \in Terminals : u # t => dep'[u] = dep[u]
    BY <2>1, ServesTo DEF Sound, Shapes
  <2>3. cli'[t].pc = "waiting" /\ dep'[t].pc = "find"
    BY <2>1, <2>2, CliFields, DeleteFields DEF Sound, Shapes
  <2>4. \A u \in Terminals : Free(u)
    BY DEF Between, Quiet
  <2>5. prov'[<<t, 1>>] = NoPost /\ prov'[<<t, 2>>] = NoPost /\ \A u \in Terminals \ {t} : Free(u)'
    BY <2>1, <2>2, <2>4 DEF Free, Sound, Shapes
  <2>6. DeprovisionAt(t, "find")'
    BY <2>3, <2>5 DEF DeprovisionAt, Only
  <2>7. CASE Known
    <3>1. OnTrack(14)' /\ k = 15
      BY <1>2, <2>1, <2>6, <2>7 DEF OnTrack, Clearing, Between, Known
    <3> QED
      BY <2>1, <3>1, Less
  <2>8. CASE ~Known
    <3>1. OnTrack(25)' /\ k = 26
      BY <1>2, <2>1, <2>6, <2>8 DEF OnTrack, Missing, Between, Known
    <3> QED
      BY <2>1, <3>1, Less
  <2> QED
    BY <2>7, <2>8
<1> QED
  BY <1>1, <1>2, QuietMoves DEF Between

\* The report of the VM changes nothing but that it has reported.
LEMMA ReadyStep ==
  ASSUME Sound, NEW k \in 0..26, OnTrack(k), Ready, NoFault
  PROVE  Nearer(k)
<1>0. ~Fault
  BY NoneFails
<1>1. /\ vm # NoVm /\ ~vm.told /\ vm' = Vm(vm.rid, vm.key, TRUE) /\ ~Booting
      /\ row' = IF row.id = vm.rid THEN Row(row.id, row.key, row.hid, TRUE) ELSE row
      /\ UNCHANGED <<prov, dep, cli, entries, sshKey>>
  BY <1>0 DEF Ready
<1>2. vm'.rid = vm.rid /\ vm'.key = vm.key /\ vm'.told = TRUE /\ vm.rid # 0
  BY <1>1 DEF Vm, Sound, VmNamed
<1>3. vm' # NoVm
  BY <1>2, Nulls
<1>4. row'.id = row.id /\ row'.hid = row.hid /\ (row.id = vm.rid => row'.active)
  BY <1>1 DEF Row
<1>5. row' = NoRow <=> row = NoRow
  BY <1>1, <1>2, <1>4, Nulls DEF Sound, RowNamed
<1>6. Untold = 1 /\ Untold' = 0
  BY <1>1, <1>2 DEF Untold
<1>7. Known' <=> Known
  BY <1>1, <1>2, <1>3, <1>4 DEF Known
<1>8. /\ Quiet => Quiet'
      /\ \A t \in Terminals : \A pc : ProvisionAt(t, pc) => ProvisionAt(t, pc)'
      /\ \A t \in Terminals : \A pc : DeprovisionAt(t, pc) => DeprovisionAt(t, pc)'
      /\ \A t \in Terminals : Polling(t) => Polling(t)'
  BY <1>1 DEF Quiet, ProvisionAt, DeprovisionAt, Polling, Only, Free
<1>9. \A t \in Terminals : Arrived(t) => Arrived(t)'
  BY <1>1, <1>2, <1>3, <1>4, <1>5 DEF Arrived
<1>10. ASSUME NEW t \in Terminals, Coming(t, k) PROVE Coming(t, k)'
  <2>1. ~(ProvisionAt(t, "persist") /\ Arrived(t) /\ row.id = prov[<<t, 1>>].rid)
    BY <1>1, TryOf DEF Booting, ProvisionAt, Arrived
  <2>2. \/ ProvisionAt(t, "ok") /\ Arrived(t) /\ k = 2
        \/ Polling(t) /\ Arrived(t) /\ k = 1
    BY <1>1, <1>10, <2>1 DEF Coming
  <2> QED
    BY <1>8, <1>9, <2>2 DEF Coming
<1>11. ASSUME NEW t \in Terminals, Clearing(t, k) PROVE Clearing(t, k)'
  <2>1. \/ DeprovisionAt(t, "find") /\ row # NoRow /\ Known /\ k = 14
        \/ DeprovisionAt(t, "look") /\ dep[t].rid = row.id /\ k = 13
        \/ DeprovisionAt(t, "destroy") /\ dep[t].rid = row.id /\ vm.rid = dep[t].vm /\ k = 12
    BY <1>1, <1>11 DEF Clearing
  <2> QED
    BY <1>1, <1>2, <1>4, <1>5, <1>7, <1>8, <2>1 DEF Clearing
<1>12. ASSUME NEW t \in Terminals, Stuck(t, k) PROVE Stuck(t, k)'
  BY <1>3, <1>4, <1>5, <1>8, <1>12 DEF Stuck
<1>13. ASSUME NEW t \in Terminals, Missing(t, k) PROVE Missing(t, k)'
  BY <1>1, <1>2, <1>3, <1>4, <1>5, <1>7, <1>8, <1>13 DEF Missing
<1>14. ASSUME Between(k) PROVE Between(k)'
  BY <1>1, <1>3, <1>5, <1>7, <1>8, <1>14 DEF Between
<1>15. OnTrack(k)'
  BY <1>10, <1>11, <1>12, <1>13, <1>14 DEF OnTrack
<1> QED
  BY <1>6, <1>15 DEF Nearer

LEMMA TrackStep ==
  ASSUME Sound, NEW k \in 0..26, OnTrack(k), Next, NoFault
  PROVE  GetsIn' \/ Nearer(k) \/ (k > 15 /\ Stranded')
<1>1. CASE Ready
  BY <1>1, ReadyStep
<1>2. CASE ~Ready
  BY <1>2, ComingStep, ClearingStep, StuckStep, MissingStep, BetweenStep DEF OnTrack
<1> QED
  BY <1>1, <1>2

\* The argument of GetsSandbox but for fairness, and with a bound.  Whenever all is quiet and the user
\* is not stranded, whatever failed, was killed or was done carelessly before, the next 27 steps, if no
\* fault is among them, come to a login with the key of the VM or strand her: each is the next step of
\* the four rounds at most that she needs, or the report of the VM.  If no VM is without its row, she is
\* not stranded on the way, and it is 16 steps.
THEOREM SandboxIsNear ==
  Spec => /\ [](Quiet /\ ~Stranded =>
                  \E k \in 0..26 : /\ OnTrack(k) /\ k + Untold <= 27
                                   /\ (vm # NoVm => vm.rid = row.id) => k <= 15 /\ k + Untold <= 16)
          /\ [][\A k \in 0..26 : OnTrack(k) /\ NoFault =>
                  \/ GetsIn'
                  \/ \E j \in 0..26 : OnTrack(j)' /\ j + Untold' < k + Untold
                  \/ k > 15 /\ Stranded']_vars
<1>1. Init => IInv
  BY VmInvInit, KeyInvInit DEF IInv
<1>2. IInv /\ [Next]_vars => IInv'
  BY VmInvStep, KeyInvStep DEF IInv
<1>3. IInv => Sound
  BY TypeParts DEF IInv, VmInv, KeyInv, Sound, Counters
<1>4. IInv => (Quiet /\ ~Stranded =>
                 \E k \in 0..26 : /\ OnTrack(k) /\ k + Untold <= 27
                                  /\ (vm # NoVm => vm.rid = row.id) => k <= 15 /\ k + Untold <= 16)
  <2> SUFFICES ASSUME IInv, Quiet, ~Stranded
               PROVE  \E k \in 0..26 : /\ OnTrack(k) /\ k + Untold <= 27
                                       /\ (vm # NoVm => vm.rid = row.id) => k <= 15 /\ k + Untold <= 16
    OBVIOUS
  <2>1. row # NoRow => entries # {}
    BY DEF Stranded
  <2>2. vm # NoVm /\ vm.rid = row.id => row # NoRow
    BY <1>3, Nulls DEF Sound, VmNamed
  <2>3. \A k \in 0..26 : k + Untold <= 27 /\ (k <= 15 => k + Untold <= 16)
    BY UntoldIs
  <2>4. CASE (vm # NoVm => vm.rid = row.id)
    <3>1. \E k \in {9, 15} : OnTrack(k)
      BY <2>1, <2>2, <2>4 DEF OnTrack, Between, Known
    <3> QED
      BY <2>3, <3>1
  <2>5. CASE ~(vm # NoVm => vm.rid = row.id)
    <3>1. \E k \in 0..26 : OnTrack(k)
      BY <2>1 DEF OnTrack, Between
    <3> QED
      BY <2>3, <2>5, <3>1
  <2> QED
    BY <2>4, <2>5
<1>5. IInv /\ [Next]_vars =>
        [\A k \in 0..26 : OnTrack(k) /\ NoFault =>
           \/ GetsIn'
           \/ \E j \in 0..26 : OnTrack(j)' /\ j + Untold' < k + Untold
           \/ k > 15 /\ Stranded']_vars
  BY <1>3, TrackStep DEF Nearer
<1> QED
  BY <1>1, <1>2, <1>4, <1>5, PTL DEF Spec
=============================================================================
