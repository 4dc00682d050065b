-------------------------- MODULE SandboxLifecycle --------------------------
(***************************************************************************)
(* The sandbox of one user.  The CLI (duoidal sandbox provision and        *)
(* deprovision) calls the routes of agent-livestream; their handlers keep  *)
(* one row of resources and one VM at the provider in step with calls that *)
(* fail, lose their answer or die on the way; the VM reports once, by      *)
(* /ready.  Rows, VM and SSH key have names made of the user's id, so there *)
(* is one of each, and no handler knows of another.                        *)
(*                                                                         *)
(* The id of a VM is that of the row it was created for; an SSH key is the *)
(* number of the run of the CLI that made it, and so is a local entry: the *)
(* terminals share the config file, and every run takes a name of its own. *)
(* Cloudflare hostnames and ingress rules, all best effort, are left out.  *)
(***************************************************************************)
EXTENDS Naturals

CONSTANTS
  Terminals,   \* where the user runs the CLI
  MaxRuns,     \* bound on runs of sandbox provision
  MaxFaults    \* bound on failures, kills, slow answers and careless commands

ASSUME SandboxAssumption == MaxRuns \in Nat /\ MaxFaults \in Nat

VARIABLES
  row,       \* the server resource, and the public key of its credential
  vm,        \* the VM of that name at the provider
  sshKey,    \* the key of that name at the provider, 0 for none
  cli,       \* the command at each terminal
  entries,   \* the local entries: a provision that came through, and not cleaned up since
  prov,      \* the handler of POST /provision, for the first try and the second
  dep,       \* the handler of DELETE /deprovision
  rows,      \* rows inserted so far
  runs,      \* runs of sandbox provision so far
  faults,    \* faults so far
  overlap,   \* whether a command was ever given while a handler was at work
  blind      \* whether a deprovision ever went on without an answer to its lookup

server == <<row, vm, sshKey, rows>>
history == <<runs, faults, overlap, blind>>
vars == <<server, cli, entries, prov, dep, history>>

Tries == Terminals \X {1, 2}

Row(id, key, hid, active) == [id |-> id, key |-> key, hid |-> hid, active |-> active]
NoRow == Row(0, 0, FALSE, FALSE)       \* hid: hetznerServerId is in the config
Vm(rid, key, told) == [rid |-> rid, key |-> key, told |-> told]
NoVm == Vm(0, 0, FALSE)                \* rid: RESOURCE_ID; told: /ready is done
Cli(pc, key) == [pc |-> pc, key |-> key]
Idle == Cli("idle", 0)
Post(pc, key, rid) == [pc |-> pc, key |-> key, rid |-> rid]
NoPost == Post("none", 0, 0)
Delete(pc, rid, vmid) == [pc |-> pc, rid |-> rid, vm |-> vmid]
NoDelete == Delete("none", 0, 0)

Rows == [id: Nat, key: Nat, hid: BOOLEAN, active: BOOLEAN]
Vms == [rid: Nat, key: Nat, told: BOOLEAN]
Clis == [pc: {"idle", "asked", "again", "polling", "ssh", "waiting", "cleaning"}, key: Nat]
Claimed == {"key", "server", "persist"}
Posts == [pc: {"none", "limit", "claim", "refused", "failed", "ok"} \cup Claimed, key: Nat, rid: Nat]
Deletes == [pc: {"none", "find", "look", "destroy", "key", "forget"}, rid: Nat, vm: Nat]

TypeOK ==
  /\ row \in Rows /\ vm \in Vms /\ sshKey \in Nat
  /\ cli \in [Terminals -> Clis]
  /\ entries \subseteq Nat
  /\ prov \in [Tries -> Posts]
  /\ dep \in [Terminals -> Deletes]
  /\ rows \in Nat /\ runs \in 0..MaxRuns /\ faults \in 0..MaxFaults
  /\ row.id <= rows
  /\ overlap \in BOOLEAN /\ blind \in BOOLEAN

Init ==
  /\ row = NoRow /\ vm = NoVm /\ sshKey = 0
  /\ cli = [t \in Terminals |-> Idle] /\ entries = {}
  /\ prov = [p \in Tries |-> NoPost]
  /\ dep = [t \in Terminals |-> NoDelete]
  /\ rows = 0 /\ runs = 0 /\ faults = 0
  /\ overlap = FALSE /\ blind = FALSE

Fault == faults < MaxFaults /\ faults' = faults + 1                 \* bound
NoFault == UNCHANGED faults

Free(t) == cli[t] = Idle /\ prov[<<t, 1>>] = NoPost /\ prov[<<t, 2>>] = NoPost /\ dep[t] = NoDelete
Quiet == \A t \in Terminals : Free(t)
Provisioning == \E p \in Tries : prov[p] # NoPost

\* A user gives a command when all is quiet and there is reason to; otherwise it is a fault.
Command(reason) ==
  /\ IF Quiet /\ reason THEN NoFault ELSE Fault
  /\ overlap' = (overlap \/ ~Quiet)

-----------------------------------------------------------------------------
(* POST /provision. *)

Goes(p, post) == prov' = [prov EXCEPT ![p] = post]
Says(p, answer) == Goes(p, Post(answer, prov[p].key, 0))

\* The limit of one sandbox is checked well before the row is claimed.
CheckLimit(p) ==
  /\ prov[p].pc = "limit"
  /\ IF row = NoRow THEN Goes(p, Post("claim", prov[p].key, 0)) ELSE Says(p, "refused")
  /\ UNCHANGED <<server, cli, entries, dep, history>>

\* Mutant: a new row takes an id that was in use.
ClaimOldId(p) ==
  /\ prov[p].pc = "claim" /\ row = NoRow
  /\ row' = Row(rows + 1, prov[p].key, FALSE, FALSE)
  /\ Goes(p, Post("key", prov[p].key, rows + 1))
  /\ UNCHANGED <<rows, vm, sshKey, cli, entries, dep, history>>

\* provision_sandbox, under its advisory lock: who finds a row has lost and is done.
Claim(p) ==
  /\ prov[p].pc = "claim"
  /\ IF row = NoRow
       THEN /\ rows' = rows + 1
            /\ row' = Row(rows + 1, prov[p].key, FALSE, FALSE)
            /\ Goes(p, Post("key", prov[p].key, rows + 1))
       ELSE /\ Says(p, "ok")
            /\ UNCHANGED <<row, rows>>
  /\ UNCHANGED <<vm, sshKey, cli, entries, dep, history>>

\* Mutant: a key that is there is taken as it is.
RegisterKeyOnce(p) ==
  /\ prov[p].pc = "key"
  /\ sshKey' = (IF sshKey = 0 THEN prov[p].key ELSE sshKey)
  /\ Goes(p, [prov[p] EXCEPT !.pc = "server"])
  /\ UNCHANGED <<row, vm, rows, cli, entries, dep, history>>

\* The key of an earlier run is deleted and made again.  An answer may be lost at each call.
RegisterKey(p) ==
  /\ prov[p].pc = "key"
  /\ \/ sshKey' = prov[p].key /\ Goes(p, Post("server", prov[p].key, prov[p].rid)) /\ NoFault
     \/ sshKey' \in {sshKey, 0, prov[p].key} /\ Says(p, "failed") /\ Fault
  /\ UNCHANGED <<row, vm, rows, cli, entries, dep, runs, overlap, blind>>

\* POST /servers needs a free name and a key of the given name; its answer may be lost.
CreateServer(p) ==
  /\ prov[p].pc = "server"
  /\ \/ (vm # NoVm \/ sshKey = 0) /\ Says(p, "failed") /\ UNCHANGED vm /\ NoFault
     \/ /\ vm = NoVm /\ sshKey # 0
        /\ vm' = Vm(prov[p].rid, sshKey, FALSE)
        /\ \/ Goes(p, Post("persist", prov[p].key, prov[p].rid)) /\ NoFault
           \/ Says(p, "failed") /\ Fault
     \/ Says(p, "failed") /\ UNCHANGED vm /\ Fault
  /\ UNCHANGED <<row, sshKey, rows, cli, entries, dep, runs, overlap, blind>>

\* The config is written back with status provisioning; a failure is only logged.
Persist(p) ==
  /\ prov[p].pc = "persist"
  /\ Says(p, "ok")
  /\ \/ NoFault /\ row' = IF row.id = prov[p].rid THEN Row(row.id, row.key, TRUE, FALSE) ELSE row
     \/ Fault /\ UNCHANGED row
  /\ UNCHANGED <<vm, sshKey, rows, cli, entries, dep, runs, overlap, blind>>

\* Whether a command still waits for the answer.
Awaited(p) == cli[p[1]].pc = IF p[2] = 1 THEN "asked" ELSE "again"

\* The command that is told of a sandbox makes a local entry and waits for it to be active.
AnswerPost(p) ==
  /\ prov[p].pc \in {"refused", "failed", "ok"}
  /\ Goes(p, NoPost)
  /\ LET t == p[1] IN
       /\ cli' = IF ~Awaited(p) THEN cli
                 ELSE [cli EXCEPT ![t] = IF prov[p].pc = "ok" THEN Cli("polling", cli[t].key) ELSE Idle]
       /\ entries' = IF Awaited(p) /\ prov[p].pc = "ok" THEN entries \cup {cli[t].key} ELSE entries
  /\ UNCHANGED <<server, dep, history>>

PostDies(p) ==
  /\ prov[p] # NoPost
  /\ Goes(p, NoPost) /\ Fault
  /\ UNCHANGED <<server, cli, entries, dep, runs, overlap, blind>>

-----------------------------------------------------------------------------
(* DELETE /deprovision. *)

Serves(t, delete) == dep' = [dep EXCEPT ![t] = delete]
Deprovisioning(t) == cli[t].pc \in {"waiting", "cleaning"}

Answered(t) ==
  /\ Serves(t, NoDelete)
  /\ cli' = [cli EXCEPT ![t] = IF Deprovisioning(t) THEN Idle ELSE cli[t]]

\* The local entry goes with the sandbox, and after a time-out it goes in any case.
AnswerDelete(t, deleted) ==
  /\ Answered(t)
  /\ entries' = IF cli[t].pc = "cleaning" \/ (cli[t].pc = "waiting" /\ deleted)
                  THEN entries \ {cli[t].key} ELSE entries

\* Without a row the answer is deleted and alreadyGone, and nobody looks for a VM.
FindSandbox(t) ==
  /\ dep[t].pc = "find"
  /\ IF row = NoRow
       THEN AnswerDelete(t, TRUE)
       ELSE /\ Serves(t, IF row.hid THEN Delete("destroy", row.id, row.id)
                                      ELSE Delete("look", row.id, 0))
            /\ UNCHANGED <<cli, entries>>
  /\ UNCHANGED <<server, prov, history>>

\* Mutant: a row without hetznerServerId has no VM.
FindServerNot(t) ==
  /\ dep[t].pc = "look"
  /\ Serves(t, Delete("forget", dep[t].rid, 0))
  /\ UNCHANGED <<server, cli, entries, prov, history>>

\* The fallback looks for the VM by its name.  A lookup that fails is logged and that is all.
FindServerByName(t) ==
  /\ dep[t].pc = "look"
  /\ \/ /\ Serves(t, Delete(IF vm = NoVm THEN "forget" ELSE "destroy", dep[t].rid, vm.rid))
        /\ NoFault /\ UNCHANGED blind
     \/ /\ Serves(t, Delete("forget", dep[t].rid, 0))
        /\ Fault /\ blind' = TRUE
  /\ UNCHANGED <<server, cli, entries, prov, runs, overlap>>

\* Mutant: a VM that is not there cannot be deleted.
DestroyServerThere(t) ==
  /\ dep[t].pc = "destroy"
  /\ IF vm.rid = dep[t].vm
       THEN vm' = NoVm /\ Serves(t, Delete("key", dep[t].rid, dep[t].vm)) /\ UNCHANGED <<cli, entries>>
       ELSE AnswerDelete(t, FALSE) /\ UNCHANGED vm
  /\ UNCHANGED <<row, sshKey, rows, prov, history>>

\* A VM that is not there any more is as good as deleted.
DestroyServer(t) ==
  /\ dep[t].pc = "destroy"
  /\ \/ /\ vm' = (IF vm.rid = dep[t].vm THEN NoVm ELSE vm)
        /\ Serves(t, Delete("key", dep[t].rid, dep[t].vm))
        /\ NoFault /\ UNCHANGED <<cli, entries>>
     \/ AnswerDelete(t, FALSE) /\ Fault /\ UNCHANGED vm
  /\ UNCHANGED <<row, sshKey, rows, prov, runs, overlap, blind>>

\* A key that cannot be listed is left; one that cannot be deleted is an error.
DropKey(t) ==
  /\ dep[t].pc = "key"
  /\ \/ sshKey' = 0 /\ Serves(t, Delete("forget", dep[t].rid, dep[t].vm)) /\ NoFault /\ UNCHANGED <<cli, entries>>
     \/ /\ UNCHANGED sshKey /\ Fault
        /\ \/ Serves(t, Delete("forget", dep[t].rid, dep[t].vm)) /\ UNCHANGED <<cli, entries>>
           \/ AnswerDelete(t, FALSE)
  /\ UNCHANGED <<row, vm, rows, prov, runs, overlap, blind>>

\* deprovision_sandbox, of the row found first; no row is no error.
ForgetRow(t) ==
  /\ dep[t].pc = "forget"
  /\ \/ row' = (IF row.id = dep[t].rid THEN NoRow ELSE row) /\ AnswerDelete(t, TRUE) /\ NoFault
     \/ UNCHANGED row /\ AnswerDelete(t, FALSE) /\ Fault
  /\ UNCHANGED <<vm, sshKey, rows, prov, runs, overlap, blind>>

DeleteDies(t) ==
  /\ dep[t] # NoDelete
  /\ AnswerDelete(t, FALSE) /\ Fault
  /\ UNCHANGED <<server, prov, runs, overlap, blind>>

-----------------------------------------------------------------------------
(* POST /ready, by the bootstrap script of the VM, which tries once. *)

\* A VM boots for minutes: a handler that has not written the config by then is a slow one.
Booting == \E p \in Tries : prov[p].pc = "persist" /\ prov[p].rid = vm.rid

Ready ==
  /\ vm # NoVm /\ ~vm.told
  /\ vm' = Vm(vm.rid, vm.key, TRUE)
  /\ \/ /\ IF Booting THEN Fault ELSE NoFault
        /\ row' = IF row.id = vm.rid THEN Row(row.id, row.key, row.hid, TRUE) ELSE row
     \/ Fault /\ UNCHANGED row
  /\ UNCHANGED <<sshKey, rows, cli, entries, prov, dep, runs, overlap, blind>>

-----------------------------------------------------------------------------
(* The CLI. *)

Provision(t) ==
  /\ Free(t)
  /\ runs < MaxRuns                                                 \* bound
  /\ Command(row = NoRow)
  /\ runs' = runs + 1
  /\ cli' = [cli EXCEPT ![t] = Cli("asked", runs + 1)]
  /\ Goes(<<t, 1>>, Post("limit", runs + 1, 0))
  /\ UNCHANGED <<server, entries, dep, blind>>

\* 502, 503 or 504: the request is sent again, once, while the handler may be at work.
TryAgain(t) ==
  /\ cli[t].pc = "asked"
  /\ IF prov[<<t, 1>>] = NoPost THEN NoFault ELSE Fault
  /\ cli' = [cli EXCEPT ![t] = Cli("again", cli[t].key)]
  /\ Goes(<<t, 2>>, Post("limit", cli[t].key, 0))
  /\ UNCHANGED <<server, entries, dep, runs, overlap, blind>>

\* The CLI is killed or gives up on an error; what it asked for goes on.
GivesUp(t) ==
  /\ cli[t].pc # "idle"
  /\ cli' = [cli EXCEPT ![t] = Idle]
  /\ IF cli[t].pc = "again" /\ prov[<<t, 2>>] = NoPost THEN NoFault ELSE Fault
  /\ UNCHANGED <<server, entries, prov, dep, runs, overlap, blind>>

\* GET /status tells of whatever sandbox the user has; 404 ends the command.
PollStatus(t) ==
  /\ cli[t].pc = "polling"
  /\ \/ row = NoRow /\ cli' = [cli EXCEPT ![t] = Idle]
     \/ row.active /\ cli' = [cli EXCEPT ![t] = Cli("ssh", cli[t].key)]
  /\ UNCHANGED <<server, entries, prov, dep, history>>

\* 300 s without an active server: the CLI deprovisions what there is, and its entry is done with.
PollTimesOut(t) ==
  /\ cli[t].pc = "polling" /\ row # NoRow /\ ~row.active
  /\ cli' = [cli EXCEPT ![t] = Cli("cleaning", cli[t].key)]
  /\ Serves(t, Delete("find", 0, 0))
  /\ IF Provisioning \/ (vm.rid = row.id /\ ~vm.told) THEN Fault ELSE NoFault
  /\ overlap' = (overlap \/ Provisioning)
  /\ UNCHANGED <<server, entries, prov, runs, blind>>

SshEnds(t) ==
  /\ cli[t].pc = "ssh"
  /\ cli' = [cli EXCEPT ![t] = Idle]
  /\ UNCHANGED <<server, entries, prov, dep, history>>

\* Without a local entry of the name given the command ends before any request; which entry it
\* is makes no difference to the server.
Deprovision(t) ==
  /\ Free(t)
  /\ Command(row # NoRow)
  /\ \E name \in entries : cli' = [cli EXCEPT ![t] = Cli("waiting", name)]
  /\ Serves(t, Delete("find", 0, 0))
  /\ UNCHANGED <<server, entries, prov, runs, blind>>

PostStep(p) == CheckLimit(p) \/ Claim(p) \/ RegisterKey(p) \/ CreateServer(p) \/ Persist(p) \/ AnswerPost(p)
DeleteStep(t) ==
  FindSandbox(t) \/ FindServerByName(t) \/ DestroyServer(t) \/ DropKey(t) \/ ForgetRow(t)
CliStep(t) == PollStatus(t) \/ PollTimesOut(t) \/ SshEnds(t)

Next ==
  \/ \E p \in Tries : PostStep(p) \/ PostDies(p)
  \/ \E t \in Terminals :
       \/ DeleteStep(t) \/ DeleteDies(t) \/ CliStep(t)
       \/ Provision(t) \/ Deprovision(t) \/ TryAgain(t) \/ GivesUp(t)
  \/ Ready

Spec == Init /\ [][Next]_vars

\* Handlers and commands go on, VMs report, and the user provisions or deprovisions in the end.
\* No fault is ever due.
FairSpec ==
  /\ Spec
  /\ \A p \in Tries : WF_vars(PostStep(p))
  /\ \A t \in Terminals :
       WF_vars(DeleteStep(t)) /\ WF_vars((CliStep(t) \/ TryAgain(t) \/ GivesUp(t)) /\ NoFault)
  /\ WF_vars(Ready)
  /\ WF_vars((\E t \in Terminals : Provision(t) \/ Deprovision(t)) /\ NoFault)

-----------------------------------------------------------------------------
\* No VM is left running that no row tells of, whichever calls failed or died, as long as
\* commands do not overlap and no lookup failed: deprovision finds every VM.
VmHasRow == vm # NoVm /\ ~overlap /\ ~blind => row.id = vm.rid

\* A CLI that is told of an active server holds the key of that server's VM.
KeyWorks == \A t \in Terminals : cli[t].pc = "ssh" /\ ~overlap => vm # NoVm /\ vm.key = cli[t].key

LoggedIn(t) == cli[t].pc = "ssh" /\ vm # NoVm /\ vm.key = cli[t].key

\* A row that no local entry tells of: provision answers 409 and deprovision refuses, for good.
Stranded == Quiet /\ row # NoRow /\ entries = {}

\* Whatever failed, was killed or was done carelessly before, a user who deprovisions what there
\* is and provisions again gets a sandbox that lets her in, unless the CLI leaves her stranded.
GetsSandbox == <>(Stranded \/ \E t \in Terminals : LoggedIn(t))

\* sandbox-bff-client.ts: "These indicate the BFF app never handled the request, so a POST retry
\* is safe."
RetrySafe == \A t \in Terminals : prov[<<t, 2>>].pc = "refused" => row.key # prov[<<t, 2>>].key
=============================================================================
