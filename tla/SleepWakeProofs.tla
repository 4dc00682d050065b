-------------------------- MODULE SleepWakeProofs ---------------------------
(***************************************************************************)
(* For any number of segments and resume commands, and any order of kills, *)
(* timeouts and cleanups: at most one segment lives, a segment gets at     *)
(* most one session, and a script that sleeps keeps its worktree.  At the  *)
(* end: every step of the scheduler brings it nearer to a segment that     *)
(* sleeps or that nobody runs.                                             *)
(***************************************************************************)
EXTENDS SleepWake, TLAPS

\* The command r has claimed its segment and has yet to launch it.
Claimed(r) == resume[r].step \in {"provision", "launch"}

\* Nothing was launched for a segment that waits, is not there yet, or is claimed and not
\* launched yet.
Unlaunched(i) ==
  \/ i \notin Rows
  \/ status[i] = "waiting"
  \/ \E r \in Resumers : Claimed(r) /\ resume[r].seg = i

\* What the counts rest on: a claim is exclusive, and made on a row that no longer waits.
ClaimOK ==
  /\ \A i \in Segs : launched[i] <= 1 /\ (Unlaunched(i) => launched[i] = 0)
  /\ \A r \in Resumers : Claimed(r) => resume[r].seg \in Rows /\ status[resume[r].seg] # "waiting"
  /\ \A r, q \in Resumers : Claimed(r) /\ Claimed(q) /\ resume[r].seg = resume[q].seg => r = q

\* Commands and the scheduler are at rows of the table.
AtRows ==
  /\ \A r \in Resumers : resume[r].step # "idle" => resume[r].seg \in Rows
  /\ daemon.step \in {"waking", "failing"} => daemon.seg \in Rows
  /\ daemon.step = "waking" => daemon.child \in Resumers
  /\ daemon.step = "reap" => daemon.seg \in Rows

\* What the wrapper of a script finds as long as Job 2 has torn nothing down: the flag of a process
\* that has gone to sleep, and a row that never waited; its work is over before it tears down.
Kept ==
  /\ session[1] = "flagged" => flag
  /\ session[1] \in {"exited", "aborted"} /\ Len(status) # 1 => flag
  /\ session[1] \in Running \cup {"complete", "fail", "teardown"} => Len(status) = 1
  /\ ~tree.there => session[1] = "over" /\ Len(status) = 1

\* Segment 1 never waits, so no command is ever at it, and its session has begun.
KeptInv ==
  /\ status[1] # "waiting" /\ session[1] # "none"
  /\ \A r \in Resumers : resume[r].step # "idle" => resume[r].seg # 1
  /\ script /\ ~tree.cleaned => Kept

IInv == TypeOK /\ AtRows /\ OneLive /\ ClaimOK /\ KeptInv

-----------------------------------------------------------------------------
(* What a step may do to the rows and to the claims. *)

Alive == {"pending", "active", "waiting"}

\* Rows keep their status, or leave it for one that is not waiting, and none comes back to life.
Settles ==
  /\ status' \in Seq(Statuses) /\ Len(status') = Len(status)
  /\ \A i \in Rows : \/ status'[i] = status[i]
                     \/ status'[i] # "waiting" /\ (status'[i] \in Alive => status[i] \in Alive)

\* Nothing is launched and no command claims.
Unclaiming ==
  /\ launched' = launched
  /\ \A r \in Resumers : Claimed(r)' => Claimed(r) /\ resume'[r].seg = resume[r].seg

\* Rows are numbered from 1.
LEMMA Numbered ==
  ASSUME NEW s \in Seq(Statuses)
  PROVE  DOMAIN s = 1..Len(s) /\ Len(s) \in Nat
  OBVIOUS

\* A step that settles inserts nothing.
LEMMA SameRows ==
  ASSUME TypeOK, Settles
  PROVE  Rows' = Rows
<1>1. status \in Seq(Statuses) /\ status' \in Seq(Statuses) /\ Len(status') = Len(status)
  BY DEF TypeOK, Settles
<1> QED
  BY <1>1, Numbered DEF Rows

\* An UPDATE of one row.
LEMMA SetFacts ==
  ASSUME TypeOK, NEW i \in Rows, NEW s \in Statuses
  PROVE  /\ Set(i, s) \in Seq(Statuses) /\ Len(Set(i, s)) = Len(status)
         /\ Set(i, s)[i] = s
         /\ \A j \in Rows : j # i => Set(i, s)[j] = status[j]
  BY DEF TypeOK, Set, Rows

\* complete and fail, whose guard may not hold.
LEMMA GuardedSettles ==
  ASSUME TypeOK, NEW i \in Rows
  PROVE  /\ status' = status => Settles
         /\ status' = Completing(i) => Settles
         /\ status' = Failing(i) => Settles
         /\ status' = Set(i, "completed") => Settles
<1>1. status' = status => Settles
  BY DEF Settles, TypeOK
<1>2. ASSUME NEW s \in {"completed", "failed"}, status' = Set(i, s)
      PROVE  Settles
  <2>1. s \in Statuses /\ s \notin Alive /\ s # "waiting"
    BY DEF Statuses, Alive
  <2> QED
    BY <1>2, <2>1, SetFacts DEF Settles
<1> QED
  BY <1>1, <1>2 DEF Completing, Failing, Guarded

\* process active and the claim of process resume.
LEMMA ActivationSettles ==
  ASSUME TypeOK, NEW i \in Rows, status[i] \in Alive, status' = Set(i, "active")
  PROVE  Settles
<1>1. "active" \in Statuses
  BY DEF Statuses
<1> QED
  BY <1>1, SetFacts DEF Settles, Alive

\* Every step settles rows or puts one to sleep.
LEMMA StatusSteps ==
  ASSUME TypeOK, AtRows, Next
  PROVE  Settles \/ \E i \in Rows : Sleep(i)
<1>1. status' = status => Settles
  BY DEF Settles, TypeOK
<1>2. 1 \in Rows
  BY DEF TypeOK, Segs, Rows
<1>3. ASSUME NEW i \in Rows, SessionNext(i), ~Sleep(i)
      PROVE  Settles
  <2>1. CASE LoopActivates(i)
    BY <2>1, ActivationSettles DEF LoopActivates, Alive
  <2>2. CASE LoopCompletes(i)
    BY <2>2, <1>1, GuardedSettles DEF LoopCompletes
  <2>3. CASE LoopEmits(i) \/ ScriptFlags(i) \/ SleepRefused(i) \/ LoopEnds(i) \/ SessionDies(i)
    BY <2>3, <1>1 DEF LoopEmits, ScriptFlags, SleepRefused, LoopEnds, SessionDies
  <2> QED
    BY <1>3, <2>1, <2>2, <2>3 DEF SessionNext
<1>4. CASE WrapperNext
  BY <1>1, <1>2, <1>4, GuardedSettles DEF WrapperNext, WrapperDecides, WrapperSettles, WrapperTearsDown
<1>5. ASSUME NEW r \in Resumers, ResumeNext(r)
      PROVE  Settles
  <2>1. CASE ResumeClaims(r)
    <3>1. resume[r].seg \in Rows
      BY <2>1 DEF AtRows, ResumeClaims
    <3>2. CASE status[resume[r].seg] = "waiting"
      BY <2>1, <3>1, <3>2, ActivationSettles DEF ResumeClaims, Guarded, Alive
    <3>3. CASE status[resume[r].seg] # "waiting"
      BY <1>1, <2>1, <3>3 DEF ResumeClaims, Guarded
    <3> QED
      BY <3>2, <3>3
  <2>2. CASE ResumeFails(r)
    <3>1. resume[r].seg \in Rows
      BY <2>2 DEF AtRows, ResumeFails
    <3> QED
      BY <2>2, <3>1, GuardedSettles DEF ResumeFails
  <2>3. CASE ResumeReads(r) \/ ResumeProvisions(r) \/ ResumeLaunches(r) \/ LaunchFails(r)
    BY <1>1, <2>3 DEF ResumeReads, ResumeProvisions, ResumeLaunches, LaunchFails
  <2> QED
    BY <1>5, <2>1, <2>2, <2>3 DEF ResumeNext
<1>6. CASE DaemonNext
  <2>1. CASE DaemonFails
    BY <2>1, GuardedSettles DEF DaemonFails, AtRows
  <2>2. CASE DaemonReaps
    BY <2>2, GuardedSettles DEF DaemonReaps, AtRows
  <2>3. CASE ~DaemonFails /\ ~DaemonReaps
    BY <1>1, <1>6, <2>3 DEF DaemonNext, DaemonWakes, NothingToWake, ChildExits, ChildTimesOut, DaemonFinds,
       DaemonDemolishes, NoOrphans, DaemonStarts
  <2> QED
    BY <2>1, <2>2, <2>3
<1>7. ASSUME NEW i \in Rows, FallsQuiet(i)
      PROVE  Settles
  BY <1>1, <1>7 DEF FallsQuiet
<1>8. ASSUME NEW r \in Resumers, ResumeDies(r) \/ \E i \in Rows : PersonResumes(r, i)
      PROVE  Settles
  BY <1>1, <1>8 DEF ResumeDies, PersonResumes
<1>9. CASE DaemonDies
  BY <1>1, <1>9 DEF DaemonDies
<1> QED
  BY <1>3, <1>4, <1>5, <1>6, <1>7, <1>8, <1>9 DEF Next

\* process sleep: the old row is completed, the new one waits.
LEMMA SleepFacts ==
  ASSUME TypeOK, NEW i \in Rows, Sleep(i)
  PROVE  /\ status' \in Seq(Statuses) /\ Len(status') = Len(status) + 1 /\ Len(status') \in Segs
         /\ status[i] = "active" /\ status'[i] = "completed"
         /\ status'[Len(status) + 1] = "waiting"
         /\ \A j \in Rows : j # i => status'[j] = status[j]
         /\ Rows' = Rows \cup {Len(status) + 1} /\ Len(status) + 1 \notin Rows
<1>1. "completed" \in Statuses /\ "waiting" \in Statuses
  BY DEF Statuses
<1>2. Set(i, "completed") \in Seq(Statuses) /\ Len(Set(i, "completed")) = Len(status)
      /\ Set(i, "completed")[i] = "completed"
      /\ \A j \in Rows : j # i => Set(i, "completed")[j] = status[j]
  BY <1>1, SetFacts
<1>3. status' = Append(Set(i, "completed"), "waiting") /\ status[i] = "active" /\ Len(status) < MaxSegs
  BY DEF Sleep
<1> HIDE DEF Set
<1>4. /\ status' \in Seq(Statuses) /\ Len(status') = Len(status) + 1 /\ Len(status') \in Segs
      /\ status[i] = "active" /\ status'[i] = "completed"
      /\ status'[Len(status) + 1] = "waiting"
      /\ \A j \in Rows : j # i => status'[j] = status[j]
  BY <1>1, <1>2, <1>3, SleepWakeAssumption DEF TypeOK, Segs, Rows
<1>5. /\ Rows = 1..Len(status) /\ Len(status) \in Nat
      /\ Rows' = 1..Len(status')
  BY <1>4, Numbered DEF Rows, TypeOK
<1>6. Rows' = Rows \cup {Len(status) + 1} /\ Len(status) + 1 \notin Rows
  BY <1>4, <1>5
<1> QED
  BY <1>4, <1>6

-----------------------------------------------------------------------------
(* The inductive invariant. *)

\* A sleep completes the one live segment and inserts another; other steps add no live one.
LEMMA OneLivePreserved ==
  ASSUME TypeOK, AtRows, OneLive, Next
  PROVE  OneLive'
<1>1. CASE Settles
  <2>1. Live' \subseteq Live
    BY <1>1, SameRows DEF Settles, Live, Alive
  <2> QED
    BY <2>1 DEF OneLive
<1>2. ASSUME NEW i \in Rows, Sleep(i)
      PROVE  OneLive'
  <2>1. Live = {i}
    BY <1>2, SleepFacts DEF OneLive, Live
  <2>2. Live' \subseteq {Len(status) + 1}
    BY <1>2, <2>1, SleepFacts DEF Live
  <2> QED
    BY <2>2 DEF OneLive
<1> QED
  BY <1>1, <1>2, StatusSteps

\* A step that launches and claims nothing keeps every claim exclusive.
LEMMA ClaimKept ==
  ASSUME TypeOK, AtRows, ClaimOK, Next, Unclaiming
  PROVE  ClaimOK'
<1>1. /\ \A j \in Rows : j \in Rows' /\ (status'[j] = "waiting" => status[j] = "waiting")
      /\ \A j \in Segs : j \in Rows' \ Rows => launched[j] = 0
  <2>1. CASE Settles
    BY <2>1, SameRows DEF Settles
  <2>2. ASSUME NEW i \in Rows, Sleep(i)
        PROVE  \A j \in Rows : j \in Rows' /\ (status'[j] = "waiting" => status[j] = "waiting")
    BY <2>2, SleepFacts
  <2> QED
    BY <2>1, <2>2, StatusSteps DEF ClaimOK, Unlaunched
<1>2. \A j \in Segs : Unlaunched(j)' => launched[j] = 0
  BY <1>1 DEF ClaimOK, Unlaunched, Unclaiming
<1> QED
  BY <1>1, <1>2 DEF ClaimOK, Unclaiming

\* The claim is made on a waiting row, which it takes from the others, and a launch ends it.
LEMMA ClaimPreserved ==
  ASSUME TypeOK, AtRows, ClaimOK, Next
  PROVE  ClaimOK'
<1>1. CASE Unclaiming
  BY <1>1, ClaimKept
<1>2. ASSUME NEW r \in Resumers, ResumeClaims(r), ~Unclaiming
      PROVE  ClaimOK'
  <2> DEFINE i == resume[r].seg
  <2>1. i \in Rows /\ i \in Segs /\ resume \in [Resumers -> [step: ResumeSteps, seg: Segs, ok: BOOLEAN]]
    BY <1>2 DEF ResumeClaims, AtRows, TypeOK
  <2>2. status[i] = "waiting"
    BY <1>2, <2>1 DEF ResumeClaims, Exit, Unclaiming, Claimed
  <2>3. /\ Len(status') = Len(status) /\ Rows' = Rows
        /\ status'[i] = "active"
        /\ \A j \in Rows : j # i => status'[j] = status[j]
    <3>1. "active" \in Statuses /\ status' = Set(i, "active")
      BY <1>2, <2>2 DEF Statuses, ResumeClaims, Guarded
    <3>2. status' \in Seq(Statuses) /\ Len(status') = Len(status)
      BY <2>1, <3>1, SetFacts
    <3>3. Rows' = Rows
      BY <3>2, Numbered DEF Rows, TypeOK
    <3> QED
      BY <2>1, <3>1, <3>2, <3>3, SetFacts
  <2>4. /\ launched' = launched
        /\ resume'[r].step = "provision" /\ resume'[r].seg = i
        /\ \A q \in Resumers : q # r => resume'[q] = resume[q]
    BY <1>2, <2>1, <2>2 DEF ResumeClaims, Step
  <2>5. \A q \in Resumers : Claimed(q) => resume[q].seg # i
    BY <2>2 DEF ClaimOK
  <2>6. \A q \in Resumers : Claimed(q)' => q = r \/ Claimed(q)
    BY <2>4 DEF Claimed
  <2>7. \A j \in Segs : Unlaunched(j)' => Unlaunched(j)
    BY <2>2, <2>3, <2>4, <2>6 DEF Unlaunched
  <2> QED
    BY <2>1, <2>3, <2>4, <2>5, <2>6, <2>7 DEF ClaimOK
<1>3. ASSUME NEW r \in Resumers, ResumeLaunches(r)
      PROVE  ClaimOK'
  <2> DEFINE i == resume[r].seg
  <2>1. i \in Rows /\ i \in Segs /\ resume \in [Resumers -> [step: ResumeSteps, seg: Segs, ok: BOOLEAN]]
        /\ launched \in [Segs -> Nat] /\ Claimed(r)
    BY <1>3 DEF ResumeLaunches, AtRows, TypeOK, Claimed
  <2>2. launched[i] = 0
    BY <2>1 DEF ClaimOK, Unlaunched
  <2>3. /\ status' = status
        /\ launched' = [launched EXCEPT ![i] = @ + 1]
        /\ resume'[r].step = "idle"
        /\ \A q \in Resumers : q # r => resume'[q] = resume[q]
    BY <1>3, <2>1 DEF ResumeLaunches, Exit
  <2>4. \A q \in Resumers : Claimed(q)' => q # r /\ Claimed(q) /\ resume[q].seg # i
    BY <2>1, <2>3 DEF ClaimOK, Claimed
  <2>5. \A j \in Segs : Unlaunched(j)' => Unlaunched(j) /\ j # i
    BY <2>1, <2>3, <2>4 DEF Unlaunched, ClaimOK, Rows
  <2> QED
    BY <2>1, <2>2, <2>3, <2>4, <2>5 DEF ClaimOK, Rows
<1>4. ASSUME NEW r \in Resumers, \/ ResumeReads(r) \/ ResumeProvisions(r) \/ LaunchFails(r) \/ ResumeFails(r)
                                \/ ResumeDies(r) \/ \E i \in Rows : PersonResumes(r, i)
      PROVE  Unclaiming
  <2>1. resume \in [Resumers -> [step: ResumeSteps, seg: Segs, ok: BOOLEAN]] /\ launched' = launched
    BY <1>4 DEF ResumeReads, ResumeProvisions, LaunchFails, ResumeFails, ResumeDies, PersonResumes, TypeOK
  <2>2. \A q \in Resumers : q # r => resume'[q] = resume[q]
    BY <1>4, <2>1 DEF ResumeReads, ResumeProvisions, LaunchFails, ResumeFails, ResumeDies, PersonResumes,
       Step, Exit, Start
  <2>3. CASE ResumeReads(r)
    BY <2>1, <2>2, <2>3 DEF ResumeReads, Step, Exit, Unclaiming, Claimed
  <2>4. CASE ResumeProvisions(r)
    BY <2>1, <2>2, <2>4 DEF ResumeProvisions, Step, Unclaiming, Claimed
  <2>5. CASE LaunchFails(r) \/ ResumeFails(r) \/ ResumeDies(r)
    BY <2>1, <2>2, <2>5 DEF LaunchFails, ResumeFails, ResumeDies, Step, Exit, Unclaiming, Claimed
  <2>6. CASE \E i \in Rows : PersonResumes(r, i)
    BY <2>1, <2>2, <2>6 DEF PersonResumes, Start, Unclaiming, Claimed
  <2> QED
    BY <1>4, <2>3, <2>4, <2>5, <2>6
<1>5. ASSUME NEW r \in Resumers, NEW i \in Rows, DaemonWakes(r, i)
      PROVE  Unclaiming
  BY <1>5 DEF DaemonWakes, Start, Unclaiming, Claimed, TypeOK
<1>6. ASSUME UNCHANGED <<launched, resume>>
      PROVE  Unclaiming
  BY <1>6 DEF Unclaiming, Claimed
<1>7. \/ \E r \in Resumers : ResumeClaims(r) \/ ResumeLaunches(r)
      \/ \E r \in Resumers : \/ ResumeReads(r) \/ ResumeProvisions(r) \/ LaunchFails(r) \/ ResumeFails(r)
                              \/ ResumeDies(r) \/ \E i \in Rows : PersonResumes(r, i)
      \/ \E r \in Resumers, i \in Rows : DaemonWakes(r, i)
      \/ UNCHANGED <<launched, resume>>
  <2>1. ASSUME NEW i \in Rows, SessionNext(i) \/ FallsQuiet(i)
        PROVE  UNCHANGED <<launched, resume>>
    BY <2>1 DEF SessionNext, LoopActivates, LoopEmits, ScriptFlags, Sleep, SleepRefused, LoopCompletes,
       LoopEnds, SessionDies, FallsQuiet
  <2>2. CASE WrapperNext
    BY <2>2 DEF WrapperNext, WrapperDecides, WrapperSettles, WrapperTearsDown
  <2>3. CASE DaemonNext \/ DaemonDies
    BY <2>3 DEF DaemonNext, NothingToWake, ChildExits, ChildTimesOut, DaemonFails, DaemonFinds, DaemonReaps,
       DaemonDemolishes, NoOrphans, DaemonDies, DaemonStarts
  <2> QED
    BY <2>1, <2>2, <2>3 DEF Next, ResumeNext
<1> QED
  BY <1>1, <1>2, <1>3, <1>4, <1>5, <1>6, <1>7
-----------------------------------------------------------------------------
(* Types, and where commands and scheduler are. *)

\* Every step leaves rows of known statuses, within the bound, and removes none.
LEMMA RowsStay ==
  ASSUME TypeOK, AtRows, Next
  PROVE  status' \in Seq(Statuses) /\ Len(status') \in Segs /\ Rows \subseteq Rows'
<1>1. CASE Settles
  BY <1>1, SameRows DEF Settles, TypeOK
<1>2. ASSUME NEW i \in Rows, Sleep(i)
      PROVE  status' \in Seq(Statuses) /\ Len(status') \in Segs /\ Rows \subseteq Rows'
  BY <1>2, SleepFacts
<1> QED
  BY <1>1, <1>2, StatusSteps

\* A row is a segment within the bound.
LEMMA RowsAreSegs ==
  ASSUME TypeOK
  PROVE  Rows \subseteq Segs /\ 1 \in Rows
BY SleepWakeAssumption, Numbered DEF TypeOK, Segs, Rows

\* What each step does to the commands and to the scheduler.
LEMMA ActorsPreserved ==
  ASSUME TypeOK, AtRows, Next
  PROVE  /\ resume' \in [Resumers -> [step: ResumeSteps, seg: Segs, ok: BOOLEAN]]
         /\ daemon' \in [step: DaemonSteps, seg: Segs, child: Resumers \cup {Nobody}]
         /\ AtRows'
<1> DEFINE ResumeType == [Resumers -> [step: ResumeSteps, seg: Segs, ok: BOOLEAN]]
           DaemonType == [step: DaemonSteps, seg: Segs, child: Resumers \cup {Nobody}]
           Goal == resume' \in ResumeType /\ daemon' \in DaemonType /\ AtRows'
<1>1. Rows \subseteq Rows' /\ Rows \subseteq Segs /\ resume \in ResumeType /\ daemon \in DaemonType
  BY RowsStay, RowsAreSegs DEF TypeOK
\* A step of one command, which stays at its segment or takes a row.
<1>2. ASSUME NEW r \in Resumers, NEW step \in ResumeSteps, NEW ok \in BOOLEAN, NEW i \in Rows,
             resume' = [resume EXCEPT ![r] = [step |-> step, seg |-> i, ok |-> ok]]
      PROVE  /\ resume' \in ResumeType
             /\ \A q \in Resumers : resume'[q].step # "idle" => resume'[q].seg \in Rows'
  BY <1>1, <1>2 DEF AtRows
<1>3. ASSUME NEW r \in Resumers, resume[r].step # "idle",
             \/ \E step \in ResumeSteps : Step(r, step)
             \/ \E ok \in BOOLEAN : Exit(r, ok)
      PROVE  /\ resume' \in ResumeType
             /\ \A q \in Resumers : resume'[q].step # "idle" => resume'[q].seg \in Rows'
  BY <1>1, <1>3 DEF AtRows, Step, Exit, ResumeSteps
\* A step of the scheduler that ends where no segment matters, or at a row.
<1>4. ASSUME NEW step \in {"orphans", "demolish", "idle", "dead"}, Enter(step), resume' = resume
      PROVE  Goal
  BY <1>1, <1>4 DEF AtRows, Enter, DaemonSteps
<1>5. ASSUME daemon' = daemon, resume' \in ResumeType,
             \A q \in Resumers : resume'[q].step # "idle" => resume'[q].seg \in Rows'
      PROVE  Goal
  BY <1>1, <1>5 DEF AtRows
<1>6. ASSUME UNCHANGED <<resume, daemon>>
      PROVE  Goal
  BY <1>1, <1>6 DEF AtRows
<1>7. ASSUME NEW r \in Resumers, ResumeNext(r) \/ ResumeDies(r)
      PROVE  Goal
  <2>1. daemon' = daemon /\ resume[r].step # "idle"
    BY <1>7 DEF ResumeNext, ResumeDies, ResumeReads, ResumeClaims, ResumeProvisions, ResumeLaunches,
       LaunchFails, ResumeFails
  <2>2. \/ \E step \in ResumeSteps : Step(r, step)
        \/ \E ok \in BOOLEAN : Exit(r, ok)
    BY <1>7 DEF ResumeNext, ResumeDies, ResumeReads, ResumeClaims, ResumeProvisions, ResumeLaunches,
       LaunchFails, ResumeFails, ResumeSteps
  <2> QED
    BY <1>3, <1>5, <2>1, <2>2
<1>8. ASSUME NEW r \in Resumers, NEW i \in Rows, PersonResumes(r, i)
      PROVE  Goal
  BY <1>2, <1>5, <1>8 DEF PersonResumes, Start, ResumeSteps
<1>9. ASSUME NEW r \in Resumers, NEW i \in Rows, DaemonWakes(r, i)
      PROVE  Goal
  <2>1. /\ resume' \in ResumeType
        /\ \A q \in Resumers : resume'[q].step # "idle" => resume'[q].seg \in Rows'
    BY <1>2, <1>9 DEF DaemonWakes, Start, ResumeSteps
  <2>2. daemon' = [step |-> "waking", seg |-> i, child |-> r]
    BY <1>9 DEF DaemonWakes
  <2> QED
    BY <1>1, <2>1, <2>2 DEF AtRows, DaemonSteps
<1>10. CASE ChildExits \/ ChildTimesOut
  <2>1. resume' = resume /\ daemon.step = "waking" /\ (Enter("orphans") \/ Enter("failing"))
    BY <1>10 DEF ChildExits, ChildTimesOut
  <2> QED
    BY <1>1, <2>1 DEF AtRows, Enter, DaemonSteps
<1>11. CASE NothingToWake \/ DaemonFails \/ DaemonReaps \/ DaemonDemolishes \/ NoOrphans
            \/ DaemonStarts \/ DaemonDies
  BY <1>4, <1>11 DEF NothingToWake, DaemonFails, DaemonReaps, DaemonDemolishes, NoOrphans, DaemonStarts, DaemonDies
<1>12. ASSUME NEW i \in Rows, DaemonFinds(i)
       PROVE  Goal
  BY <1>1, <1>12 DEF DaemonFinds, AtRows, DaemonSteps
<1>13. ASSUME NEW i \in Rows, SessionNext(i) \/ FallsQuiet(i)
       PROVE  Goal
  BY <1>6, <1>13 DEF SessionNext, LoopActivates, LoopEmits, ScriptFlags, Sleep, SleepRefused, LoopCompletes,
     LoopEnds, SessionDies, FallsQuiet
<1>14. CASE WrapperNext
  BY <1>6, <1>14 DEF WrapperNext, WrapperDecides, WrapperSettles, WrapperTearsDown
<1> QED
  BY <1>7, <1>8, <1>9, <1>10, <1>11, <1>12, <1>13, <1>14 DEF Next, DaemonNext

\* The sessions, their number, the worktree, the flag and the clock.
LEMMA PlacesPreserved ==
  ASSUME TypeOK, AtRows, Next
  PROVE  /\ script' \in BOOLEAN /\ flag' \in BOOLEAN
         /\ session' \in [Segs -> SessionSteps]
         /\ launched' \in [Segs -> Nat]
         /\ tree' \in [there: BOOLEAN, cleaned: BOOLEAN]
         /\ quiet' \subseteq Rows'
<1> DEFINE Goal == /\ script' \in BOOLEAN /\ flag' \in BOOLEAN
                   /\ session' \in [Segs -> SessionSteps]
                   /\ launched' \in [Segs -> Nat]
                   /\ tree' \in [there: BOOLEAN, cleaned: BOOLEAN]
                   /\ quiet' \subseteq Rows'
<1>1. Rows \subseteq Rows'
  BY RowsStay
<1>2. ASSUME NEW i, NEW step \in SessionSteps, Goto(i, step)
      PROVE  session' \in [Segs -> SessionSteps]
  BY <1>2 DEF TypeOK, Goto
<1>3. ASSUME NEW i, NEW step \in {"exited", "aborted"}, Over(i, step)
      PROVE  session' \in [Segs -> SessionSteps]
  BY <1>2, <1>3 DEF Over, SessionSteps
<1>4. {"flagged", "over", "complete", "fail", "teardown", "loop"} \subseteq SessionSteps
  BY DEF SessionSteps, Running
<1>5. ASSUME NEW i \in Rows, SessionNext(i) \/ FallsQuiet(i)
      PROVE  Goal
  <2>1. /\ UNCHANGED <<script, launched, tree>> /\ flag' \in {flag, TRUE}
        /\ quiet' \subseteq quiet \cup {i}
    BY <1>5 DEF SessionNext, LoopActivates, LoopEmits, ScriptFlags, Sleep, SleepRefused, LoopCompletes,
       LoopEnds, SessionDies, FallsQuiet
  <2>2. CASE session' = session
    BY <1>1, <2>1, <2>2 DEF TypeOK
  <2>3. CASE ScriptFlags(i) \/ Sleep(i) \/ SleepRefused(i) \/ LoopCompletes(i) \/ LoopEnds(i) \/ SessionDies(i)
    <3>1. session' = session \/ Goto(i, "flagged") \/ Goto(i, "over") \/ Over(i, "exited") \/ Over(i, "aborted")
      BY <2>3 DEF ScriptFlags, Sleep, SleepRefused, LoopCompletes, LoopEnds, SessionDies
    <3>2. session' \in [Segs -> SessionSteps]
      BY <1>2, <1>3, <1>4, <3>1 DEF TypeOK
    <3> QED
      BY <1>1, <2>1, <3>2 DEF TypeOK
  <2> QED
    BY <1>5, <2>2, <2>3 DEF SessionNext, LoopActivates, LoopEmits, FallsQuiet
<1>6. CASE WrapperNext
  <2>1. /\ UNCHANGED <<script, launched, quiet>> /\ flag' \in {flag, FALSE}
        /\ tree' = tree \/ tree' = [tree EXCEPT !.there = FALSE]
        /\ \E step \in {"over", "complete", "fail", "teardown"} : Goto(1, step)
    BY <1>6 DEF WrapperNext, WrapperDecides, WrapperSettles, WrapperTearsDown
  <2> QED
    BY <1>1, <1>2, <1>4, <2>1 DEF TypeOK
<1>7. ASSUME NEW r \in Resumers, ResumeLaunches(r)
      PROVE  Goal
  <2>1. /\ UNCHANGED <<script, tree, flag, quiet>> /\ Goto(resume[r].seg, "loop")
        /\ launched' = [launched EXCEPT ![resume[r].seg] = @ + 1]
    BY <1>7 DEF ResumeLaunches
  <2> QED
    BY <1>1, <1>2, <1>4, <2>1 DEF TypeOK
<1>8. ASSUME NEW r \in Resumers, \/ ResumeNext(r) /\ ~ResumeLaunches(r)
                                \/ ResumeDies(r) \/ \E i \in Rows : PersonResumes(r, i)
      PROVE  Goal
  <2>1. UNCHANGED <<script, session, launched, flag, quiet>> /\ (tree' = tree \/ tree' = [tree EXCEPT !.there = TRUE])
    BY <1>8 DEF ResumeNext, ResumeReads, ResumeClaims, ResumeProvisions, LaunchFails, ResumeFails, ResumeDies,
       PersonResumes
  <2> QED
    BY <1>1, <2>1 DEF TypeOK
<1>9. CASE DaemonNext \/ DaemonDies
  <2>1. /\ UNCHANGED <<script, session, launched, quiet>> /\ flag' \in {flag, FALSE}
        /\ (tree' = tree \/ tree' = [there |-> FALSE, cleaned |-> TRUE])
    BY <1>9 DEF DaemonNext, DaemonWakes, NothingToWake, ChildExits, ChildTimesOut, DaemonFails, DaemonFinds,
       DaemonReaps, DaemonDemolishes, NoOrphans, DaemonDies, DaemonStarts
  <2>2. tree' \in [there: BOOLEAN, cleaned: BOOLEAN]
    <3>1. tree' = tree \/ tree' = [there |-> FALSE, cleaned |-> TRUE]
      BY <2>1
    <3>2. [there |-> FALSE, cleaned |-> TRUE] \in [there: BOOLEAN, cleaned: BOOLEAN]
      OBVIOUS
    <3> QED
      BY <3>1, <3>2 DEF TypeOK
  <2> QED
    BY <1>1, <2>1, <2>2 DEF TypeOK
<1> QED
  BY <1>5, <1>6, <1>7, <1>8, <1>9 DEF Next

\* Every step preserves the types.
LEMMA TypePreserved ==
  ASSUME TypeOK, AtRows, Next
  PROVE  TypeOK'
BY RowsStay, ActorsPreserved, PlacesPreserved DEF TypeOK

-----------------------------------------------------------------------------
(* The worktree of a script. *)

\* The first row never waits.
LEMMA FirstNeverWaits ==
  ASSUME TypeOK, AtRows, KeptInv, Next
  PROVE  status'[1] # "waiting"
<1>1. 1 \in Rows
  BY RowsAreSegs
<1>2. CASE Settles
  BY <1>1, <1>2 DEF Settles, KeptInv
<1>3. ASSUME NEW i \in Rows, Sleep(i)
      PROVE  status'[1] # "waiting"
  BY <1>1, <1>3, SleepFacts DEF KeptInv
<1> QED
  BY <1>2, <1>3, StatusSteps

\* A step of a session other than the first, of a command or of the clock, which leaves the
\* first session and the flag, or raises it.
LEMMA ElsewhereKept ==
  ASSUME KeptInv, script' = script, session'[1] = session[1], flag' \in {flag, TRUE},
         tree'.cleaned = tree.cleaned, tree.there => tree'.there,
         Len(status') = Len(status) \/ (Len(status) # 1 /\ Len(status') # 1)
  PROVE  script' /\ ~tree'.cleaned => Kept'
<1> SUFFICES ASSUME script, ~tree.cleaned PROVE Kept'
  OBVIOUS
<1>1. Kept
  BY DEF KeptInv
<1>2. (session[1] = "flagged" => flag)' /\ (~tree.there => session[1] = "over" /\ Len(status) = 1)'
  BY <1>1 DEF Kept
<1>3. /\ (session[1] \in {"exited", "aborted"} /\ Len(status) # 1 => flag)'
      /\ (session[1] \in Running \cup {"complete", "fail", "teardown"} => Len(status) = 1)'
  BY <1>1 DEF Kept, Running
<1> QED
  BY <1>2, <1>3 DEF Kept

\* A row that waits is not the first.
LEMMA NobodyAtFirst ==
  ASSUME TypeOK, KeptInv, Next
  PROVE  \A r \in Resumers : resume'[r].step # "idle" => resume'[r].seg # 1
<1> DEFINE Goal == \A r \in Resumers : resume'[r].step # "idle" => resume'[r].seg # 1
<1>1. ASSUME NEW r \in Resumers, ResumeNext(r) \/ ResumeDies(r)
      PROVE  Goal
  <2>1. \/ \E step \in ResumeSteps : Step(r, step)
        \/ \E ok \in BOOLEAN : Exit(r, ok)
    BY <1>1 DEF ResumeNext, ResumeDies, ResumeReads, ResumeClaims, ResumeProvisions, ResumeLaunches,
       LaunchFails, ResumeFails, ResumeSteps
  <2>2. resume[r].step # "idle"
    BY <1>1 DEF ResumeNext, ResumeDies, ResumeReads, ResumeClaims, ResumeProvisions, ResumeLaunches,
       LaunchFails, ResumeFails
  <2>3. \A q \in Resumers : resume'[q].seg = resume[q].seg /\ (resume'[q].step # "idle" => resume[q].step # "idle")
    <3>1. resume \in [Resumers -> [step: ResumeSteps, seg: Segs, ok: BOOLEAN]]
      BY DEF TypeOK
    <3>2. ASSUME NEW step \in ResumeSteps, Step(r, step)
          PROVE  \A q \in Resumers : resume'[q].seg = resume[q].seg /\ (q # r => resume'[q] = resume[q])
      BY <3>1, <3>2 DEF Step
    <3>3. ASSUME NEW ok \in BOOLEAN, Exit(r, ok)
          PROVE  \A q \in Resumers : resume'[q].seg = resume[q].seg /\ (q # r => resume'[q] = resume[q])
      BY <3>1, <3>3 DEF Exit
    <3> QED
      BY <2>1, <2>2, <3>2, <3>3
  <2> QED
    BY <2>3 DEF KeptInv
<1>2. ASSUME NEW r \in Resumers, NEW i \in Rows, PersonResumes(r, i) \/ DaemonWakes(r, i)
      PROVE  Goal
  <2>1. status[i] = "waiting" /\ Start(r, i)
    BY <1>2 DEF PersonResumes, DaemonWakes, Waiting
  <2> QED
    BY <2>1 DEF TypeOK, KeptInv, Start
<1>3. ASSUME resume' = resume
      PROVE  Goal
  BY <1>3 DEF KeptInv
<1>4. ASSUME NEW i \in Rows, SessionNext(i) \/ FallsQuiet(i)
      PROVE  resume' = resume
  BY <1>4 DEF SessionNext, LoopActivates, LoopEmits, ScriptFlags, Sleep, SleepRefused, LoopCompletes,
     LoopEnds, SessionDies, FallsQuiet
<1>5. CASE WrapperNext
  BY <1>3, <1>5 DEF WrapperNext, WrapperDecides, WrapperSettles, WrapperTearsDown
<1>6. CASE (DaemonNext /\ ~\E r \in Resumers, i \in Rows : DaemonWakes(r, i)) \/ DaemonDies
  BY <1>3, <1>6 DEF DaemonNext, NothingToWake, ChildExits, ChildTimesOut, DaemonFails, DaemonFinds, DaemonReaps,
     DaemonDemolishes, NoOrphans, DaemonDies, DaemonStarts
<1> QED
  BY <1>1, <1>2, <1>3, <1>4, <1>5, <1>6 DEF Next, DaemonNext

\* A step that inserts nothing leaves the number of rows.
LEMMA Lengths ==
  ASSUME TypeOK, AtRows, Next
  PROVE  \/ Len(status') = Len(status)
         \/ \E i \in Rows : Sleep(i) /\ Len(status') = Len(status) + 1
BY StatusSteps, SleepFacts DEF Settles

\* complete and fail insert nothing.
LEMMA GuardedLength ==
  ASSUME TypeOK, NEW i \in Rows, NEW from, NEW s \in Statuses
  PROVE  Len(Guarded(i, from, s)) = Len(status)
BY SetFacts DEF Guarded

\* The session of segment 1 flags before it sleeps, and is over when the wrapper decides.
LEMMA FirstSessionKept ==
  ASSUME TypeOK, AtRows, KeptInv, Next, SessionNext(1)
  PROVE  /\ session'[1] # "none"
         /\ script' /\ ~tree'.cleaned => Kept'
<1>0. session \in [Segs -> SessionSteps] /\ 1 \in Segs /\ 1 \in Rows /\ Len(status) \in Nat
      /\ UNCHANGED <<script, tree>>
  BY RowsAreSegs, Numbered DEF TypeOK, SessionNext, LoopActivates, LoopEmits, ScriptFlags, Sleep, SleepRefused,
     LoopCompletes, LoopEnds, SessionDies
<1>1. ASSUME NEW step, Goto(1, step) PROVE session'[1] = step
  BY <1>0, <1>1 DEF Goto
<1>2. ASSUME NEW step, Over(1, step) PROVE session'[1] = step
  BY <1>1, <1>2 DEF Over
<1>3. ~Sleep(1) => Len(status') = Len(status)
  <2>1. CASE LoopActivates(1) \/ LoopCompletes(1)
    BY <1>0, <2>1, SetFacts DEF LoopActivates, LoopCompletes, Statuses
  <2>2. CASE LoopEmits(1) \/ ScriptFlags(1) \/ SleepRefused(1) \/ LoopEnds(1) \/ SessionDies(1)
    BY <2>2 DEF LoopEmits, ScriptFlags, SleepRefused, LoopEnds, SessionDies
  <2> QED
    BY <2>1, <2>2 DEF SessionNext
<1>4. CASE LoopActivates(1) \/ LoopEmits(1)
  <2>1. session' = session /\ flag' = flag
    BY <1>4 DEF LoopActivates, LoopEmits
  <2>2. CASE ~Sleep(1)
    BY <1>0, <1>3, <2>1, <2>2, ElsewhereKept DEF KeptInv
  <2>3. CASE Sleep(1)
    BY <1>4, <2>3, SleepFacts, <1>0 DEF Sleep, LoopActivates, LoopEmits
  <2> QED
    BY <2>1, <2>2, <2>3
<1>5. CASE ScriptFlags(1)
  <2>1. session[1] = "loop" /\ session'[1] = "flagged" /\ flag' = TRUE /\ status' = status
    BY <1>1, <1>5 DEF ScriptFlags
  <2> QED
    BY <1>0, <2>1 DEF KeptInv, Kept, Running
<1>6. CASE Sleep(1)
  <2>1. Len(status') = Len(status) + 1 /\ flag' = flag /\ session[1] = (IF script THEN "flagged" ELSE "loop")
        /\ (script => session'[1] = "exited") /\ (~script => session' = session)
    <3>1. Len(status') = Len(status) + 1 /\ flag' = flag /\ session[1] = (IF script THEN "flagged" ELSE "loop")
      BY <1>0, <1>6, SleepFacts DEF Sleep
    <3>2. (script => Over(1, "exited")) /\ (~script => session' = session)
      BY <1>6 DEF Sleep
    <3> QED
      BY <1>2, <3>1, <3>2
  <2>2. script /\ Kept => Kept'
    BY <1>0, <2>1 DEF Kept, Running
  <2> QED
    BY <1>0, <2>1, <2>2 DEF KeptInv
<1>7. CASE SleepRefused(1) \/ LoopCompletes(1) \/ LoopEnds(1)
  <2>1. session[1] \in Running /\ session'[1] \in {"exited", "aborted"} /\ flag' = flag
    BY <1>2, <1>7 DEF SleepRefused, LoopCompletes, LoopEnds, Running
  <2>2. ~Sleep(1) \/ Sleep(1)
    OBVIOUS
  <2>3. CASE ~Sleep(1)
    BY <1>0, <1>3, <2>1, <2>3 DEF KeptInv, Kept, Running
  <2> QED
    BY <1>6, <2>3
<1>8. CASE SessionDies(1)
  <2>1. session[1] # "over" /\ session'[1] = "over" /\ flag' = flag /\ status' = status
    BY <1>1, <1>8 DEF SessionDies
  <2> QED
    BY <1>0, <2>1 DEF KeptInv, Kept, Running
<1> QED
  BY <1>4, <1>5, <1>6, <1>7, <1>8 DEF SessionNext

\* Every step keeps the worktree of a script that sleeps, unless it is the cleanup.
LEMMA KeptPreserved ==
  ASSUME TypeOK, AtRows, KeptInv, Next
  PROVE  KeptInv'
<1> DEFINE Goal == session'[1] # "none" /\ (script' /\ ~tree'.cleaned => Kept')
<1> SUFFICES Goal
  BY FirstNeverWaits, NobodyAtFirst DEF KeptInv
<1>0. /\ session \in [Segs -> SessionSteps] /\ 1 \in Segs /\ 1 \in Rows
      /\ tree \in [there: BOOLEAN, cleaned: BOOLEAN] /\ session[1] # "none"
  BY RowsAreSegs DEF TypeOK, KeptInv
<1>1. ASSUME script' = script, session'[1] = session[1], flag' \in {flag, TRUE},
             tree'.cleaned = tree.cleaned, tree.there => tree'.there, status' = status \/ Settles
      PROVE  Goal
  BY <1>0, <1>1, ElsewhereKept DEF Settles
<1>2. ASSUME NEW i \in Rows, SessionNext(i) \/ FallsQuiet(i)
      PROVE  Goal
  <2>1. CASE i = 1 /\ SessionNext(i)
    BY <2>1, FirstSessionKept
  <2>2. CASE i # 1 \/ FallsQuiet(i)
    <3>1. UNCHANGED <<script, tree>> /\ flag' \in {flag, TRUE}
      BY <1>2 DEF SessionNext, LoopActivates, LoopEmits, ScriptFlags, Sleep, SleepRefused, LoopCompletes,
         LoopEnds, SessionDies, FallsQuiet
    <3>2. session'[1] = session[1]
      BY <1>0, <1>2, <2>2 DEF SessionNext, LoopActivates, LoopEmits, ScriptFlags, Sleep, SleepRefused,
         LoopCompletes, LoopEnds, SessionDies, FallsQuiet, Goto, Over
    <3>3. CASE Len(status') = Len(status)
      BY <1>0, <3>1, <3>2, <3>3, ElsewhereKept
    <3>4. ASSUME NEW j \in Rows, Sleep(j), Len(status') = Len(status) + 1
          PROVE  Goal
      <4>1. CASE j = 1
        BY <3>4, <4>1, FirstSessionKept DEF SessionNext
      <4>2. CASE j # 1
        <5>1. Len(status) # 1 /\ Len(status') # 1 /\ Len(status) \in Nat
          BY <3>4, <4>2, Numbered DEF TypeOK, Rows
        <5> QED
          BY <1>0, <3>1, <3>2, <5>1, ElsewhereKept
      <4> QED
        BY <4>1, <4>2
    <3> QED
      BY <3>3, <3>4, Lengths
  <2> QED
    BY <1>2, <2>1, <2>2
<1>3. CASE WrapperNext
  <2>1. CASE WrapperDecides
    <3>1. UNCHANGED <<script, status, tree>> /\ session[1] \in {"exited", "aborted"}
      BY <2>1 DEF WrapperDecides
    <3>2. CASE Sleeping
      <4>1. session'[1] = "over"
        BY <1>0, <2>1, <3>2 DEF WrapperDecides, Goto
      <4>2. Kept => Kept'
        BY <3>1, <4>1 DEF Kept, Running
      <4> QED
        BY <3>1, <4>1, <4>2 DEF KeptInv
    <3>3. CASE ~Sleeping
      <4>1. session'[1] \in {"complete", "fail"} /\ ~flag
        BY <1>0, <2>1, <3>3 DEF WrapperDecides, Goto, Sleeping
      <4>2. Kept => Kept'
        BY <3>1, <4>1 DEF Kept, Running
      <4> QED
        BY <3>1, <4>1, <4>2 DEF KeptInv
    <3> QED
      BY <3>2, <3>3
  <2>2. CASE WrapperSettles
    <3>1. /\ UNCHANGED <<script, tree, flag>> /\ session[1] \in {"complete", "fail"}
          /\ session'[1] = "teardown" /\ Len(status') = Len(status)
      <4>1. Settles
        BY <1>0, <2>2, GuardedSettles DEF WrapperSettles
      <4> QED
        BY <1>0, <2>2, <4>1 DEF WrapperSettles, Goto, Settles
    <3>2. Kept => Kept'
      BY <3>1 DEF Kept, Running
    <3> QED
      BY <3>1, <3>2 DEF KeptInv
  <2>3. CASE WrapperTearsDown
    <3>1. /\ UNCHANGED <<script, status>> /\ session[1] = "teardown" /\ session'[1] = "over"
          /\ tree'.cleaned = tree.cleaned
      BY <1>0, <2>3 DEF WrapperTearsDown, Goto
    <3>2. Kept => Kept'
      BY <3>1 DEF Kept, Running
    <3> QED
      BY <3>1, <3>2 DEF KeptInv
  <2> QED
    BY <1>3, <2>1, <2>2, <2>3 DEF WrapperNext
<1>4. ASSUME NEW r \in Resumers, ResumeNext(r) \/ ResumeDies(r) \/ \E i \in Rows : PersonResumes(r, i)
      PROVE  Goal
  <2>1. /\ UNCHANGED <<script, flag>> /\ (tree' = tree \/ tree' = [tree EXCEPT !.there = TRUE])
    BY <1>4 DEF ResumeNext, ResumeReads, ResumeClaims, ResumeProvisions, ResumeLaunches, LaunchFails,
       ResumeFails, ResumeDies, PersonResumes
  <2>2. session'[1] = session[1]
    <3>1. CASE ResumeLaunches(r)
      BY <1>0, <3>1 DEF ResumeLaunches, KeptInv, Goto
    <3>2. CASE ~ResumeLaunches(r)
      BY <1>4, <3>2 DEF ResumeNext, ResumeReads, ResumeClaims, ResumeProvisions, LaunchFails,
         ResumeFails, ResumeDies, PersonResumes
    <3> QED
      BY <3>1, <3>2
  <2>3. Len(status') = Len(status)
    <3>1. CASE ResumeClaims(r)
      BY <3>1, GuardedLength DEF ResumeClaims, AtRows, Statuses
    <3>2. CASE ResumeFails(r)
      BY <3>2, GuardedLength DEF ResumeFails, Failing, AtRows, Statuses
    <3>3. CASE ~ResumeClaims(r) /\ ~ResumeFails(r)
      BY <1>4, <3>3 DEF ResumeNext, ResumeReads, ResumeProvisions, ResumeLaunches, LaunchFails, ResumeDies,
         PersonResumes
    <3> QED
      BY <3>1, <3>2, <3>3
  <2> QED
    BY <1>0, <2>1, <2>2, <2>3, ElsewhereKept
<1>5. CASE DaemonNext \/ DaemonDies
  <2>1. CASE DaemonDemolishes /\ tree' = [there |-> FALSE, cleaned |-> TRUE]
    <3>1. tree'.cleaned /\ session' = session
      BY <2>1 DEF DaemonDemolishes
    <3> QED
      BY <1>0, <3>1
  <2>2. CASE ~(DaemonDemolishes /\ tree' = [there |-> FALSE, cleaned |-> TRUE])
    <3>1. UNCHANGED <<script, session, tree, flag>>
      BY <1>5, <2>2 DEF DaemonNext, DaemonWakes, NothingToWake, ChildExits, ChildTimesOut, DaemonFails, DaemonFinds,
         DaemonReaps, DaemonDemolishes, NoOrphans, DaemonDies, DaemonStarts
    <3>2. Len(status') = Len(status)
      <4>1. CASE DaemonFails \/ DaemonReaps
        BY <4>1, GuardedLength DEF DaemonFails, DaemonReaps, Failing, AtRows, Statuses
      <4>2. CASE ~DaemonFails /\ ~DaemonReaps
        BY <1>5, <4>2 DEF DaemonNext, DaemonWakes, NothingToWake, ChildExits, ChildTimesOut, DaemonFinds,
           DaemonDemolishes, NoOrphans, DaemonDies, DaemonStarts
      <4> QED
        BY <4>1, <4>2
    <3> QED
      BY <1>0, <3>1, <3>2, ElsewhereKept
  <2> QED
    BY <2>1, <2>2
<1> HIDE DEF Goal
<1> QED
  BY <1>2, <1>3, <1>4, <1>5 DEF Next

-----------------------------------------------------------------------------
(* The theorems. *)

\* The first segment alone is there, launched once by the dispatcher.
LEMMA InitiallyIInv == Init => IInv
<1> SUFFICES ASSUME Init PROVE IInv
  OBVIOUS
<1>1. 1 \in Segs
  BY SleepWakeAssumption DEF Segs
<1>2. status \in Seq(Statuses) /\ Len(status) = 1 /\ Rows = {1} /\ status[1] = "pending"
  BY DEF Init, Statuses, Rows
<1>3. TypeOK
  BY <1>1, <1>2 DEF Init, TypeOK, SessionSteps, Running, ResumeSteps, DaemonSteps
<1>4. AtRows /\ OneLive
  BY <1>2 DEF Init, AtRows, OneLive, Live
<1>5. ClaimOK
  BY <1>1, <1>2 DEF Init, ClaimOK, Unlaunched, Claimed
<1>6. KeptInv
  BY <1>1, <1>2 DEF Init, KeptInv, Kept
<1> QED
  BY <1>3, <1>4, <1>5, <1>6 DEF IInv

\* The inductive invariant, under any interleaving of the loop, the wrapper, the commands,
\* people and the scheduler, which may each be killed at any point.
THEOREM Invariance == Spec => []IInv
<1>1. Init => IInv
  BY InitiallyIInv
<1>2. IInv /\ [Next]_vars => IInv'
  <2> SUFFICES ASSUME IInv, [Next]_vars PROVE IInv'
    OBVIOUS
  <2>1. CASE Next
    BY <2>1, TypePreserved, ActorsPreserved, OneLivePreserved, ClaimPreserved, KeptPreserved DEF IInv
  <2>2. CASE UNCHANGED vars
    BY <2>2 DEF vars, IInv, TypeOK, AtRows, OneLive, Live, ClaimOK, Unlaunched, Claimed, Rows,
       KeptInv, Kept
  <2> QED
    BY <2>1, <2>2
<1> QED
  BY <1>1, <1>2, PTL DEF Spec

\* The rows, the sessions and the actors are where they can be.
THEOREM TypeCorrect == Spec => []TypeOK
<1>1. IInv => TypeOK
  BY DEF IInv
<1> QED
  BY <1>1, Invariance, PTL

\* A process has at most one segment that is pending, active or waiting: neither the loop's
\* process active, nor a resume that comes late, nor the scheduler's fail and the commands it
\* gave up on bring a second one to life.
THEOREM OneSegmentLives == Spec => []OneLive
<1>1. IInv => OneLive
  BY DEF IInv
<1> QED
  BY <1>1, Invariance, PTL

\* However many commands try, and whenever they are killed or given up, a segment gets at most
\* one session: the claim of process resume, an UPDATE guarded by waiting, admits one command.
THEOREM LaunchedOnce == Spec => []ResumedOnce
<1>1. IInv => ResumedOnce
  BY DEF IInv, ClaimOK, ResumedOnce
<1> QED
  BY <1>1, Invariance, PTL

\* A script that sleeps keeps its worktree, whenever the wrapper looks for the flag, however many
\* segments follow and whatever the commands do, as long as the cleanup has torn nothing down.
THEOREM WorktreeKept == Spec => []FlagKeepsWorktree
<1>1. IInv => FlagKeepsWorktree
  <2> SUFFICES ASSUME IInv, script, ~tree.cleaned, ~tree.there, Waiting # {} PROVE FALSE
    BY DEF FlagKeepsWorktree
  <2>1. Len(status) = 1 /\ status[1] # "waiting" /\ status \in Seq(Statuses)
    BY DEF IInv, KeptInv, Kept, TypeOK
  <2>2. Rows = {1}
    BY <2>1, Numbered DEF Rows
  <2> QED
    BY <2>1, <2>2 DEF Waiting
<1> QED
  BY <1>1, Invariance, PTL

-----------------------------------------------------------------------------
(* How far the scheduler is from a segment that sleeps, and from one nobody runs. *)

\* The command the scheduler waits for is at the segment it woke, and has not exited with 0 while
\* that still waits: a refused claim, like a failed one, finds it claimed by somebody else.
WakeInv ==
  daemon.step = "waking" =>
    /\ resume[daemon.child].seg = daemon.seg
    /\ resume[daemon.child].step = "idle" /\ resume[daemon.child].ok => status[daemon.seg] # "waiting"

\* The steps the scheduler has left until it has woken or failed segment i, at most: one round for
\* what it is at and one for segment i.
TurnsToWake(i) ==
  CASE daemon.step = "failing" /\ daemon.seg = i -> 1
    [] daemon.step = "waking" /\ daemon.seg = i -> 2
    [] daemon.step = "idle" -> 3
    [] daemon.step \in {"dead", "demolish"} -> 4
    [] daemon.step = "reap" -> 5
    [] daemon.step = "orphans" -> 6
    [] daemon.step = "failing" /\ daemon.seg # i -> 7
    [] daemon.step = "waking" /\ daemon.seg # i -> 8

\* And until it has failed segment i as an orphan.
TurnsToReap(i) ==
  CASE daemon.step = "reap" /\ daemon.seg = i -> 1
    [] daemon.step = "orphans" -> 2
    [] daemon.step \in {"idle", "failing"} -> 3
    [] daemon.step \in {"waking", "dead", "demolish"} -> 4
    [] daemon.step = "reap" /\ daemon.seg # i -> 5

\* A step of the scheduler brings it nearer, and no other takes it further away, but for its death.
Approaches(turns, turnsNow) ==
  /\ DaemonNext => turnsNow < turns
  /\ ~DaemonDies => turnsNow <= turns

\* A row that does not wait never waits again.
LEMMA NoRowWaitsAgain ==
  ASSUME TypeOK, AtRows, Next, NEW i \in Rows, status[i] # "waiting"
  PROVE  i \in Rows' /\ status'[i] # "waiting"
<1>1. CASE Settles
  BY <1>1, SameRows DEF Settles
<1>2. ASSUME NEW j \in Rows, Sleep(j)
      PROVE  i \in Rows' /\ status'[i] # "waiting"
  BY <1>2, SleepFacts
<1> QED
  BY <1>1, <1>2, StatusSteps

\* The scheduler is where it was, moves on or dies.
LEMMA DaemonMoves ==
  ASSUME Next
  PROVE  DaemonNext \/ DaemonDies \/ daemon' = daemon
<1>1. ASSUME NEW i \in Rows, SessionNext(i) \/ FallsQuiet(i)
      PROVE  daemon' = daemon
  BY <1>1 DEF SessionNext, LoopActivates, LoopEmits, ScriptFlags, Sleep, SleepRefused, LoopCompletes,
     LoopEnds, SessionDies, FallsQuiet
<1>2. CASE WrapperNext
  BY <1>2 DEF WrapperNext, WrapperDecides, WrapperSettles, WrapperTearsDown
<1>3. ASSUME NEW r \in Resumers, ResumeNext(r) \/ ResumeDies(r) \/ \E i \in Rows : PersonResumes(r, i)
      PROVE  daemon' = daemon
  BY <1>3 DEF ResumeNext, ResumeDies, ResumeReads, ResumeClaims, ResumeProvisions, ResumeLaunches,
     LaunchFails, ResumeFails, PersonResumes
<1> QED
  BY <1>1, <1>2, <1>3 DEF Next

\* A segment the scheduler fails does not wait, nor is it active.
LEMMA FailingEnds ==
  ASSUME TypeOK, NEW i \in Rows, status' = Failing(i)
  PROVE  status'[i] \notin {"waiting", "active"}
BY SetFacts DEF Failing, Guarded, Statuses

-----------------------------------------------------------------------------
(* The command the scheduler waits for. *)

\* What a command does to its own record leaves WakeInv.
LEMMA ChildKept ==
  ASSUME TypeOK, AtRows, ClaimOK, WakeInv, NEW r \in Resumers, ResumeNext(r) \/ ResumeDies(r)
  PROVE  WakeInv'
<1> SUFFICES ASSUME daemon.step = "waking"
             PROVE  WakeInv'
  BY DEF WakeInv, ResumeNext, ResumeDies, ResumeReads, ResumeClaims, ResumeProvisions, ResumeLaunches, LaunchFails, ResumeFails
<1> DEFINE c == daemon.child
           i == daemon.seg
<1>1. /\ c \in Resumers /\ i \in Rows /\ daemon' = daemon
      /\ resume \in [Resumers -> [step: ResumeSteps, seg: Segs, ok: BOOLEAN]]
      /\ resume[c].seg = i
      /\ resume[c].step = "idle" /\ resume[c].ok => status[i] # "waiting"
  BY DEF WakeInv, AtRows, TypeOK, ResumeNext, ResumeDies, ResumeReads, ResumeClaims, ResumeProvisions,
     ResumeLaunches, LaunchFails, ResumeFails
<1>2. Next
  BY DEF Next
<1>3. status[i] # "waiting" => status'[i] # "waiting"
  BY <1>1, <1>2, NoRowWaitsAgain
<1>4. CASE r # c
  <2>1. resume'[c] = resume[c]
    BY <1>1, <1>4 DEF ResumeNext, ResumeDies, ResumeReads, ResumeClaims, ResumeProvisions, ResumeLaunches,
       LaunchFails, ResumeFails, Step, Exit
  <2> QED
    BY <1>1, <1>3, <2>1 DEF WakeInv
<1>5. CASE r = c
  <2>1. resume'[c].seg = i
    BY <1>1, <1>5 DEF ResumeNext, ResumeDies, ResumeReads, ResumeClaims, ResumeProvisions, ResumeLaunches,
       LaunchFails, ResumeFails, Step, Exit
  <2>2. ASSUME NEW step \in ResumeSteps \ {"idle"}, Step(c, step)
        PROVE  resume'[c].step # "idle"
    BY <1>1, <2>2 DEF Step
  <2>3. ASSUME Exit(c, FALSE)
        PROVE  ~resume'[c].ok
    BY <1>1, <2>3 DEF Exit
  <2>4. resume'[c].step = "idle" /\ resume'[c].ok => status'[i] # "waiting"
    <3>1. CASE ResumeReads(r)
      <4>1. CASE status[i] # "waiting"
        BY <1>3, <4>1
      <4>2. CASE status[i] = "waiting"
        <5>1. Step(c, "claim") \/ Step(c, "fail")
          BY <1>1, <1>5, <3>1, <4>2 DEF ResumeReads
        <5> QED
          BY <2>2, <5>1 DEF ResumeSteps
      <4> QED
        BY <4>1, <4>2
    <3>2. CASE ResumeClaims(r)
      <4>1. CASE status[i] # "waiting"
        BY <1>3, <4>1
      <4>2. CASE status[i] = "waiting"
        <5>1. Step(c, "provision")
          BY <1>1, <1>5, <3>2, <4>2 DEF ResumeClaims
        <5> QED
          BY <2>2, <5>1 DEF ResumeSteps
      <4> QED
        BY <4>1, <4>2
    <3>3. CASE ResumeProvisions(r) \/ LaunchFails(r)
      BY <1>5, <2>2, <3>3 DEF ResumeProvisions, LaunchFails, ResumeSteps
    <3>4. CASE ResumeLaunches(r)
      <4>1. status[i] # "waiting"
        BY <1>1, <1>5, <3>4 DEF ResumeLaunches, ClaimOK, Claimed
      <4> QED
        BY <1>3, <4>1
    <3>5. CASE ResumeFails(r) \/ ResumeDies(r)
      BY <1>5, <2>3, <3>5 DEF ResumeFails, ResumeDies
    <3> QED
      BY <3>1, <3>2, <3>3, <3>4, <3>5 DEF ResumeNext
  <2> QED
    BY <1>1, <2>1, <2>4 DEF WakeInv
<1> QED
  BY <1>4, <1>5

\* Nobody else gives that command another segment.
LEMMA WakePreserved ==
  ASSUME TypeOK, AtRows, ClaimOK, WakeInv, Next
  PROVE  WakeInv'
<1>1. ASSUME NEW r \in Resumers, ResumeNext(r) \/ ResumeDies(r)
      PROVE  WakeInv'
  BY <1>1, ChildKept
<1>2. ASSUME NEW r \in Resumers, NEW i \in Rows, PersonResumes(r, i)
      PROVE  WakeInv'
  <2>1. UNCHANGED <<status, daemon>>
        /\ (daemon.step = "waking" => daemon.child \in Resumers /\ resume'[daemon.child] = resume[daemon.child])
    BY <1>2 DEF PersonResumes, Start, TypeOK, AtRows
  <2> QED
    BY <2>1 DEF WakeInv
<1>3. ASSUME NEW r \in Resumers, NEW i \in Rows, DaemonWakes(r, i)
      PROVE  WakeInv'
  <2>1. daemon'.seg = i /\ daemon'.child = r
    BY <1>3 DEF DaemonWakes
  <2>2. resume'[r].seg = i /\ resume'[r].step = "read"
    BY <1>3 DEF DaemonWakes, Start, TypeOK
  <2> QED
    BY <2>1, <2>2 DEF WakeInv
<1>4. CASE DaemonDies \/ (DaemonNext /\ ~\E r \in Resumers, i \in Rows : DaemonWakes(r, i))
  <2>1. ASSUME NEW step \in DaemonSteps \ {"waking"}, Enter(step)
        PROVE  daemon'.step # "waking"
    BY <2>1 DEF Enter, TypeOK
  <2>2. CASE \E i \in Rows : DaemonFinds(i)
    BY <2>2 DEF DaemonFinds, WakeInv
  <2>3. CASE ~\E i \in Rows : DaemonFinds(i)
    <3>1. \E step \in DaemonSteps \ {"waking"} : Enter(step)
      BY <1>4, <2>3 DEF DaemonDies, DaemonNext, NothingToWake, ChildExits, ChildTimesOut, DaemonFails, DaemonReaps,
         DaemonDemolishes, NoOrphans, DaemonStarts, DaemonSteps
    <3> QED
      BY <2>1, <3>1 DEF WakeInv
  <2> QED
    BY <2>2, <2>3
<1>5. ASSUME UNCHANGED <<resume, daemon>>
      PROVE  WakeInv'
  BY <1>5, NoRowWaitsAgain DEF WakeInv, AtRows
<1>6. ASSUME NEW i \in Rows, SessionNext(i) \/ FallsQuiet(i)
      PROVE  UNCHANGED <<resume, daemon>>
  BY <1>6 DEF SessionNext, LoopActivates, LoopEmits, ScriptFlags, Sleep, SleepRefused, LoopCompletes,
     LoopEnds, SessionDies, FallsQuiet
<1>7. CASE WrapperNext
  BY <1>5, <1>7 DEF WrapperNext, WrapperDecides, WrapperSettles, WrapperTearsDown
<1> QED
  BY <1>1, <1>2, <1>3, <1>4, <1>5, <1>6, <1>7 DEF Next

-----------------------------------------------------------------------------
(* Nearer with every step. *)

\* Where the scheduler goes.
LEMMA Onward ==
  ASSUME TypeOK, DaemonNext
  PROVE  \/ \E r \in Resumers, i \in Waiting : DaemonWakes(r, i) /\ daemon.step = "idle" /\ daemon'.step = "waking" /\ daemon'.seg = i
         \/ Waiting = {} /\ daemon.step = "idle" /\ daemon'.step = "orphans"
         \/ /\ daemon.step = "waking" /\ daemon'.step = "orphans"
            /\ resume[daemon.child].step = "idle" /\ resume[daemon.child].ok
         \/ daemon.step = "waking" /\ daemon'.step = "failing" /\ daemon'.seg = daemon.seg
         \/ daemon.step = "failing" /\ status' = Failing(daemon.seg) /\ daemon'.step = "orphans"
         \/ \E i \in Orphans : daemon.step = "orphans" /\ daemon'.step = "reap" /\ daemon'.seg = i
         \/ daemon.step = "reap" /\ status' = Failing(daemon.seg) /\ daemon'.step = "demolish"
         \/ Orphans = {} /\ daemon.step = "orphans" /\ daemon'.step = "idle"
         \/ daemon.step \in {"demolish", "dead"} /\ daemon'.step = "idle"
<1>0. daemon \in [step: DaemonSteps, seg: Segs, child: Resumers \cup {Nobody}]
  BY DEF TypeOK
<1>1. ASSUME NEW step \in DaemonSteps, Enter(step)
      PROVE  daemon'.step = step /\ daemon'.seg = daemon.seg
  BY <1>0, <1>1 DEF Enter
<1>2. ASSUME NEW r \in Resumers, NEW i \in Rows, DaemonWakes(r, i)
      PROVE  i \in Waiting /\ daemon.step = "idle" /\ daemon'.step = "waking" /\ daemon'.seg = i
  BY <1>2 DEF DaemonWakes
<1>3. CASE NothingToWake
  BY <1>1, <1>3 DEF NothingToWake, DaemonSteps
<1>4. CASE ChildExits
  BY <1>1, <1>4 DEF ChildExits, DaemonSteps
<1>5. CASE ChildTimesOut
  BY <1>1, <1>5 DEF ChildTimesOut, DaemonSteps
<1>6. CASE DaemonFails
  BY <1>1, <1>6 DEF DaemonFails, DaemonSteps
<1>7. ASSUME NEW i \in Rows, DaemonFinds(i)
      PROVE  i \in Orphans /\ daemon.step = "orphans" /\ daemon'.step = "reap" /\ daemon'.seg = i
  BY <1>7 DEF DaemonFinds
<1>8. CASE DaemonReaps
  BY <1>1, <1>8 DEF DaemonReaps, DaemonSteps
<1>9. CASE NoOrphans
  BY <1>1, <1>9 DEF NoOrphans, DaemonSteps
<1>10. CASE DaemonDemolishes \/ DaemonStarts
  BY <1>1, <1>10 DEF DaemonDemolishes, DaemonStarts, DaemonSteps
<1> QED
  BY <1>2, <1>3, <1>4, <1>5, <1>6, <1>7, <1>8, <1>9, <1>10 DEF DaemonNext

LEMMA NearerToWake ==
  ASSUME TypeOK, AtRows, OneLive, WakeInv, NEW i \in Waiting, i \in Waiting', DaemonNext
  PROVE  TurnsToWake(i)' < TurnsToWake(i)
<1>1. i \in Rows /\ Waiting = {i} /\ status[i] = "waiting" /\ status'[i] = "waiting"
  BY DEF OneLive, Live, Waiting
<1>2. daemon.step \in DaemonSteps
  BY DEF TypeOK
<1>3. daemon.step = "failing" /\ status' = Failing(daemon.seg) => daemon.seg # i
  BY <1>1, FailingEnds
<1>4. daemon.step = "waking" /\ resume[daemon.child].step = "idle" /\ resume[daemon.child].ok => daemon.seg # i
  BY <1>1 DEF WakeInv
<1> QED
  BY <1>1, <1>2, <1>3, <1>4, Onward DEF TurnsToWake, DaemonSteps

LEMMA NearerToReap ==
  ASSUME TypeOK, AtRows, OneLive, NEW i \in Orphans, i \in Orphans', DaemonNext
  PROVE  TurnsToReap(i)' < TurnsToReap(i)
<1>1. i \in Rows /\ Waiting = {} /\ Orphans = {i} /\ status[i] = "active" /\ status'[i] = "active"
  BY DEF OneLive, Live, Waiting, Orphans
<1>2. daemon.step \in DaemonSteps
  BY DEF TypeOK
<1>3. daemon.step = "reap" /\ status' = Failing(daemon.seg) => daemon.seg # i
  BY <1>1, FailingEnds
<1> QED
  BY <1>1, <1>2, <1>3, Onward DEF TurnsToReap, DaemonSteps

\* The places have numbers.
LEMMA Turns ==
  ASSUME TypeOK, NEW i
  PROVE  TurnsToWake(i) \in 1..8 /\ TurnsToReap(i) \in 1..5
<1>1. daemon.step \in DaemonSteps
  BY DEF TypeOK
<1>2. TurnsToWake(i) \in 1..8
  BY <1>1 DEF TurnsToWake, DaemonSteps
<1>3. TurnsToReap(i) \in 1..5
  BY <1>1 DEF TurnsToReap, DaemonSteps
<1> QED
  BY <1>2, <1>3

\* The inductive invariant with the command the scheduler waits for.
THEOREM WakeInvariance == Spec => []WakeInv
<1>1. Init => WakeInv
  BY DEF Init, WakeInv
<1>2. IInv /\ WakeInv /\ [Next]_vars => WakeInv'
  <2>1. IInv /\ WakeInv /\ Next => WakeInv'
    BY WakePreserved DEF IInv
  <2>2. WakeInv /\ UNCHANGED vars => WakeInv'
    BY DEF WakeInv, vars
  <2> QED
    BY <2>1, <2>2
<1> QED
  BY <1>1, <1>2, Invariance, PTL DEF Spec

\* Every step of the scheduler brings it nearer to waking or failing a segment that sleeps, in no more
\* than eight of its steps, whatever loops, commands and people do meanwhile, and no other step but
\* its own death takes it further away; a segment that was woken or failed never sleeps again.
THEOREM SleeperIsNear ==
  Spec => /\ [][\A i \in Waiting : i \in Waiting' => Approaches(TurnsToWake(i), TurnsToWake(i)')]_vars
          /\ [][\A i \in Rows \ Waiting : i \notin Waiting']_vars
          /\ [](\A i \in Waiting : TurnsToWake(i) \in 1..8)
<1>1. IInv /\ WakeInv /\ Next => \A i \in Waiting : i \in Waiting' => Approaches(TurnsToWake(i), TurnsToWake(i)')
  <2> SUFFICES ASSUME IInv, WakeInv, Next, NEW i \in Waiting, i \in Waiting'
               PROVE  Approaches(TurnsToWake(i), TurnsToWake(i)')
    OBVIOUS
  <2>1. TypeOK /\ AtRows /\ OneLive
    BY DEF IInv
  <2>2. DaemonNext => TurnsToWake(i)' < TurnsToWake(i)
    BY <2>1, NearerToWake
  <2>3. daemon' = daemon => TurnsToWake(i)' = TurnsToWake(i)
    BY DEF TurnsToWake
  <2>4. TurnsToWake(i) \in 1..8
    BY <2>1, Turns
  <2>5. TurnsToWake(i)' \in 1..8
    <3>1. daemon'.step \in DaemonSteps
      BY <2>1, TypePreserved DEF TypeOK
    <3> QED
      BY <3>1 DEF TurnsToWake, DaemonSteps
  <2> QED
    BY <2>2, <2>3, <2>4, <2>5, DaemonMoves DEF Approaches
<1>2. IInv /\ Next => \A i \in Rows \ Waiting : i \notin Waiting'
  BY NoRowWaitsAgain DEF IInv, Waiting
<1>3. IInv => \A i \in Waiting : TurnsToWake(i) \in 1..8
  BY Turns DEF IInv
<1> QED
  BY <1>1, <1>2, <1>3, Invariance, WakeInvariance, PTL DEF Spec

\* A segment nobody runs, and of which nothing was heard since the cutoff, is not heard of again while
\* nobody runs it, and every step of the scheduler brings it nearer to failing that segment, in no
\* more than five of its steps, while no other step but its own death takes it further away.
THEOREM GhostIsNear ==
  Spec => /\ [][\A i \in Segs : Ghost(i) /\ Ghost(i)' /\ i \in quiet =>
                    i \in quiet' /\ Approaches(TurnsToReap(i), TurnsToReap(i)')]_vars
          /\ [](\A i \in Segs : Ghost(i) => TurnsToReap(i) \in 1..5)
<1>1. IInv /\ Next => \A i \in Segs : Ghost(i) /\ Ghost(i)' /\ i \in quiet =>
                            i \in quiet' /\ Approaches(TurnsToReap(i), TurnsToReap(i)')
  <2> SUFFICES ASSUME IInv, Next, NEW i \in Segs, Ghost(i), Ghost(i)', i \in quiet
               PROVE  i \in quiet' /\ Approaches(TurnsToReap(i), TurnsToReap(i)')
    OBVIOUS
  <2>1. TypeOK /\ AtRows /\ OneLive
    BY DEF IInv
  <2>2. i \in quiet'
    <3>1. ASSUME NEW j \in Rows, LoopEmits(j)
          PROVE  i \in quiet'
      BY <3>1 DEF LoopEmits, Ghost
    <3>2. ASSUME NEW j \in Rows, SessionNext(j), ~LoopEmits(j)
          PROVE  quiet' = quiet
      BY <3>2 DEF SessionNext, LoopActivates, ScriptFlags, Sleep, SleepRefused, LoopCompletes, LoopEnds, SessionDies
    <3>3. ASSUME NEW j \in Rows, FallsQuiet(j)
          PROVE  i \in quiet'
      BY <3>3 DEF FallsQuiet
    <3>4. CASE WrapperNext
      BY <3>4 DEF WrapperNext, WrapperDecides, WrapperSettles, WrapperTearsDown
    <3>5. ASSUME NEW r \in Resumers, ResumeNext(r) \/ ResumeDies(r) \/ \E j \in Rows : PersonResumes(r, j)
          PROVE  quiet' = quiet
      BY <3>5 DEF ResumeNext, ResumeDies, ResumeReads, ResumeClaims, ResumeProvisions, ResumeLaunches,
         LaunchFails, ResumeFails, PersonResumes
    <3>6. CASE DaemonNext \/ DaemonDies
      BY <3>6 DEF DaemonNext, DaemonWakes, NothingToWake, ChildExits, ChildTimesOut, DaemonFails, DaemonFinds, DaemonReaps,
         DaemonDemolishes, NoOrphans, DaemonDies, DaemonStarts
    <3> QED
      BY <3>1, <3>2, <3>3, <3>4, <3>5, <3>6 DEF Next
  <2>3. i \in Orphans /\ i \in Orphans'
    BY <2>2 DEF Ghost, Orphans
  <2>4. DaemonNext => TurnsToReap(i)' < TurnsToReap(i)
    BY <2>1, <2>3, NearerToReap
  <2>5. daemon' = daemon => TurnsToReap(i)' = TurnsToReap(i)
    BY DEF TurnsToReap
  <2>6. TurnsToReap(i) \in 1..5
    BY <2>1, Turns
  <2>7. TurnsToReap(i)' \in 1..5
    <3>1. daemon'.step \in DaemonSteps
      BY <2>1, TypePreserved DEF TypeOK
    <3> QED
      BY <3>1 DEF TurnsToReap, DaemonSteps
  <2> QED
    BY <2>2, <2>4, <2>5, <2>6, <2>7, DaemonMoves DEF Approaches
<1>2. IInv => \A i \in Segs : Ghost(i) => TurnsToReap(i) \in 1..5
  BY Turns DEF IInv
<1> QED
  BY <1>1, <1>2, Invariance, PTL DEF Spec
=============================================================================
