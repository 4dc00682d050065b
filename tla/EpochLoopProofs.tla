-------------------------- MODULE EpochLoopProofs ---------------------------
(***************************************************************************)
(* Proofs about EpochLoop, for every Budget, Threshold and number of       *)
(* launches.  IInv joins the budget with four facts: until an epoch is     *)
(* lost, no state.json has one behind the last epoch committed (Ahead),    *)
(* noProgressCount is the length of the last run of equal states (Counted),*)
(* the loop has an outcome only once it is over (Decided), and what the    *)
(* session left is in the place where the phase of commitEpoch keeps it    *)
(* (Kept).  The last section counts the statements that a launch has left  *)
(* (StepsLeft).                                                            *)
(***************************************************************************)
EXTENDS EpochLoop, TLAPS

\* A state.json that has an epoch has none behind the last one committed.
Fresh(w) == EpochOf(w) > 0 => done <= EpochOf(w)

Ahead ==
  ~lost =>
    /\ Fresh(disk)
    /\ EpochOf(branch) \in {0, done}
    /\ pc \in Running => EpochOf(disk) <= epoch /\ done <= epoch
    /\ pc = "top" => done < epoch
    /\ pc \in {"checkout", "restore"} => Fresh(saved) /\ EpochOf(saved) <= epoch

\* Exactly the last c + 1 members of s are equal.
RunLength(s, c) ==
  /\ s = <<>> => c = 0
  /\ s # <<>> =>
       /\ c < Len(s)
       /\ \A k \in (Len(s) - c)..Len(s) : s[k] = s[Len(s)]
       /\ Len(s) - c > 1 => s[Len(s) - c - 1] # s[Len(s)]

Counted == RunLength(ends, same)

Decided ==
  /\ pc # "over" => outcome = "none"
  /\ outcome = "thrashing" <=> same = Threshold

\* What the session of this epoch left, in w.
Left(w) ==
  IF signal THEN w.progress = "complete"
            ELSE ends # <<>> /\ (ends[Len(ends)] # None => w.state = ends[Len(ends)])

Safe == branch = disk /\ pushed /\ Left(branch)

Kept ==
  /\ pc \in {"top", "agent", "next"} => ~signal
  /\ pc \in {"save", "commit"} => Left(disk)
  /\ pc \in {"checkout", "restore"} => Left(saved)
  /\ pc = "push" /\ ~fault => branch = disk /\ Left(branch)
  /\ pc \in {"settle", "next"} /\ ~fault => Safe
  /\ pc = "top" /\ ends # <<>> /\ ~fault => Safe
  /\ pc = "over" /\ outcome \in {"complete", "sleeping", "time", "budget"}
       /\ (ends # <<>> \/ signal) /\ ~fault => Safe

\* A session is left for every epoch to come, and for this one until it is judged.
Budgeted ==
  /\ pc \in Running => Len(ends) + (last - epoch) <= Budget
  /\ pc \in {"top", "agent"} => Len(ends) + (last - epoch) < Budget

IInv == TypeOK /\ Budgeted /\ Ahead /\ Counted /\ Decided /\ Kept

\* The bounds are numbers, and there is one session and one repetition at least.
LEMMA Bounds ==
  /\ Budget \in Nat /\ Budget >= 1
  /\ Threshold \in Nat /\ Threshold >= 1
  /\ MaxStarts \in Nat
BY EpochLoopAssumption

\* What holds of any workspace: what the loop reads of it is typed.
LEMMA WorkFields ==
  ASSUME NEW w \in Work
  PROVE /\ EpochOf(w) \in Nat /\ Hash(w) \in State \cup {None}
        /\ w.progress \in {"none", "open", "complete"}
BY EpochLoopAssumption DEF Work, Hash, EpochOf, State

\* The empty workspace has no epoch.
LEMMA NothingIsWork == Nothing \in Work /\ EpochOf(Nothing) = 0
BY DEF Nothing, Work, EpochOf

\* An epoch that a copy or a reset stopped half way leaves is one of the two there were, or none.
LEMMA HalfwayLeaves ==
  ASSUME NEW v \in Work, NEW w \in Work, NEW u \in Halfway(v, w)
  PROVE /\ u \in Work
        /\ EpochOf(u) \in {0, EpochOf(v), EpochOf(w)}
<1>1. /\ u.state \in {v.state, w.state, None} \cup [epoch: {0}, rest: Rest]
      /\ u.progress \in {v.progress, w.progress, "none", "open"}
      /\ u = [state |-> u.state, progress |-> u.progress]
  BY DEF Halfway
<1>2. u.progress \in {"none", "open", "complete"}
  BY <1>1, WorkFields
<1>3. v.state \in State \cup {None} /\ w.state \in State \cup {None}
  BY DEF Work
<1>4. CASE u.state \in {v.state, w.state, None}
  BY <1>1, <1>2, <1>3, <1>4 DEF Work, EpochOf
<1>5. CASE u.state \in [epoch: {0}, rest: Rest]
  <2>1. u.state \in State /\ u.state.epoch = 0
    BY <1>5 DEF State
  <2> QED
    BY <1>1, <1>2, <2>1 DEF Work, EpochOf
<1> QED
  BY <1>1, <1>4, <1>5

LEMMA ResetLeaves ==
  ASSUME disk \in Work, branch \in Work, NEW u \in Reset(disk)
  PROVE /\ u \in Work
        /\ EpochOf(u) \in {EpochOf(disk), EpochOf(branch)}
<1>1. /\ u.state \in {disk.state, branch.state}
      /\ u.progress \in {disk.progress, branch.progress}
      /\ u = [state |-> u.state, progress |-> u.progress]
  BY DEF Reset
<1> QED
  BY <1>1 DEF Work, EpochOf

\* The copy brings back what the session left, whatever the reset put in its place.
LEMMA OverLeaves ==
  ASSUME disk \in Work, NEW v \in Work
  PROVE /\ Over(v) \in Work
        /\ EpochOf(Over(v)) \in {EpochOf(disk), EpochOf(v)}
        /\ Left(v) => Left(Over(v))
<1>1. Over(v) \in Work /\ EpochOf(Over(v)) \in {EpochOf(disk), EpochOf(v)}
  BY DEF Work, EpochOf, Over
<1>2. Left(v) => Left(Over(v))
  BY DEF Left, Over
<1> QED
  BY <1>1, <1>2

LEMMA InitIInv == Init => IInv
<1> SUFFICES ASSUME Init PROVE IInv
  OBVIOUS
<1>1. <<>> \in Seq(State \cup {None}) /\ Len(<<>>) = 0
  OBVIOUS
<1>2. disk \in Work /\ saved \in Work /\ branch \in Work /\ EpochOf(disk) = 0 /\ EpochOf(branch) = 0
  BY NothingIsWork DEF Init
<1>3. 0 < 0 + Budget /\ 0 \in 0..MaxStarts /\ 0 \in 0..Threshold /\ 0 <= Budget
  BY Bounds
<1>4. TypeOK
  <2>1. epoch \in Nat /\ last \in Nat /\ epoch <= last /\ last < epoch + Budget
    BY <1>3 DEF Init
  <2>2. ends \in Seq(State \cup {None}) /\ Len(ends) <= Budget
    BY <1>1, <1>3 DEF Init
  <2>3. same \in 0..Threshold /\ starts \in 0..MaxStarts
    BY <1>3 DEF Init
  <2> QED
    BY <1>2, <2>1, <2>2, <2>3 DEF Init, TypeOK, Outcomes
<1>5. Counted /\ Decided
  BY Bounds DEF Init, Counted, RunLength, Decided
<1>6. Ahead
  BY <1>2 DEF Init, Ahead, Fresh, Running, Committing
<1> QED
  BY <1>4, <1>5, <1>6 DEF Init, IInv, Budgeted, Kept, Running, Committing

\* The arithmetic of endEpoch.
LEMMA LastOf ==
  ASSUME NEW e \in Nat, NEW l, l = e + Budget - 1
  PROVE l \in Nat /\ e <= l /\ l < e + Budget /\ l - e = Budget - 1
BY Bounds

LEMMA AppendOne ==
  ASSUME NEW S, NEW s \in Seq(S), NEW h \in S, NEW t, t = Append(s, h)
  PROVE /\ t \in Seq(S) /\ t # <<>> /\ Len(t) = Len(s) + 1 /\ t[Len(t)] = h
        /\ \A k \in 1..Len(s) : t[k] = s[k]
OBVIOUS

\* The count after an epoch is judged is again the length of the last run.
LEMMA CountStep ==
  ASSUME NEW S, NEW s \in Seq(S), NEW c \in Nat, RunLength(s, c), NEW h \in S,
         NEW t, t = Append(s, h),
         NEW d, d = IF s # <<>> /\ h = s[Len(s)] THEN c + 1 ELSE 0
  PROVE RunLength(t, d)
<1> DEFINE n == Len(s)
<1>1. n \in Nat /\ (s = <<>> <=> n = 0)
  OBVIOUS
<1>2. t # <<>> /\ Len(t) = n + 1 /\ t[n + 1] = h /\ \A k \in 1..n : t[k] = s[k]
  OBVIOUS
<1> HIDE DEF n
<1>3. CASE s # <<>> /\ h = s[Len(s)]
  <2>1. d = c + 1 /\ n >= 1 /\ c < n /\ d \in Nat
    BY <1>1, <1>3 DEF RunLength, n
  <2>2. \A k \in (n + 1 - d)..(n + 1) : t[k] = t[n + 1]
    <3> SUFFICES ASSUME NEW k \in (n + 1 - d)..(n + 1), k # n + 1 PROVE t[k] = h
      BY <1>2
    <3>1. k \in (n - c)..n /\ k \in 1..n
      BY <2>1, <1>1
    <3> QED
      BY <3>1, <1>2, <1>3 DEF RunLength, n
  <2>3. n - c > 1 => t[n - c - 1] # h
    <3> SUFFICES ASSUME n - c > 1 PROVE t[n - c - 1] # h
      OBVIOUS
    <3>1. n - c - 1 \in 1..n
      BY <2>1, <1>1
    <3> QED
      BY <3>1, <1>2, <1>3 DEF RunLength, n
  <2>4. n + 1 - d = n - c /\ d < n + 1
    BY <2>1, <1>1
  <2> QED
    BY <1>2, <2>2, <2>3, <2>4 DEF RunLength
<1>4. CASE ~(s # <<>> /\ h = s[Len(s)])
  <2>1. d = 0
    BY <1>4
  <2>2. n >= 1 => t[n] # h
    <3> SUFFICES ASSUME n >= 1 PROVE t[n] # h
      OBVIOUS
    <3>1. s # <<>> /\ t[n] = s[n]
      BY <1>1, <1>2
    <3> QED
      BY <3>1, <1>4 DEF n
  <2> QED
    BY <1>1, <1>2, <2>1, <2>2 DEF RunLength
<1> QED
  BY <1>3, <1>4

LEMMA NextIInv == IInv /\ [Next]_vars => IInv'
<1> SUFFICES ASSUME IInv, [Next]_vars PROVE IInv'
  OBVIOUS
<1> USE Bounds
<1>0. disk \in Work /\ branch \in Work /\ saved \in Work
  BY DEF IInv, TypeOK
<1>e. EpochOf(disk) \in Nat /\ EpochOf(branch) \in Nat /\ EpochOf(saved) \in Nat /\ done \in Nat /\ epoch \in Nat
  BY <1>0, WorkFields DEF IInv, TypeOK
<1>1. CASE Launch
  <2>a. disk' \in Work /\ EpochOf(disk') = EpochOf(disk)
    <3>1. PICK g \in {disk.progress, "open"} \ {"none"} : disk' = [disk EXCEPT !.progress = g]
      BY <1>1 DEF Launch
    <3> QED
      BY <3>1, <1>0 DEF Work, EpochOf
  <2>b. ends' = <<>> /\ Len(ends') = 0 /\ ends' \in Seq(State \cup {None})
    BY <1>1 DEF Launch
  <2>d. /\ epoch' \in Nat /\ last' \in Nat /\ epoch' <= last' /\ last' < epoch' + Budget
        /\ Len(ends') + (last' - epoch') < Budget /\ Len(ends') <= Budget
        /\ Len(ends') + (last' - epoch') <= Budget
    <3> DEFINE e == EpochOf(disk) + 1
               l == e + Budget - 1
    <3>1. e \in Nat
      BY <1>e
    <3>2. epoch' = e /\ last' = l
      BY <1>1 DEF Launch, StartEpoch
    <3> HIDE DEF e
    <3>3. l \in Nat /\ e <= l /\ l < e + Budget /\ l - e = Budget - 1
      BY <3>1, LastOf
    <3> HIDE DEF l
    <3>4. 0 + (l - e) < Budget /\ 0 <= Budget
      BY <3>1, <3>3
    <3> QED
      BY <2>b, <3>1, <3>2, <3>3, <3>4
  <2>e. starts' \in 0..MaxStarts /\ same' \in 0..Threshold
    BY <1>1 DEF Launch, IInv, TypeOK
  <2>1. TypeOK'
    BY <2>a, <2>b, <2>d, <2>e, <1>1, <1>0, <1>e DEF Launch, IInv, TypeOK, Outcomes, Running, Committing
  <2>2. Ahead'
    <3>1. epoch' = EpochOf(disk) + 1 /\ pc' = "top"
      BY <1>1 DEF Launch, StartEpoch
    <3>2. ~lost' => ~lost /\ (EpochOf(disk) = 0 => done = 0)
      <4>1. lost' = (lost \/ (EpochOf(disk) = 0 /\ done > 0))
        BY <1>1 DEF Launch
      <4>2. EpochOf(disk) = 0 /\ done # 0 => done > 0
        BY <1>e
      <4> QED
        BY <4>1, <4>2
    <3>3. branch' = branch /\ done' = done
      BY <1>1 DEF Launch
    <3> QED
      BY <2>a, <3>1, <3>2, <3>3, <1>e DEF IInv, Ahead, Fresh
  <2>3. Counted'
    BY <1>1 DEF Launch, IInv, Counted, RunLength, files
  <2>4. Decided'
    BY <1>1 DEF Launch, IInv, TypeOK, Decided, files, Running, Committing
  <2>5. Kept'
    BY <1>1 DEF Launch, IInv, Decided, Kept, Left, Safe, files
  <2>6. Budgeted'
    BY <2>d DEF Budgeted
  <2> QED
    BY <2>1, <2>2, <2>3, <2>4, <2>5, <2>6 DEF IInv
<1>2. CASE Top
  <2>1. TypeOK'
    BY <1>2, <1>0, <1>e, NothingIsWork DEF Top, IInv, TypeOK, Outcomes, files, loop, history, Running, Committing, Return
  <2>2. Ahead'
    BY <1>2, <1>e, NothingIsWork DEF Top, IInv, Ahead, Fresh, files, loop, history, Running, Committing, Return
  <2>3. Counted'
    BY <1>2 DEF Top, IInv, Counted, RunLength, files, loop, history, Return
  <2>4. Decided'
    BY <1>2 DEF Top, IInv, TypeOK, Decided, files, loop, history, Running, Committing, Return
  <2>5. Kept'
    BY <1>2 DEF Top, IInv, Decided, Kept, Left, Safe, files, loop, history, Return
  <2>6. Budgeted'
    BY <1>2 DEF Top, IInv, TypeOK, Budgeted, files, loop, history, Running, Committing, Return
  <2> QED
    BY <2>1, <2>2, <2>3, <2>4, <2>5, <2>6 DEF IInv
<1>3. CASE AgentWrites
  <2>a. disk' \in Work /\ EpochOf(disk') \in {EpochOf(disk), epoch, 0}
    <3>1. /\ disk'.state \in [epoch: {EpochOf(disk), epoch, 0}, rest: Rest] \cup {None}
          /\ disk'.progress \in Written
          /\ disk' = [state |-> disk'.state, progress |-> disk'.progress]
      BY <1>3 DEF AgentWrites
    <3>2. disk'.progress \in {"none", "open", "complete"}
      BY <3>1, EpochLoopAssumption
    <3>3. ASSUME disk'.state # None
          PROVE  disk'.state \in State /\ disk'.state.epoch \in {EpochOf(disk), epoch, 0}
      BY <3>1, <3>3, <1>e DEF State
    <3> QED
      BY <3>1, <3>2, <3>3 DEF Work, EpochOf
  <2>1. TypeOK'
    BY <2>a, <1>3, <1>0, <1>e, NothingIsWork DEF AgentWrites, IInv, TypeOK, Outcomes, files, loop, history, Running, Committing
  <2>2. Ahead'
    BY <2>a, <1>3, <1>e, NothingIsWork DEF AgentWrites, IInv, Ahead, Fresh, files, loop, history, Running, Committing
  <2>3. Counted'
    BY <1>3 DEF AgentWrites, IInv, Counted, RunLength, files, loop, history
  <2>4. Decided'
    BY <1>3 DEF AgentWrites, IInv, TypeOK, Decided, files, loop, history, Running, Committing
  <2>5. Kept'
    BY <2>a, <1>3 DEF AgentWrites, IInv, Decided, Kept, Left, Safe, files, loop, history
  <2>6. Budgeted'
    BY <1>3 DEF AgentWrites, IInv, TypeOK, Budgeted, files, loop, history, Running, Committing
  <2> QED
    BY <2>1, <2>2, <2>3, <2>4, <2>5, <2>6 DEF IInv
<1>4. CASE AgentCommits
  <2>a. /\ done' = IF EpochOf(disk) > 0 THEN EpochOf(disk) ELSE done
        /\ branch' = disk /\ lost' = lost
    BY <1>4 DEF AgentCommits, Committed
  <2>1. TypeOK'
    BY <2>a, <1>4, <1>0, <1>e, NothingIsWork DEF AgentCommits, IInv, TypeOK, Outcomes, loop, Running, Committing
  <2>2. Ahead'
    BY <2>a, <1>4, <1>e, NothingIsWork DEF AgentCommits, IInv, Ahead, Fresh, loop, Running, Committing
  <2>3. Counted'
    BY <1>4 DEF AgentCommits, IInv, Counted, RunLength, loop
  <2>4. Decided'
    BY <1>4 DEF AgentCommits, IInv, TypeOK, Decided, loop, Running, Committing
  <2>5. Kept'
    BY <2>a, <1>4 DEF AgentCommits, IInv, Decided, Kept, Left, Safe, loop
  <2>6. Budgeted'
    BY <1>4 DEF AgentCommits, IInv, TypeOK, Budgeted, loop, Running, Committing
  <2> QED
    BY <2>1, <2>2, <2>3, <2>4, <2>5, <2>6 DEF IInv
<1>5. CASE SessionFails
  <2>1. TypeOK'
    BY <1>5, <1>0, <1>e, NothingIsWork DEF SessionFails, IInv, TypeOK, Outcomes, files, loop, history, Running, Committing, Return
  <2>2. Ahead'
    BY <1>5, <1>e, NothingIsWork DEF SessionFails, IInv, Ahead, Fresh, files, loop, history, Running, Committing, Return
  <2>3. Counted'
    BY <1>5 DEF SessionFails, IInv, Counted, RunLength, files, loop, history, Return
  <2>4. Decided'
    BY <1>5 DEF SessionFails, IInv, TypeOK, Decided, files, loop, history, Running, Committing, Return
  <2>5. Kept'
    BY <1>5 DEF SessionFails, IInv, Decided, Kept, Left, Safe, files, loop, history, Return
  <2>6. Budgeted'
    BY <1>5 DEF SessionFails, IInv, TypeOK, Budgeted, files, loop, history, Running, Committing, Return
  <2> QED
    BY <2>1, <2>2, <2>3, <2>4, <2>5, <2>6 DEF IInv
<1>6. CASE SessionCompletes
  <2>a. disk' \in Work /\ EpochOf(disk') = EpochOf(disk) /\ disk'.progress = "complete"
    BY <1>6, <1>0 DEF SessionCompletes, Work, EpochOf
  <2>1. TypeOK'
    BY <2>a, <1>6, <1>0, <1>e, NothingIsWork DEF SessionCompletes, IInv, TypeOK, Outcomes, history, Running, Committing
  <2>2. Ahead'
    BY <2>a, <1>6, <1>e, NothingIsWork DEF SessionCompletes, IInv, Ahead, Fresh, history, Running, Committing
  <2>3. Counted'
    BY <1>6 DEF SessionCompletes, IInv, Counted, RunLength, history
  <2>4. Decided'
    BY <1>6 DEF SessionCompletes, IInv, TypeOK, Decided, history, Running, Committing
  <2>5. Kept'
    BY <2>a, <1>6 DEF SessionCompletes, IInv, Decided, Kept, Left, Safe, history
  <2>6. Budgeted'
    BY <1>6 DEF SessionCompletes, IInv, TypeOK, Budgeted, history, Running, Committing
  <2> QED
    BY <2>1, <2>2, <2>3, <2>4, <2>5, <2>6 DEF IInv
<1>7. CASE SessionEnds
  <2>1. Hash(disk) \in (State \cup {None})
    BY WorkFields DEF IInv, TypeOK
  <2>2. same < Threshold
    BY <1>7 DEF SessionEnds, IInv, TypeOK, Decided
  <2>3. Counted' /\ same' \in 0..Threshold
    <3>1. ends \in Seq(State \cup {None}) /\ same \in Nat /\ RunLength(ends, same)
      BY DEF IInv, TypeOK, Counted
    <3>2. /\ ends' = Append(ends, Hash(disk))
          /\ same' = IF ends # <<>> /\ Hash(disk) = ends[Len(ends)] THEN same + 1 ELSE 0
      BY <1>7 DEF SessionEnds, StillCount
    <3>3. RunLength(ends', same')
      BY <3>1, <3>2, <2>1, CountStep
    <3>4. same' \in 0..Threshold
      BY <3>2, <2>2 DEF IInv, TypeOK
    <3> QED
      BY <3>3, <3>4 DEF Counted
  <2>4. ends' \in Seq(State \cup {None}) /\ Len(ends') = Len(ends) + 1 /\ ends'[Len(ends')] = Hash(disk) /\ ends' # <<>>
    BY <1>7, <2>1, AppendOne DEF SessionEnds, IInv, TypeOK
  <2>5. TypeOK'
    BY <1>7, <2>3, <2>4 DEF SessionEnds, IInv, TypeOK, Budgeted, files, history, Return, Running, Committing, Outcomes
  <2>6. Ahead'
    BY <1>7 DEF SessionEnds, IInv, Ahead, Fresh, files, history, Return, Running, Committing
  <2>7. Decided'
    BY <1>7, <2>3 DEF SessionEnds, IInv, TypeOK, Decided, Return
  <2>8. Kept'
    BY <1>7, <2>4 DEF SessionEnds, IInv, TypeOK, Kept, Left, Safe, Hash, files, Return
  <2>9. Budgeted'
    BY <1>7, <2>4 DEF SessionEnds, IInv, TypeOK, Budgeted, Return, Running, Committing
  <2> QED
    BY <2>3, <2>5, <2>6, <2>7, <2>8, <2>9 DEF IInv
<1>8. CASE Save
  <2>1. TypeOK'
    BY <1>8, <1>0, <1>e, NothingIsWork DEF Save, IInv, TypeOK, Outcomes, files, loop, history, Running, Committing, Throws
  <2>2. Ahead'
    BY <1>8, <1>e, NothingIsWork DEF Save, IInv, Ahead, Fresh, files, loop, history, Running, Committing, Throws
  <2>3. Counted'
    BY <1>8 DEF Save, IInv, Counted, RunLength, files, loop, history, Throws
  <2>4. Decided'
    BY <1>8 DEF Save, IInv, TypeOK, Decided, files, loop, history, Running, Committing, Throws
  <2>5. Kept'
    BY <1>8 DEF Save, IInv, Decided, Kept, Left, Safe, files, loop, history, Throws
  <2>6. Budgeted'
    BY <1>8 DEF Save, IInv, TypeOK, Budgeted, files, loop, history, Running, Committing, Throws
  <2> QED
    BY <2>1, <2>2, <2>3, <2>4, <2>5, <2>6 DEF IInv
<1>9. CASE Checkout
  <2>a. /\ disk' \in Work
        /\ EpochOf(disk') \in {0, EpochOf(disk), EpochOf(branch)}
    BY <1>9, <1>0, HalfwayLeaves, ResetLeaves DEF Checkout
  <2>1. TypeOK'
    BY <2>a, <1>9, <1>0, <1>e, NothingIsWork DEF Checkout, IInv, TypeOK, Outcomes, files, loop, history, Running, Committing, Throws
  <2>2. Ahead'
    BY <2>a, <1>9, <1>e, NothingIsWork DEF Checkout, IInv, Ahead, Fresh, files, loop, history, Running, Committing, Throws
  <2>3. Counted'
    BY <1>9 DEF Checkout, IInv, Counted, RunLength, files, loop, history, Throws
  <2>4. Decided'
    BY <1>9 DEF Checkout, IInv, TypeOK, Decided, files, loop, history, Running, Committing, Throws
  <2>5. Kept'
    BY <2>a, <1>9 DEF Checkout, IInv, Decided, Kept, Left, Safe, files, loop, history, Throws
  <2>6. Budgeted'
    BY <1>9 DEF Checkout, IInv, TypeOK, Budgeted, files, loop, history, Running, Committing, Throws
  <2> QED
    BY <2>1, <2>2, <2>3, <2>4, <2>5, <2>6 DEF IInv
<1>10. CASE Restore
  <2>a. /\ disk' \in Work
        /\ EpochOf(disk') \in {0, EpochOf(disk), EpochOf(saved)}
    BY <1>10, <1>0, HalfwayLeaves, OverLeaves DEF Restore
  <2>b. pc' = "commit" /\ Left(saved) => Left(disk')
    BY <1>10, <1>0, OverLeaves DEF Restore, Throws
  <2>1. TypeOK'
    BY <2>a, <1>10, <1>0, <1>e, NothingIsWork DEF Restore, IInv, TypeOK, Outcomes, files, loop, history, Running, Committing, Throws
  <2>2. Ahead'
    BY <2>a, <1>10, <1>e, NothingIsWork DEF Restore, IInv, Ahead, Fresh, files, loop, history, Running, Committing, Throws
  <2>3. Counted'
    BY <1>10 DEF Restore, IInv, Counted, RunLength, files, loop, history, Throws
  <2>4. Decided'
    BY <1>10 DEF Restore, IInv, TypeOK, Decided, files, loop, history, Running, Committing, Throws
  <2>5. Kept'
    <3>1. pc = "restore" /\ pc' \in {"commit", "settle"} /\ (pc' = "settle" => fault')
      BY <1>10 DEF Restore, Throws
    <3>2. UNCHANGED <<signal, ends>>
      BY <1>10 DEF Restore, loop
    <3>3. pc' = "commit" => Left(disk)'
      BY <2>b, <3>1, <3>2 DEF IInv, Kept, Left
    <3> QED
      BY <3>1, <3>3 DEF Kept
  <2>6. Budgeted'
    BY <1>10 DEF Restore, IInv, TypeOK, Budgeted, files, loop, history, Running, Committing, Throws
  <2> QED
    BY <2>1, <2>2, <2>3, <2>4, <2>5, <2>6 DEF IInv
<1>11. CASE Commit
  <2>a. \/ /\ done' = IF EpochOf(disk) > 0 THEN EpochOf(disk) ELSE done
           /\ branch' = disk /\ lost' = lost
        \/ UNCHANGED <<branch, history>>
    BY <1>11 DEF Commit, Committed
  <2>1. TypeOK'
    BY <2>a, <1>11, <1>0, <1>e, NothingIsWork DEF Commit, IInv, TypeOK, Outcomes, files, loop, history, Running, Committing, Throws, Committed
  <2>2. Ahead'
    BY <2>a, <1>11, <1>e, NothingIsWork DEF Commit, IInv, Ahead, Fresh, files, loop, history, Running, Committing, Throws, Committed
  <2>3. Counted'
    BY <1>11 DEF Commit, IInv, Counted, RunLength, files, loop, history, Throws, Committed
  <2>4. Decided'
    BY <1>11 DEF Commit, IInv, TypeOK, Decided, files, loop, history, Running, Committing, Throws, Committed
  <2>5. Kept'
    BY <2>a, <1>11 DEF Commit, IInv, Decided, Kept, Left, Safe, files, loop, history, Throws, Committed
  <2>6. Budgeted'
    BY <1>11 DEF Commit, IInv, TypeOK, Budgeted, files, loop, history, Running, Committing, Throws, Committed
  <2> QED
    BY <2>1, <2>2, <2>3, <2>4, <2>5, <2>6 DEF IInv
<1>12. CASE Push
  <2>1. TypeOK'
    BY <1>12, <1>0, <1>e, NothingIsWork DEF Push, IInv, TypeOK, Outcomes, files, loop, history, Running, Committing
  <2>2. Ahead'
    BY <1>12, <1>e, NothingIsWork DEF Push, IInv, Ahead, Fresh, files, loop, history, Running, Committing
  <2>3. Counted'
    BY <1>12 DEF Push, IInv, Counted, RunLength, files, loop, history
  <2>4. Decided'
    BY <1>12 DEF Push, IInv, TypeOK, Decided, files, loop, history, Running, Committing
  <2>5. Kept'
    BY <1>12 DEF Push, IInv, Decided, Kept, Left, Safe, files, loop, history
  <2>6. Budgeted'
    BY <1>12 DEF Push, IInv, TypeOK, Budgeted, files, loop, history, Running, Committing
  <2> QED
    BY <2>1, <2>2, <2>3, <2>4, <2>5, <2>6 DEF IInv
<1>13. CASE Settle
  <2>1. TypeOK'
    BY <1>13, <1>0, <1>e, NothingIsWork DEF Settle, IInv, TypeOK, Outcomes, files, loop, history, Running, Committing, Return
  <2>2. Ahead'
    BY <1>13, <1>e, NothingIsWork DEF Settle, IInv, Ahead, Fresh, files, loop, history, Running, Committing, Return
  <2>3. Counted'
    BY <1>13 DEF Settle, IInv, Counted, RunLength, files, loop, history, Return
  <2>4. Decided'
    BY <1>13 DEF Settle, IInv, TypeOK, Decided, files, loop, history, Running, Committing, Return
  <2>5. Kept'
    BY <1>13 DEF Settle, IInv, Decided, Kept, Left, Safe, files, loop, history, Return
  <2>6. Budgeted'
    BY <1>13 DEF Settle, IInv, TypeOK, Budgeted, files, loop, history, Running, Committing, Return
  <2> QED
    BY <2>1, <2>2, <2>3, <2>4, <2>5, <2>6 DEF IInv
<1>14. CASE NextEpoch
  <2>1. TypeOK'
    BY <1>14, <1>0, <1>e, NothingIsWork DEF NextEpoch, IInv, TypeOK, Outcomes, files, loop, history, Running, Committing, Return
  <2>2. Ahead'
    BY <1>14, <1>e, NothingIsWork DEF NextEpoch, IInv, Ahead, Fresh, files, loop, history, Running, Committing, Return
  <2>3. Counted'
    BY <1>14 DEF NextEpoch, IInv, Counted, RunLength, files, loop, history, Return
  <2>4. Decided'
    BY <1>14 DEF NextEpoch, IInv, TypeOK, Decided, files, loop, history, Running, Committing, Return
  <2>5. Kept'
    BY <1>14 DEF NextEpoch, IInv, Decided, Kept, Left, Safe, files, loop, history, Return
  <2>6. Budgeted'
    BY <1>14 DEF NextEpoch, IInv, TypeOK, Budgeted, files, loop, history, Running, Committing, Return
  <2> QED
    BY <2>1, <2>2, <2>3, <2>4, <2>5, <2>6 DEF IInv
<1>15. CASE Crash
  <2>a. /\ disk' \in Work
        /\ EpochOf(disk') \in {0, EpochOf(disk)}
             \cup (IF pc = "checkout" THEN {EpochOf(branch)} ELSE {})
             \cup (IF pc = "restore" THEN {EpochOf(saved)} ELSE {})
    BY <1>15, <1>0, HalfwayLeaves DEF Crash
  <2>b. 0 \in 0..Threshold /\ <<>> \in Seq(State \cup {None}) /\ Len(<<>>) = 0 /\ 0 < 0 + Budget /\ 0 <= Budget
    OBVIOUS
  <2>1. TypeOK'
    <3>1. /\ pc' = "down" /\ saved' = Nothing /\ epoch' = 0 /\ last' = 0 /\ same' = 0 /\ ends' = <<>>
          /\ signal' = FALSE /\ fault' = FALSE
          /\ UNCHANGED <<branch, pushed, starts, outcome, done, lost>>
      BY <1>15 DEF Crash, history
    <3>2. ends' \in Seq(State \cup {None}) /\ Len(ends') <= Budget /\ same' \in 0..Threshold
      BY <3>1, <2>b
    <3>3. epoch' \in Nat /\ last' \in Nat /\ epoch' <= last' /\ last' < epoch' + Budget
      BY <3>1, <2>b
    <3> QED
      BY <2>a, <3>1, <3>2, <3>3, <1>0, NothingIsWork DEF IInv, TypeOK
  <2>2. Ahead'
    BY <2>a, <2>b, <1>15, <1>e, NothingIsWork DEF Crash, IInv, Ahead, Fresh, history, Running, Committing
  <2>3. Counted'
    BY <1>15 DEF Crash, Counted, RunLength
  <2>4. Decided'
    BY <1>15 DEF Crash, IInv, Decided, Running, Committing
  <2>5. Kept'
    BY <2>a, <2>b, <1>15 DEF Crash, IInv, Decided, Kept, Left, Safe, history
  <2>6. Budgeted'
    BY <1>15 DEF Crash, IInv, TypeOK, Budgeted, history, Running, Committing
  <2> QED
    BY <2>1, <2>2, <2>3, <2>4, <2>5, <2>6 DEF IInv
<1>16. CASE UNCHANGED vars
  <2>1. TypeOK'
    BY <1>16, <1>0, <1>e, NothingIsWork DEF vars, IInv, TypeOK, Outcomes, files, loop, history, Running, Committing
  <2>2. Ahead'
    BY <1>16, <1>e, NothingIsWork DEF vars, IInv, Ahead, Fresh, files, loop, history, Running, Committing
  <2>3. Counted'
    BY <1>16 DEF vars, IInv, Counted, RunLength, files, loop, history
  <2>4. Decided'
    BY <1>16 DEF vars, IInv, TypeOK, Decided, files, loop, history, Running, Committing
  <2>5. Kept'
    BY <1>16 DEF vars, IInv, Decided, Kept, Left, Safe, files, loop, history
  <2>6. Budgeted'
    BY <1>16 DEF vars, IInv, TypeOK, Budgeted, files, loop, history, Running, Committing
  <2> QED
    BY <2>1, <2>2, <2>3, <2>4, <2>5, <2>6 DEF IInv
<1> QED
  BY <1>1, <1>2, <1>3, <1>4, <1>5, <1>6, <1>7, <1>8, <1>9, <1>10, <1>11, <1>12, <1>13, <1>14, <1>15, <1>16 DEF Next, LoopStep

THEOREM Invariance == Spec => []IInv
BY InitIInv, NextIInv, PTL DEF Spec

\* The types of the loop, with its sessions bounded by the budget of the launch.
THEOREM TypeCorrect == Spec => []TypeOK
<1>1. IInv => TypeOK
  BY DEF IInv
<1> QED
  BY <1>1, Invariance, PTL

\* A committed epoch is not run again, for any pattern of kills and failing git commands, as long as
\* no launch finds a state.json without an epoch after one was committed.
THEOREM NoEpochTwice == Spec => CommittedNotRerun
<1>1. IInv /\ [Next]_vars => (pc = "top" /\ pc' = "agent" /\ ~lost => done < epoch)
  BY DEF IInv, Ahead
<1> QED
  BY <1>1, Invariance, PTL DEF Spec, CommittedNotRerun

\* The abort for thrashing is exact, for every threshold and budget.
THEOREM ThrashingExact == Spec => []ThrashOnlyStuck
<1>1. IInv => ThrashOnlyStuck
  <2> SUFFICES ASSUME IInv PROVE same = Threshold <=> Stuck
    BY DEF IInv, Decided, ThrashOnlyStuck
  <2>1. Len(ends) \in Nat /\ same \in 0..Threshold /\ Threshold \in Nat /\ Threshold >= 1
    BY Bounds DEF IInv, TypeOK
  <2>2. ASSUME same = Threshold PROVE Stuck
    <3>1. ends # <<>>
      BY <2>1, <2>2 DEF IInv, Counted, RunLength
    <3> QED
      BY <3>1, <2>1, <2>2 DEF IInv, Counted, RunLength, Stuck
  <2>3. ASSUME Stuck, same < Threshold PROVE FALSE
    <3>1. ends # <<>> /\ Len(ends) > Threshold
      BY <2>1, <2>3 DEF Stuck, IInv, TypeOK
    <3>2. Len(ends) - same > 1
      BY <3>1, <2>1, <2>3
    <3>3. Len(ends) - same - 1 \in (Len(ends) - Threshold)..Len(ends)
      BY <3>1, <2>1, <2>3
    <3>4. ends[Len(ends) - same - 1] = ends[Len(ends)]
      BY <3>3, <2>3 DEF Stuck
    <3> QED
      BY <3>1, <3>2, <3>4 DEF IInv, Counted, RunLength
  <2> QED
    BY <2>1, <2>2, <2>3
<1> QED
  BY <1>1, Invariance, PTL

\* The files a session left are committed and pushed when the loop returns, unless a step failed: the
\* reset to the branch and the copy over it lose none of them.
THEOREM PushedWork == Spec => []WorkPushed
<1>1. IInv => WorkPushed
  BY DEF IInv, Kept, Safe, Left, WorkPushed
<1> QED
  BY <1>1, Invariance, PTL

-----------------------------------------------------------------------------
(* Termination but for fairness: what is left to do gets less with every step. *)

\* The statements that are left of an epoch, this one included.
Rank ==
  CASE pc = "top" -> 9 [] pc = "agent" -> 8
    [] pc = "save" -> 7 [] pc = "checkout" -> 6 [] pc = "restore" -> 5 [] pc = "commit" -> 4 [] pc = "push" -> 3
    [] pc = "settle" -> 2 [] pc = "next" -> 1
    [] OTHER -> 0

StepsLeft == IF pc \in Running THEN 9 * (last - epoch) + Rank ELSE 0

\* Going on in the same epoch to a later statement, or returning, leaves less to do.
LEMMA Onward ==
  ASSUME TypeOK, pc \in Running, pc' \in Running \cup {"over"}, UNCHANGED <<epoch, last>>, Rank' < Rank
  PROVE  StepsLeft' < StepsLeft
<1>1. Rank \in 1..9 /\ Rank' \in 0..9 /\ last - epoch \in Nat
  BY DEF TypeOK, Rank, Running, Committing
<1>2. StepsLeft = 9 * (last - epoch) + Rank
  BY DEF StepsLeft
<1>3. StepsLeft' = 9 * (last - epoch) + Rank' \/ StepsLeft' = 0
  BY DEF StepsLeft
<1> QED
  BY <1>1, <1>2, <1>3

LEMMA LoopStepOnward ==
  ASSUME TypeOK, LoopStep
  PROVE  StepsLeft' < StepsLeft
<1>1. CASE Top \/ SessionFails \/ SessionCompletes \/ SessionEnds
  <2>1. pc \in Running /\ pc' \in Running \cup {"over"} /\ UNCHANGED <<epoch, last>>
    BY <1>1 DEF Top, SessionFails, SessionCompletes, SessionEnds, Return, loop, Running, Committing
  <2>2. Rank' < Rank
    BY <1>1 DEF Top, SessionFails, SessionCompletes, SessionEnds, Return, Rank
  <2> QED
    BY <2>1, <2>2, Onward
<1>2. CASE Save \/ Checkout \/ Restore \/ Commit \/ Push
  <2>1. pc \in Running /\ pc' \in Running \cup {"over"} /\ UNCHANGED <<epoch, last>>
    BY <1>2 DEF Save, Checkout, Restore, Commit, Push, Throws, loop, Running, Committing
  <2>2. Rank' < Rank
    BY <1>2 DEF Save, Checkout, Restore, Commit, Push, Throws, Rank
  <2> QED
    BY <2>1, <2>2, Onward
<1>3. CASE Settle
  <2>1. pc \in Running /\ pc' \in Running \cup {"over"} /\ UNCHANGED <<epoch, last>>
    BY <1>3 DEF Settle, Return, loop, Running, Committing
  <2>2. Rank' < Rank
    BY <1>3 DEF Settle, Return, Rank
  <2> QED
    BY <2>1, <2>2, Onward
<1>4. CASE NextEpoch
  <2>1. epoch \in Nat /\ last \in Nat /\ epoch <= last /\ last' = last
    BY <1>4 DEF TypeOK, NextEpoch
  <2>2. StepsLeft = 9 * (last - epoch) + 1
    BY <1>4 DEF NextEpoch, StepsLeft, Rank, Running
  <2>3. CASE pc' = "over"
    BY <2>1, <2>2, <2>3 DEF StepsLeft, Running, Committing
  <2>4. CASE epoch < last /\ pc' = "top" /\ epoch' = epoch + 1
    <3>1. StepsLeft' = 9 * (last - (epoch + 1)) + 9
      BY <2>1, <2>4 DEF StepsLeft, Rank, Running
    <3> QED
      BY <2>1, <2>2, <3>1
  <2> QED
    BY <1>4, <2>3, <2>4 DEF NextEpoch, Return
<1> QED
  BY <1>1, <1>2, <1>3, <1>4 DEF LoopStep

\* A launch has no more than nine statements for each session of its budget, every one that the loop
\* takes leaves fewer, whatever the agent does meanwhile, and none is left only when the loop is over
\* or was killed: a loop that goes on ends.
THEOREM LoopGetsDone ==
  Spec => /\ []((pc \in Running <=> StepsLeft > 0) /\ StepsLeft <= 9 * Budget)
          /\ [][/\ LoopStep => StepsLeft' < StepsLeft
                /\ AgentWrites \/ AgentCommits => StepsLeft' = StepsLeft]_vars
<1>1. IInv => (pc \in Running <=> StepsLeft > 0) /\ StepsLeft <= 9 * Budget
  <2> SUFFICES ASSUME TypeOK PROVE (pc \in Running <=> StepsLeft > 0) /\ StepsLeft <= 9 * Budget
    BY DEF IInv
  <2>1. epoch \in Nat /\ last \in Nat /\ epoch <= last /\ last - epoch <= Budget - 1 /\ Budget \in Nat /\ Budget >= 1
    BY Bounds DEF TypeOK
  <2>2. pc \in Running => Rank \in 1..9
    BY DEF Rank, Running, Committing
  <2>3. CASE pc \in Running
    <3>1. StepsLeft = 9 * (last - epoch) + Rank
      BY <2>3 DEF StepsLeft
    <3> QED
      BY <2>1, <2>2, <2>3, <3>1
  <2>4. CASE pc \notin Running
    <3>1. StepsLeft = 0
      BY <2>4 DEF StepsLeft
    <3> QED
      BY <2>1, <2>4, <3>1
  <2> QED
    BY <2>3, <2>4
<1>2. IInv /\ [Next]_vars => [/\ LoopStep => StepsLeft' < StepsLeft
                              /\ AgentWrites \/ AgentCommits => StepsLeft' = StepsLeft]_vars
  <2>1. IInv /\ LoopStep => StepsLeft' < StepsLeft
    BY LoopStepOnward DEF IInv
  <2>2. AgentWrites \/ AgentCommits => StepsLeft' = StepsLeft
    BY DEF AgentWrites, AgentCommits, loop, StepsLeft, Rank
  <2> QED
    BY <2>1, <2>2
<1> QED
  BY <1>1, <1>2, Invariance, PTL DEF Spec
=============================================================================
