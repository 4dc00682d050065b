-------------------------- MODULE PollWindowProofs --------------------------
(* Proofs about the window in which the poller takes a cron for due. *)
EXTENDS PollWindow, TLAPS

\* The pause after a poll is at least the window, so the next window begins no earlier
\* than the last poll did.
PauseInv ==
  /\ started <= clock
  /\ started >= 0 /\ mode = "idle" => timer >= started + Window
  /\ mode = "polling" => started >= 0

SeenInv == \A f \in Fires : seen[f] <= 1 /\ (seen[f] = 1 => f < started)

IInv == TypeOK /\ PauseInv /\ SeenInv

\* One daemon's polls and pauses keep the types, the pause and the count of each fire.
THEOREM Invariance == Spec => []IInv
<1> USE WindowAssumption
<1>1. Init => IInv
  BY DEF Init, IInv, TypeOK, PauseInv, SeenInv
<1>2. IInv /\ [Next]_vars => IInv'
  <2> SUFFICES ASSUME IInv, [Next]_vars PROVE IInv'
    OBVIOUS
  <2>1. CASE StartPoll
    <3>1. \A f \in Fires : Due(f) => seen[f] = 0
      <4> SUFFICES ASSUME NEW f \in Fires, Due(f) PROVE seen[f] = 0
        OBVIOUS
      <4>1. started >= 0 => f >= started
        BY <2>1 DEF StartPoll, Due, InWindow, IInv, TypeOK, PauseInv
      <4>2. started = -1 => f >= started
        BY DEF IInv, TypeOK
      <4> QED
        BY <4>1, <4>2 DEF IInv, TypeOK, SeenInv
    <3>2. \A f \in Fires : seen'[f] = IF Due(f) THEN seen[f] + 1 ELSE seen[f]
      BY <2>1 DEF StartPoll
    <3>3. \A f \in Fires : Due(f) => f < clock
      BY DEF Due, InWindow
    <3>4. TypeOK'
      <4>1. seen' \in [Fires -> Nat]
        BY <2>1 DEF StartPoll, IInv, TypeOK
      <4>2. {t \in 0..clock : InWindow(t)} \subseteq 0..clock /\ 0..clock \subseteq Nat
        BY DEF IInv, TypeOK
      <4>3. reached' \subseteq Nat
        BY <2>1, <4>2 DEF StartPoll, IInv, TypeOK
      <4> QED
        BY <2>1, <4>1, <4>3 DEF StartPoll, IInv, TypeOK
    <3>5. SeenInv'
      BY <2>1, <3>1, <3>2, <3>3 DEF StartPoll, IInv, TypeOK, PauseInv, SeenInv
    <3> QED
      BY <2>1, <3>4, <3>5 DEF StartPoll, IInv, TypeOK, PauseInv
  <2>2. CASE EndPoll
    BY <2>2 DEF EndPoll, IInv, TypeOK, PauseInv, SeenInv
  <2>3. CASE Tick
    BY <2>3 DEF Tick, IInv, TypeOK, PauseInv, SeenInv
  <2>4. CASE UNCHANGED vars
    BY <2>4 DEF vars, IInv, TypeOK, PauseInv, SeenInv
  <2> QED
    BY <2>1, <2>2, <2>3, <2>4 DEF Next
<1> QED
  BY <1>1, <1>2, PTL DEF Spec

\* Clock, timer, windows and counts keep their types for every schedule and any delays.
THEOREM TypeCorrect == Spec => []TypeOK
<1>1. IInv => TypeOK
  BY DEF IInv
<1> QED
  BY <1>1, Invariance, PTL

\* For every schedule, length of a poll and delay of a timer, one daemon takes a fire
\* for due in at most one poll.
THEOREM NeverTwice == Spec => []SeenOnce
<1>1. IInv => SeenOnce
  BY DEF IInv, SeenInv, SeenOnce
<1> QED
  BY <1>1, Invariance, PTL

-----------------------------------------------------------------------------
\* How late a poll may be: the last one took at most MaxPoll, its timer is at most
\* MaxLate late, and the last window reached up to the start of the last poll.
LateInv ==
  /\ mode = "polling" => clock <= started + MaxPoll
  /\ mode = "idle" => clock <= timer + MaxLate
  /\ mode = "idle" /\ started >= 0 => timer <= started + MaxPoll + Window
  /\ started = -1 => timer = 0
  /\ started > 0 => started - 1 \in reached

\* For every schedule, length of a poll and lateness of a timer: no gap between two windows
\* is longer than a poll takes and a timer is late.
THEOREM GapsAreBounded == Spec => []GapBounded
<1> USE WindowAssumption
<1> DEFINE Slack == MaxPoll + MaxLate
           J == LateInv /\ GapBounded
<1>1. Init => J
  BY DEF Init, LateInv, GapBounded
<1>2. IInv /\ J /\ [Next]_vars => J'
  <2> SUFFICES ASSUME IInv, J, [Next]_vars PROVE J'
    OBVIOUS
  <2>1. CASE StartPoll
    <3>1. \A u \in 0..(clock - 1) : clock - u <= Window => u \in reached'
      BY <2>1 DEF StartPoll, InWindow, IInv, TypeOK
    <3>2. reached \subseteq reached'
      BY <2>1 DEF StartPoll
    <3>3. GapBounded'
      <4> SUFFICES ASSUME NEW t \in 0..(clock - 1), t + Slack < clock
                   PROVE  \E u \in t..(t + Slack) : u \in reached'
        BY <2>1 DEF StartPoll, GapBounded
      <4>1. CASE t + Slack < started
        <5>1. t \in 0..(started - 1) /\ t + MaxPoll + MaxLate < started
              /\ t + MaxPoll + MaxLate = t + Slack
          BY <4>1 DEF IInv, TypeOK
        <5>2. GapBounded
          OBVIOUS
        <5>3. \E u \in t..(t + Slack) : u \in reached
          BY <5>1, <5>2 DEF GapBounded
        <5> QED
          BY <3>2, <5>3
      <4>2. CASE clock - (t + Slack) <= Window
        BY <3>1, <4>2 DEF IInv, TypeOK
      <4>3. CASE t + Slack >= started /\ clock - (t + Slack) > Window
        <5>1. started > 0 /\ t < started
          BY <2>1, <4>3 DEF StartPoll, LateInv, IInv, TypeOK
        <5>2. started - 1 \in t..(t + Slack) /\ started - 1 \in reached'
          BY <3>2, <4>3, <5>1 DEF LateInv, IInv, TypeOK
        <5> QED
          BY <5>2
      <4> QED
        BY <4>1, <4>2, <4>3 DEF IInv, TypeOK
    <3>4. LateInv'
      <4>1. clock > 0 => clock - 1 \in reached'
        BY <3>1 DEF IInv, TypeOK
      <4> QED
        BY <2>1, <4>1 DEF StartPoll, LateInv, IInv, TypeOK
    <3> QED
      BY <3>3, <3>4
  <2>2. CASE EndPoll
    BY <2>2 DEF EndPoll, LateInv, GapBounded, IInv, TypeOK, PauseInv
  <2>3. CASE Tick
    BY <2>3 DEF Tick, LateInv, GapBounded, IInv, TypeOK
  <2>4. CASE UNCHANGED vars
    BY <2>4 DEF vars, LateInv, GapBounded
  <2> QED
    BY <2>1, <2>2, <2>3, <2>4 DEF Next
<1> QED
  BY <1>1, <1>2, Invariance, PTL DEF Spec
=============================================================================
