---------------------------- MODULE PollWindow ------------------------------
(***************************************************************************)
(* When the poller daemon sees a cron as due.  poll() takes NOW() once, at *)
(* its start, and a cron is due if its last fire before that lies at most  *)
(* POLL_WINDOW_MS back.  The next poll is scheduled POLL_WINDOW_MS after   *)
(* the end of this one, so the window is as long as the pause between two  *)
(* polls and not as long as their period.                                  *)
(***************************************************************************)
EXTENDS Integers

CONSTANTS
  Fires,     \* the instants at which the schedule of the cron fires
  Window,    \* POLL_WINDOW_MS, the window and the pause between polls
  MaxPoll,   \* bound on how long a poll takes
  MaxLate,   \* bound on how late a timer may be
  MaxTime    \* bound on the clock

ASSUME WindowAssumption ==
  /\ Fires \subseteq Nat
  /\ Window \in Nat \ {0}
  /\ MaxPoll \in Nat /\ MaxLate \in Nat /\ MaxTime \in Nat

VARIABLES
  clock,
  mode,      \* whether a poll is running
  timer,     \* when the next poll is scheduled, if none is running
  started,   \* NOW() of the last poll, -1 before the first
  seen,      \* seen[f]: how many polls took fire f as the last one and as due
  reached    \* the instants that were within the window of some poll

vars == <<clock, mode, timer, started, seen, reached>>

TypeOK ==
  /\ clock \in Nat
  /\ mode \in {"idle", "polling"}
  /\ timer \in Nat
  /\ started \in Nat \cup {-1}
  /\ seen \in [Fires -> Nat]
  /\ reached \subseteq Nat

Init ==
  /\ clock = 0
  /\ mode = "idle"
  /\ timer = 0
  /\ started = -1
  /\ seen = [f \in Fires |-> 0]
  /\ reached = {}

-----------------------------------------------------------------------------
\* Mutant: the window is twice the pause between polls.
WideWindow(f) == f < clock /\ clock - f <= 2 * Window

\* Mutant: a fire that lies exactly a window back is not in it.
OpenWindow(f) == f < clock /\ clock - f < Window

\* The instants the window reaches, seen from now.
InWindow(f) == f < clock /\ clock - f <= Window

\* cron-parser's prev(): the last fire strictly before now.
PrevFire(f) == f < clock /\ \A g \in Fires : g < clock => g <= f

Due(f) == PrevFire(f) /\ InWindow(f)

StartPoll ==
  /\ mode = "idle"
  /\ timer <= clock
  /\ mode' = "polling"
  /\ started' = clock
  /\ seen' = [f \in Fires |-> IF Due(f) THEN seen[f] + 1 ELSE seen[f]]
  /\ reached' = reached \cup {t \in 0..clock : InWindow(t)}
  /\ UNCHANGED <<clock, timer>>

\* Mutant: the delay is counted back from the start of the poll.
EndPollDrift ==
  /\ mode = "polling"
  /\ mode' = "idle"
  /\ timer' = started - Window
  /\ UNCHANGED <<clock, started, seen, reached>>

\* setTimeout(loop, POLL_WINDOW_MS) after poll() has returned.
EndPoll ==
  /\ mode = "polling"
  /\ mode' = "idle"
  /\ timer' = clock + Window
  /\ UNCHANGED <<clock, started, seen, reached>>

Tick ==
  /\ clock < MaxTime
  /\ IF mode = "polling" THEN clock < started + MaxPoll ELSE clock < timer + MaxLate
  /\ clock' = clock + 1
  /\ UNCHANGED <<mode, timer, started, seen, reached>>

Next == StartPoll \/ EndPoll \/ Tick

Spec == Init /\ [][Next]_vars

-----------------------------------------------------------------------------
\* One daemon takes no fire twice, however long its polls take and however late its
\* timers are: what gates 1 to 3 must prevent is only a second daemon, or a restart.
SeenOnce == \A f \in Fires : seen[f] <= 1

\* Two windows are never further apart than a poll may take and a timer may be late:
\* among any MaxPoll + MaxLate + 1 instants in a row before the last poll, some poll had
\* one in its window.
GapBounded ==
  \A t \in 0..(started - 1) : t + MaxPoll + MaxLate < started
                => \E u \in t..(t + MaxPoll + MaxLate) : u \in reached
=============================================================================
