------------------------- MODULE DispatchRunsProofs -------------------------
(***************************************************************************)
(* What a dispatch may rely on, for any number of commands, dispatches and *)
(* faults.                                                                 *)
(*                                                                         *)
(* The argument: until something crosses that no check keeps apart, the    *)
(* commands, the outer session, the loop and the orphan job take turns     *)
(* (Apart), so nobody takes the worktree or the row away between the step  *)
(* that made sure of it and the step that relies on it.  That the .env     *)
(* names the row needs no such condition: only the one outer session makes *)
(* rows and writes the .env.  The last section follows a dispatch from its *)
(* first step to the loop.                                                 *)
(***************************************************************************)
EXTENDS DispatchRuns, TLAPS

Provisioned == wrapper.pc \in {"skill", "env", "check", "launch"}

\* Who is under way excludes who else is, until something has crossed.
Apart ==
  crossed = "none" =>
    /\ \A c, d \in Commands : Busy(c) /\ Busy(d) => c = d
    /\ AnyBusy => wrapper = NoWrapper /\ loop = NoLoop /\ ~sweep
    /\ wrapper # NoWrapper => loop = NoLoop /\ ~sweep
    /\ loop # NoLoop => ~sweep

\* What the outer session knows of the worktree and of the row.
WrapperKnows ==
  /\ wrapper.pc = "row" => tree.env = 0
  /\ Provisioned /\ row # NoRow => row.id = wrapper.id
  /\ (Provisioned \/ wrapper.pc = "row") /\ crossed = "none" => tree.there
  /\ wrapper.pc \in {"check", "launch"} /\ crossed = "none" => tree.env = wrapper.id
  /\ wrapper.pc = "launch" /\ ~wrapper.blind /\ crossed = "none" => IsRow(wrapper.id)

IInv == TypeOK /\ Apart /\ WrapperKnows /\ EnvNamesRow /\ LoopOwnsTree /\ LoopHasRow

-----------------------------------------------------------------------------
\* The type invariant in two parts: what the records look like, and the counters.
Shapes ==
  /\ cmd \in [Commands -> {"idle", "pruneTree", "pruneRow", "open"}]
  /\ wrapper \in Wrappers
  /\ wrapper.pc \in {"skill", "env", "check", "launch"} => wrapper.id # 0
  /\ loop \in Loops
  /\ loop.pc # "none" => loop.id # 0
  /\ tree \in Trees
  /\ row \in Rows \cup {NoRow}
  /\ sweep \in BOOLEAN
  /\ crossed \in Crossings \cup {"none"}

Numbers == ids \in Nat /\ launched \in 0..MaxLaunches /\ faults \in 0..MaxFaults

\* The null records have the types, and nobody is at work in them.
LEMMA Nulls ==
  /\ NoWrapper \in Wrappers /\ NoWrapper.pc = "none"
  /\ Started \in Wrappers /\ Started.pc = "tree"
  /\ NoLoop \in Loops /\ NoLoop.pc = "none"
  /\ NoTree \in Trees /\ NoTree.env = 0
  /\ NoRow.id = 0 /\ NoRow.status = "none" /\ NoRow \notin Rows
  BY DEF NoWrapper, At, Wrappers, Started, NoLoop, Loops, NoTree, Trees, NoRow, Rows, Ids

\* The outer session after a step, and a worktree that is there.
LEMMA WrapperAt ==
  ASSUME NEW pc \in {"none", "tree", "row", "skill", "env", "check", "launch"},
         NEW id \in Nat, NEW blind \in BOOLEAN
  PROVE  /\ At(pc, id, blind) \in Wrappers
         /\ At(pc, id, blind).pc = pc /\ At(pc, id, blind).id = id /\ At(pc, id, blind).blind = blind
  BY DEF At, Wrappers

LEMMA TreeSet ==
  ASSUME NEW t \in Trees
  PROVE  [t EXCEPT !.there = TRUE] \in Trees /\ [t EXCEPT !.there = TRUE].env = t.env
  BY DEF Trees

LEMMA TypeParts == TypeOK <=> Shapes /\ Numbers
  BY DEF TypeOK, Shapes, Numbers

\* Beginning a dispatch changes nothing but the place of the command.
LEMMA Begins ==
  ASSUME NEW c \in Commands, Execute(c) \/ ExecuteAnyway(c)
  PROVE  /\ cmd' = [cmd EXCEPT ![c] = "pruneTree"]
         /\ UNCHANGED <<wrapper, loop, tree, row, ids, launched, sweep>>
         /\ faults' = faults \/ (faults < MaxFaults /\ faults' = faults + 1)
         /\ crossed' = "none" => crossed = "none" /\ wrapper = NoWrapper /\ Meets = "none"
         /\ crossed' \in {crossed, "loop", "commands", "orphans", "probe"}
<1>1. CASE Execute(c)
  BY <1>1 DEF Execute, Dispatching, Goto, Cross, Meets, Fault, NoFault
<1>2. CASE ExecuteAnyway(c)
  BY <1>2 DEF ExecuteAnyway, Goto, Cross, Fault
<1> QED
  BY <1>1, <1>2

LEMMA GoalBegins ==
  ASSUME NEW c \in Commands, ExecuteGoal(c)
  PROVE  /\ wrapper = NoWrapper /\ wrapper' = Started
         /\ UNCHANGED <<cmd, loop, tree, row, ids, launched, sweep>>
         /\ faults' = faults \/ (faults < MaxFaults /\ faults' = faults + 1)
         /\ crossed' = "none" => crossed = "none" /\ Meets = "none"
         /\ crossed' \in {crossed, "loop", "commands", "orphans"}
  BY DEF ExecuteGoal, Dispatching, Cross, Meets, Fault, NoFault

\* Nobody is met only if nobody is there.
LEMMA MeetsNobody ==
  Meets = "none" => loop = NoLoop /\ ~AnyBusy /\ ~sweep
  BY DEF Meets

\* Every step keeps the records in shape.
LEMMA ShapesStep ==
  Shapes /\ Numbers /\ [Next]_vars => Shapes'
<1> SUFFICES ASSUME Shapes, Numbers, [Next]_vars
             PROVE  Shapes'
  OBVIOUS
<1> USE Nulls DEF Shapes, Numbers, Fault, NoFault
<1>1. ASSUME NEW c \in Commands, Execute(c) PROVE Shapes'
  BY <1>1, Begins DEF Crossings
<1>2. ASSUME NEW c \in Commands, ExecuteAnyway(c) PROVE Shapes'
  BY <1>2, Begins DEF Crossings
<1>3. ASSUME NEW c \in Commands, ExecuteGoal(c) PROVE Shapes'
  BY <1>3, GoalBegins DEF Crossings
<1>4. ASSUME NEW c \in Commands, PruneTree(c) PROVE Shapes'
  BY <1>4 DEF PruneTree, Goto
<1>5. ASSUME NEW c \in Commands, PruneRow(c) PROVE Shapes'
  BY <1>5 DEF PruneRow, Stale, Goto
<1>6. ASSUME NEW c \in Commands, Open(c) PROVE Shapes'
  BY <1>6 DEF Open, Goto
<1>7. CASE ProvisionTree
  <2>1. At(IF tree.env = 0 THEN "row" ELSE "skill", tree.env, FALSE) \in Wrappers
    BY DEF At, Wrappers, Trees
  <2>2. At(IF tree.env = 0 THEN "row" ELSE "skill", tree.env, FALSE).pc = (IF tree.env = 0 THEN "row" ELSE "skill")
        /\ At(IF tree.env = 0 THEN "row" ELSE "skill", tree.env, FALSE).id = tree.env
    BY DEF At
  <2>3. tree' \in Trees
    BY <1>7, TreeSet DEF ProvisionTree
  <2>4. wrapper' \in Wrappers /\ (wrapper'.pc \in {"skill", "env", "check", "launch"} => wrapper'.id # 0)
    BY <1>7, <2>1, <2>2 DEF ProvisionTree, Throws
  <2> QED
    BY <1>7, <2>3, <2>4 DEF ProvisionTree, WrapperQuiet
<1>8. CASE ProvisionRow
  <2>1. ids + 1 \in Nat /\ ids + 1 # 0
    BY DEF Numbers
  <2>2. [id |-> ids + 1, status |-> "pending"] \in Rows
    BY <2>1 DEF Rows, Ids
  <2>3. At("skill", ids + 1, FALSE) \in Wrappers /\ At("skill", ids + 1, FALSE).id # 0
    BY <2>1, WrapperAt
  <2>4. wrapper' = NoWrapper \/ wrapper' = At("skill", ids + 1, FALSE)
    BY <1>8 DEF ProvisionRow, Throws
  <2>5. row' = row \/ row' = [id |-> ids + 1, status |-> "pending"]
    BY <1>8 DEF ProvisionRow
  <2>6. wrapper' \in Wrappers /\ (wrapper'.pc \in {"skill", "env", "check", "launch"} => wrapper'.id # 0)
    BY <2>3, <2>4
  <2>7. row' \in Rows \cup {NoRow}
    BY <2>2, <2>5
  <2> QED
    BY <1>8, <2>6, <2>7 DEF ProvisionRow
<1>9. CASE ProvisionRest
  <2>1. wrapper.id \in Nat /\ wrapper.id # 0
    BY <1>9 DEF ProvisionRest, Wrappers
  <2>3. At("env", wrapper.id, FALSE) \in Wrappers
    BY <2>1, WrapperAt
  <2>4. At("env", wrapper.id, FALSE).id # 0
    BY <2>1, WrapperAt
  <2>5. wrapper' = NoWrapper \/ wrapper' = At("env", wrapper.id, FALSE)
    BY <1>9 DEF ProvisionRest, Throws
  <2>2. wrapper' \in Wrappers /\ (wrapper'.pc \in {"skill", "env", "check", "launch"} => wrapper'.id # 0)
    BY <2>3, <2>4, <2>5
  <2> QED
    BY <1>9, <2>2 DEF ProvisionRest, WrapperQuiet
<1>10. CASE WriteEnv
  BY <1>10 DEF WriteEnv, WrapperQuiet, At, Wrappers, Trees
<1>11. CASE CheckStatus
  <2>1. wrapper.id \in Nat /\ wrapper.id # 0
    BY <1>11 DEF CheckStatus, Wrappers
  <2>3. At("launch", wrapper.id, FALSE) \in Wrappers /\ At("launch", wrapper.id, TRUE) \in Wrappers
    BY <2>1, WrapperAt
  <2>4. At("launch", wrapper.id, FALSE).id # 0 /\ At("launch", wrapper.id, TRUE).id # 0
    BY <2>1, WrapperAt
  <2>5. wrapper' = NoWrapper \/ wrapper' = At("launch", wrapper.id, FALSE) \/ wrapper' = At("launch", wrapper.id, TRUE)
    BY <1>11 DEF CheckStatus, Throws
  <2>2. wrapper' \in Wrappers /\ (wrapper'.pc \in {"skill", "env", "check", "launch"} => wrapper'.id # 0)
    BY <2>3, <2>4, <2>5
  <2> QED
    BY <1>11, <2>2 DEF CheckStatus, WrapperQuiet
<1>12. CASE LaunchLoop
  <2>1. [pc |-> "run", id |-> wrapper.id, blind |-> wrapper.blind, act |-> FALSE, exit |-> 0] \in Loops
    BY DEF Wrappers, Loops
  <2>2. IsRow(wrapper.id) => [row EXCEPT !.status = "failed"] \in Rows
    BY DEF IsRow, Rows
  <2>3. wrapper.id # 0 /\ wrapper' = NoWrapper
    BY <1>12 DEF LaunchLoop, Throws
  <2>4. row' \in Rows \cup {NoRow}
    BY <1>12, <2>2 DEF LaunchLoop
  <2>5. loop' \in Loops /\ (loop'.pc # "none" => loop'.id # 0)
    <3>1. CASE loop' = loop
      BY <3>1
    <3>2. CASE loop' = [pc |-> "run", id |-> wrapper.id, blind |-> wrapper.blind, act |-> FALSE, exit |-> 0]
      BY <2>1, <2>3, <3>2
    <3> QED
      BY <1>12, <3>1, <3>2 DEF LaunchLoop
  <2> QED
    BY <1>12, <2>3, <2>4, <2>5 DEF LaunchLoop
<1>13. CASE WrapperDies
  BY <1>13 DEF WrapperDies, WrapperQuiet, Throws
<1>14. CASE Activate
  BY <1>14 DEF Activate, LoopQuiet, Mark, IsRow, Loops, Rows
<1>15. CASE LoopExits
  BY <1>15 DEF LoopExits, LoopQuiet, IsRow, Loops, Rows
<1>16. CASE Settle
  BY <1>16 DEF Settle, LoopQuiet, Mark, IsRow, Loops, Rows
<1>17. CASE Teardown
  BY <1>17 DEF Teardown, LoopQuiet
<1>18. CASE LoopDies
  BY <1>18 DEF LoopDies, LoopQuiet
<1>19. CASE Reap
  BY <1>19 DEF Reap, Rows
<1>20. CASE UserFails
  BY <1>20 DEF UserFails, Rows
<1>21. CASE OrphanFails
  BY <1>21 DEF OrphanFails, Cross, Rows, Crossings
<1>22. CASE OrphanTeardown
  BY <1>22 DEF OrphanTeardown
<1>23. CASE UNCHANGED vars
  BY <1>23 DEF vars, IsRow
<1> QED
  BY <1>1, <1>2, <1>3, <1>4, <1>5, <1>6, <1>7, <1>8, <1>9, <1>10, <1>11, <1>12, <1>13, <1>14, <1>15, <1>16, <1>17, <1>18, <1>19, <1>20, <1>21, <1>22, <1>23 DEF Next, CommandStep, WrapperStep, LoopStep

\* The bounds hold by the guards that name them.
LEMMA NumbersStep ==
  Numbers /\ [Next]_vars => Numbers'
<1> SUFFICES ASSUME Numbers, [Next]_vars
             PROVE  Numbers'
  OBVIOUS
<1> USE DispatchAssumption DEF Numbers, At, NoWrapper, NoLoop, NoTree, NoRow, Ids, Wrappers, Loops, Trees, Rows, Fault, NoFault
<1>1. ASSUME NEW c \in Commands, Execute(c) PROVE Numbers'
  BY <1>1, Begins
<1>2. ASSUME NEW c \in Commands, ExecuteAnyway(c) PROVE Numbers'
  BY <1>2, Begins
<1>3. ASSUME NEW c \in Commands, ExecuteGoal(c) PROVE Numbers'
  BY <1>3, GoalBegins
<1>4. ASSUME NEW c \in Commands, PruneTree(c) PROVE Numbers'
  BY <1>4 DEF PruneTree, Goto
<1>5. ASSUME NEW c \in Commands, PruneRow(c) PROVE Numbers'
  BY <1>5 DEF PruneRow, Stale, Goto
<1>6. ASSUME NEW c \in Commands, Open(c) PROVE Numbers'
  BY <1>6 DEF Open, Goto
<1>7. CASE ProvisionTree
  BY <1>7 DEF ProvisionTree, WrapperQuiet, Throws
<1>8. CASE ProvisionRow
  BY <1>8 DEF ProvisionRow, Throws
<1>9. CASE ProvisionRest
  BY <1>9 DEF ProvisionRest, WrapperQuiet, Throws
<1>10. CASE WriteEnv
  BY <1>10 DEF WriteEnv, WrapperQuiet
<1>11. CASE CheckStatus
  BY <1>11 DEF CheckStatus, WrapperQuiet, Throws, IsRow
<1>12. CASE LaunchLoop
  BY <1>12 DEF LaunchLoop, Throws, IsRow
<1>13. CASE WrapperDies
  BY <1>13 DEF WrapperDies, WrapperQuiet, Throws
<1>14. CASE Activate
  BY <1>14 DEF Activate, LoopQuiet, Mark, IsRow
<1>15. CASE LoopExits
  BY <1>15 DEF LoopExits, LoopQuiet, IsRow
<1>16. CASE Settle
  BY <1>16 DEF Settle, LoopQuiet, Mark, IsRow
<1>17. CASE Teardown
  BY <1>17 DEF Teardown, LoopQuiet
<1>18. CASE LoopDies
  BY <1>18 DEF LoopDies, LoopQuiet
<1>19. CASE Reap
  BY <1>19 DEF Reap
<1>20. CASE UserFails
  BY <1>20 DEF UserFails
<1>21. CASE OrphanFails
  BY <1>21 DEF OrphanFails, Cross
<1>22. CASE OrphanTeardown
  BY <1>22 DEF OrphanTeardown
<1>23. CASE UNCHANGED vars
  BY <1>23 DEF vars, IsRow
<1> QED
  BY <1>1, <1>2, <1>3, <1>4, <1>5, <1>6, <1>7, <1>8, <1>9, <1>10, <1>11, <1>12, <1>13, <1>14, <1>15, <1>16, <1>17, <1>18, <1>19, <1>20, <1>21, <1>22, <1>23 DEF Next, CommandStep, WrapperStep, LoopStep

\* Every step keeps commands, sessions, loop and orphan job apart.
LEMMA ApartStep ==
  TypeOK /\ Apart /\ [Next]_vars => Apart'
<1> SUFFICES ASSUME TypeOK, Apart, [Next]_vars
             PROVE  Apart'
  OBVIOUS
<1> USE Nulls DEF TypeOK, Apart, AnyBusy, Busy, Fault, NoFault
<1>1. ASSUME NEW c \in Commands, Execute(c) PROVE Apart'
  <2> SUFFICES ASSUME crossed' = "none" PROVE Apart'
    BY DEF Apart
  <2>1. ~AnyBusy /\ wrapper = NoWrapper /\ loop = NoLoop /\ ~sweep
    BY <1>1, Begins, MeetsNobody
  <2>2. \A d \in Commands : d # c => ~Busy(d)'
    BY <1>1, <2>1, Begins DEF AnyBusy, Busy
  <2>3. UNCHANGED <<wrapper, loop, sweep>>
    BY <1>1, Begins
  <2> QED
    BY <2>1, <2>2, <2>3 DEF Apart
<1>2. ASSUME NEW c \in Commands, ExecuteAnyway(c) PROVE Apart'
  <2> SUFFICES ASSUME crossed' = "none" PROVE Apart'
    BY DEF Apart
  <2>1. ~AnyBusy /\ wrapper = NoWrapper /\ loop = NoLoop /\ ~sweep
    BY <1>2, Begins, MeetsNobody
  <2>2. \A d \in Commands : d # c => ~Busy(d)'
    BY <1>2, <2>1, Begins DEF AnyBusy, Busy
  <2>3. UNCHANGED <<wrapper, loop, sweep>>
    BY <1>2, Begins
  <2> QED
    BY <2>1, <2>2, <2>3 DEF Apart
<1>3. ASSUME NEW c \in Commands, ExecuteGoal(c) PROVE Apart'
  <2> SUFFICES ASSUME crossed' = "none" PROVE Apart'
    BY DEF Apart
  <2>1. ~AnyBusy /\ loop = NoLoop /\ ~sweep /\ UNCHANGED <<cmd, loop, sweep>>
    BY <1>3, GoalBegins, MeetsNobody
  <2> QED
    BY <2>1 DEF Apart, AnyBusy, Busy
<1>4. ASSUME NEW c \in Commands, PruneTree(c) PROVE Apart'
  <2>1. Busy(c) /\ cmd' = [cmd EXCEPT ![c] = "pruneRow"] /\ UNCHANGED <<wrapper, loop, sweep, crossed>>
    BY <1>4 DEF PruneTree, Goto, Busy
  <2>2. \A d \in Commands : Busy(d)' => Busy(d)
    BY <2>1 DEF Busy
  <2> QED
    BY <2>1, <2>2 DEF Apart, AnyBusy
<1>5. ASSUME NEW c \in Commands, PruneRow(c) PROVE Apart'
  <2>1. Busy(c) /\ cmd' = [cmd EXCEPT ![c] = "open"] /\ UNCHANGED <<wrapper, loop, sweep, crossed>>
    BY <1>5 DEF PruneRow, Goto, Busy
  <2>2. \A d \in Commands : Busy(d)' => Busy(d)
    BY <2>1 DEF Busy
  <2> QED
    BY <2>1, <2>2 DEF Apart, AnyBusy
<1>6. ASSUME NEW c \in Commands, Open(c) PROVE Apart'
  <2>1. Busy(c) /\ cmd' = [cmd EXCEPT ![c] = "idle"] /\ UNCHANGED <<loop, sweep, crossed>>
    BY <1>6 DEF Open, Goto, Busy
  <2>2. \A d \in Commands : Busy(d)' => Busy(d) /\ d # c
    BY <2>1 DEF Busy
  <2>3. crossed = "none" => ~AnyBusy' /\ loop = NoLoop /\ ~sweep
    BY <2>1, <2>2 DEF Apart, AnyBusy
  <2> QED
    BY <2>1, <2>3, <2>2 DEF Apart, AnyBusy
<1>7. CASE ProvisionTree
  BY <1>7 DEF ProvisionTree, WrapperQuiet, Throws, At
<1>8. CASE ProvisionRow
  BY <1>8 DEF ProvisionRow, Throws, At
<1>9. CASE ProvisionRest
  BY <1>9 DEF ProvisionRest, WrapperQuiet, Throws, At
<1>10. CASE WriteEnv
  BY <1>10 DEF WriteEnv, WrapperQuiet, At
<1>11. CASE CheckStatus
  BY <1>11 DEF CheckStatus, WrapperQuiet, Throws, IsRow, At
<1>12. CASE LaunchLoop
  BY <1>12 DEF LaunchLoop, Throws, IsRow
<1>13. CASE WrapperDies
  BY <1>13 DEF WrapperDies, WrapperQuiet, Throws
<1>14. CASE Activate
  BY <1>14 DEF Activate, LoopQuiet, Mark, IsRow
<1>15. CASE LoopExits
  BY <1>15 DEF LoopExits, LoopQuiet, IsRow
<1>16. CASE Settle
  BY <1>16 DEF Settle, LoopQuiet, Mark, IsRow
<1>17. CASE Teardown
  BY <1>17 DEF Teardown, LoopQuiet
<1>18. CASE LoopDies
  BY <1>18 DEF LoopDies, LoopQuiet
<1>19. CASE Reap
  BY <1>19 DEF Reap
<1>20. CASE UserFails
  BY <1>20 DEF UserFails
<1>21. CASE OrphanFails
  BY <1>21 DEF OrphanFails, Cross
<1>22. CASE OrphanTeardown
  BY <1>22 DEF OrphanTeardown
<1>23. CASE UNCHANGED vars
  BY <1>23 DEF vars, IsRow, AnyBusy
<1> QED
  BY <1>1, <1>2, <1>3, <1>4, <1>5, <1>6, <1>7, <1>8, <1>9, <1>10, <1>11, <1>12, <1>13, <1>14, <1>15, <1>16, <1>17, <1>18, <1>19, <1>20, <1>21, <1>22, <1>23 DEF Next, CommandStep, WrapperStep, LoopStep

\* What the outer session knows stays true while it is under way.
LEMMA KnowsStep ==
  TypeOK /\ Apart /\ WrapperKnows /\ EnvNamesRow /\ [Next]_vars => WrapperKnows'
<1> SUFFICES ASSUME TypeOK, Apart, WrapperKnows, EnvNamesRow, [Next]_vars
             PROVE  WrapperKnows'
  OBVIOUS
<1> USE Nulls DEF TypeOK, Apart, WrapperKnows, EnvNamesRow, Provisioned, IsRow, Fault, NoFault
<1>1. ASSUME NEW c \in Commands, Execute(c) PROVE WrapperKnows'
  BY <1>1, Begins
<1>2. ASSUME NEW c \in Commands, ExecuteAnyway(c) PROVE WrapperKnows'
  BY <1>2, Begins
<1>3. ASSUME NEW c \in Commands, ExecuteGoal(c) PROVE WrapperKnows'
  BY <1>3, GoalBegins
<1>4. ASSUME NEW c \in Commands, PruneTree(c) PROVE WrapperKnows'
  BY <1>4 DEF PruneTree, Goto, AnyBusy, Busy
<1>5. ASSUME NEW c \in Commands, PruneRow(c) PROVE WrapperKnows'
  BY <1>5 DEF PruneRow, Stale, Goto, AnyBusy, Busy
<1>6. ASSUME NEW c \in Commands, Open(c) PROVE WrapperKnows'
  BY <1>6 DEF Open, Goto
<1>7. CASE ProvisionTree
  BY <1>7 DEF ProvisionTree, WrapperQuiet, Throws, At, Trees
<1>8. CASE ProvisionRow
  BY <1>8 DEF ProvisionRow, Throws, At
<1>9. CASE ProvisionRest
  BY <1>9 DEF ProvisionRest, WrapperQuiet, Throws, At, Wrappers
<1>10. CASE WriteEnv
  BY <1>10 DEF WriteEnv, WrapperQuiet, At, Wrappers
<1>11. CASE CheckStatus
  BY <1>11 DEF CheckStatus, WrapperQuiet, Throws, IsRow, At
<1>12. CASE LaunchLoop
  BY <1>12 DEF LaunchLoop, Throws, IsRow, Rows
<1>13. CASE WrapperDies
  BY <1>13 DEF WrapperDies, WrapperQuiet, Throws
<1>14. CASE Activate
  BY <1>14 DEF Activate, LoopQuiet, Mark, IsRow, Rows
<1>15. CASE LoopExits
  BY <1>15 DEF LoopExits, LoopQuiet, IsRow, Rows
<1>16. CASE Settle
  BY <1>16 DEF Settle, LoopQuiet, Mark, IsRow, Rows
<1>17. CASE Teardown
  BY <1>17 DEF Teardown, LoopQuiet
<1>18. CASE LoopDies
  BY <1>18 DEF LoopDies, LoopQuiet
<1>19. CASE Reap
  BY <1>19 DEF Reap, Rows
<1>20. CASE UserFails
  BY <1>20 DEF UserFails, Rows
<1>21. CASE OrphanFails
  BY <1>21 DEF OrphanFails, Cross, Rows
<1>22. CASE OrphanTeardown
  BY <1>22 DEF OrphanTeardown
<1>23. CASE UNCHANGED vars
  BY <1>23 DEF vars, IsRow
<1> QED
  BY <1>1, <1>2, <1>3, <1>4, <1>5, <1>6, <1>7, <1>8, <1>9, <1>10, <1>11, <1>12, <1>13, <1>14, <1>15, <1>16, <1>17, <1>18, <1>19, <1>20, <1>21, <1>22, <1>23 DEF Next, CommandStep, WrapperStep, LoopStep

\* The .env and the row change together, or one of them goes.
LEMMA EnvStep ==
  TypeOK /\ WrapperKnows /\ EnvNamesRow /\ [Next]_vars => EnvNamesRow'
<1> SUFFICES ASSUME TypeOK, WrapperKnows, EnvNamesRow, [Next]_vars
             PROVE  EnvNamesRow'
  OBVIOUS
<1> USE DispatchAssumption DEF TypeOK, WrapperKnows, EnvNamesRow, Provisioned, IsRow, At, NoWrapper, NoLoop, NoTree, NoRow, Ids, Wrappers, Loops, Trees, Rows, Fault, NoFault
<1>1. ASSUME NEW c \in Commands, Execute(c) PROVE EnvNamesRow'
  BY <1>1, Begins
<1>2. ASSUME NEW c \in Commands, ExecuteAnyway(c) PROVE EnvNamesRow'
  BY <1>2, Begins
<1>3. ASSUME NEW c \in Commands, ExecuteGoal(c) PROVE EnvNamesRow'
  BY <1>3, GoalBegins DEF Started
<1>4. ASSUME NEW c \in Commands, PruneTree(c) PROVE EnvNamesRow'
  BY <1>4 DEF PruneTree, Goto
<1>5. ASSUME NEW c \in Commands, PruneRow(c) PROVE EnvNamesRow'
  BY <1>5 DEF PruneRow, Stale, Goto
<1>6. ASSUME NEW c \in Commands, Open(c) PROVE EnvNamesRow'
  BY <1>6 DEF Open, Goto, Started
<1>7. CASE ProvisionTree
  BY <1>7 DEF ProvisionTree, WrapperQuiet, Throws
<1>8. CASE ProvisionRow
  BY <1>8 DEF ProvisionRow, Throws
<1>9. CASE ProvisionRest
  BY <1>9 DEF ProvisionRest, WrapperQuiet, Throws
<1>10. CASE WriteEnv
  BY <1>10 DEF WriteEnv, WrapperQuiet
<1>11. CASE CheckStatus
  BY <1>11 DEF CheckStatus, WrapperQuiet, Throws, IsRow
<1>12. CASE LaunchLoop
  BY <1>12 DEF LaunchLoop, Throws, IsRow
<1>13. CASE WrapperDies
  BY <1>13 DEF WrapperDies, WrapperQuiet, Throws
<1>14. CASE Activate
  BY <1>14 DEF Activate, LoopQuiet, Mark, IsRow
<1>15. CASE LoopExits
  BY <1>15 DEF LoopExits, LoopQuiet, IsRow
<1>16. CASE Settle
  BY <1>16 DEF Settle, LoopQuiet, Mark, IsRow
<1>17. CASE Teardown
  BY <1>17 DEF Teardown, LoopQuiet
<1>18. CASE LoopDies
  BY <1>18 DEF LoopDies, LoopQuiet
<1>19. CASE Reap
  BY <1>19 DEF Reap
<1>20. CASE UserFails
  BY <1>20 DEF UserFails
<1>21. CASE OrphanFails
  BY <1>21 DEF OrphanFails, Cross
<1>22. CASE OrphanTeardown
  BY <1>22 DEF OrphanTeardown
<1>23. CASE UNCHANGED vars
  BY <1>23 DEF vars, IsRow
<1> QED
  BY <1>1, <1>2, <1>3, <1>4, <1>5, <1>6, <1>7, <1>8, <1>9, <1>10, <1>11, <1>12, <1>13, <1>14, <1>15, <1>16, <1>17, <1>18, <1>19, <1>20, <1>21, <1>22, <1>23 DEF Next, CommandStep, WrapperStep, LoopStep

\* Nobody touches the worktree of a loop before something has crossed.
LEMMA TreeStep ==
  TypeOK /\ Apart /\ WrapperKnows /\ LoopOwnsTree /\ [Next]_vars => LoopOwnsTree'
<1> SUFFICES ASSUME TypeOK, Apart, WrapperKnows, LoopOwnsTree, [Next]_vars
             PROVE  LoopOwnsTree'
  OBVIOUS
<1> USE DispatchAssumption DEF TypeOK, Apart, WrapperKnows, LoopOwnsTree, LoopRunning, At, NoWrapper, NoLoop, NoTree, NoRow, Ids, Wrappers, Loops, Trees, Rows, Fault, NoFault
<1>1. ASSUME NEW c \in Commands, Execute(c) PROVE LoopOwnsTree'
  BY <1>1, Begins
<1>2. ASSUME NEW c \in Commands, ExecuteAnyway(c) PROVE LoopOwnsTree'
  BY <1>2, Begins
<1>3. ASSUME NEW c \in Commands, ExecuteGoal(c) PROVE LoopOwnsTree'
  BY <1>3, GoalBegins DEF Started
<1>4. ASSUME NEW c \in Commands, PruneTree(c) PROVE LoopOwnsTree'
  BY <1>4 DEF PruneTree, Goto, AnyBusy, Busy
<1>5. ASSUME NEW c \in Commands, PruneRow(c) PROVE LoopOwnsTree'
  BY <1>5 DEF PruneRow, Stale, Goto, AnyBusy, Busy
<1>6. ASSUME NEW c \in Commands, Open(c) PROVE LoopOwnsTree'
  BY <1>6 DEF Open, Goto, Started
<1>7. CASE ProvisionTree
  BY <1>7 DEF ProvisionTree, WrapperQuiet, Throws
<1>8. CASE ProvisionRow
  BY <1>8 DEF ProvisionRow, Throws
<1>9. CASE ProvisionRest
  BY <1>9 DEF ProvisionRest, WrapperQuiet, Throws
<1>10. CASE WriteEnv
  BY <1>10 DEF WriteEnv, WrapperQuiet
<1>11. CASE CheckStatus
  BY <1>11 DEF CheckStatus, WrapperQuiet, Throws, IsRow
<1>12. CASE LaunchLoop
  BY <1>12 DEF LaunchLoop, Throws, IsRow, Provisioned
<1>13. CASE WrapperDies
  BY <1>13 DEF WrapperDies, WrapperQuiet, Throws
<1>14. CASE Activate
  BY <1>14 DEF Activate, LoopQuiet, Mark, IsRow
<1>15. CASE LoopExits
  BY <1>15 DEF LoopExits, LoopQuiet, IsRow
<1>16. CASE Settle
  BY <1>16 DEF Settle, LoopQuiet, Mark, IsRow
<1>17. CASE Teardown
  BY <1>17 DEF Teardown, LoopQuiet
<1>18. CASE LoopDies
  BY <1>18 DEF LoopDies, LoopQuiet
<1>19. CASE Reap
  BY <1>19 DEF Reap
<1>20. CASE UserFails
  BY <1>20 DEF UserFails
<1>21. CASE OrphanFails
  BY <1>21 DEF OrphanFails, Cross
<1>22. CASE OrphanTeardown
  BY <1>22 DEF OrphanTeardown
<1>23. CASE UNCHANGED vars
  BY <1>23 DEF vars, IsRow
<1> QED
  BY <1>1, <1>2, <1>3, <1>4, <1>5, <1>6, <1>7, <1>8, <1>9, <1>10, <1>11, <1>12, <1>13, <1>14, <1>15, <1>16, <1>17, <1>18, <1>19, <1>20, <1>21, <1>22, <1>23 DEF Next, CommandStep, WrapperStep, LoopStep

\* Nobody deletes the row of a loop before something has crossed.
LEMMA RowStep ==
  TypeOK /\ Apart /\ WrapperKnows /\ LoopHasRow /\ [Next]_vars => LoopHasRow'
<1> SUFFICES ASSUME TypeOK, Apart, WrapperKnows, LoopHasRow, [Next]_vars
             PROVE  LoopHasRow'
  OBVIOUS
<1> USE DispatchAssumption DEF TypeOK, Apart, WrapperKnows, LoopHasRow, LoopRunning, IsRow, At, NoWrapper, NoLoop, NoTree, NoRow, Ids, Wrappers, Loops, Trees, Rows, Fault, NoFault
<1>1. ASSUME NEW c \in Commands, Execute(c) PROVE LoopHasRow'
  BY <1>1, Begins
<1>2. ASSUME NEW c \in Commands, ExecuteAnyway(c) PROVE LoopHasRow'
  BY <1>2, Begins
<1>3. ASSUME NEW c \in Commands, ExecuteGoal(c) PROVE LoopHasRow'
  BY <1>3, GoalBegins DEF Started
<1>4. ASSUME NEW c \in Commands, PruneTree(c) PROVE LoopHasRow'
  BY <1>4 DEF PruneTree, Goto, AnyBusy, Busy
<1>5. ASSUME NEW c \in Commands, PruneRow(c) PROVE LoopHasRow'
  BY <1>5 DEF PruneRow, Stale, Goto, AnyBusy, Busy
<1>6. ASSUME NEW c \in Commands, Open(c) PROVE LoopHasRow'
  BY <1>6 DEF Open, Goto, Started
<1>7. CASE ProvisionTree
  BY <1>7 DEF ProvisionTree, WrapperQuiet, Throws
<1>8. CASE ProvisionRow
  BY <1>8 DEF ProvisionRow, Throws
<1>9. CASE ProvisionRest
  BY <1>9 DEF ProvisionRest, WrapperQuiet, Throws
<1>10. CASE WriteEnv
  BY <1>10 DEF WriteEnv, WrapperQuiet
<1>11. CASE CheckStatus
  BY <1>11 DEF CheckStatus, WrapperQuiet, Throws, IsRow
<1>12. CASE LaunchLoop
  BY <1>12 DEF LaunchLoop, Throws, IsRow, Provisioned
<1>13. CASE WrapperDies
  BY <1>13 DEF WrapperDies, WrapperQuiet, Throws
<1>14. CASE Activate
  BY <1>14 DEF Activate, LoopQuiet, Mark, IsRow
<1>15. CASE LoopExits
  BY <1>15 DEF LoopExits, LoopQuiet, IsRow
<1>16. CASE Settle
  BY <1>16 DEF Settle, LoopQuiet, Mark, IsRow
<1>17. CASE Teardown
  BY <1>17 DEF Teardown, LoopQuiet
<1>18. CASE LoopDies
  BY <1>18 DEF LoopDies, LoopQuiet
<1>19. CASE Reap
  BY <1>19 DEF Reap
<1>20. CASE UserFails
  BY <1>20 DEF UserFails
<1>21. CASE OrphanFails
  BY <1>21 DEF OrphanFails, Cross
<1>22. CASE OrphanTeardown
  BY <1>22 DEF OrphanTeardown
<1>23. CASE UNCHANGED vars
  BY <1>23 DEF vars, IsRow
<1> QED
  BY <1>1, <1>2, <1>3, <1>4, <1>5, <1>6, <1>7, <1>8, <1>9, <1>10, <1>11, <1>12, <1>13, <1>14, <1>15, <1>16, <1>17, <1>18, <1>19, <1>20, <1>21, <1>22, <1>23 DEF Next, CommandStep, WrapperStep, LoopStep

LEMMA Invariant == Spec => []IInv
<1>1. Init => IInv
  <2> SUFFICES ASSUME Init PROVE IInv
    OBVIOUS
  <2>1. Shapes
    BY Nulls DEF Init, Shapes
  <2>2. Numbers
    BY DispatchAssumption DEF Init, Numbers
  <2>3. Apart /\ WrapperKnows /\ EnvNamesRow /\ LoopOwnsTree /\ LoopHasRow
    BY Nulls, DispatchAssumption DEF Init, Apart, AnyBusy, Busy, WrapperKnows, Provisioned, EnvNamesRow, LoopOwnsTree, LoopHasRow, LoopRunning
  <2> QED
    BY <2>1, <2>2, <2>3, TypeParts DEF IInv
<1>2. IInv /\ [Next]_vars => IInv'
  <2> SUFFICES ASSUME IInv, [Next]_vars PROVE IInv'
    OBVIOUS
  <2>1. TypeOK'
    <3>1. Shapes' /\ Numbers'
      BY TypeParts, ShapesStep, NumbersStep DEF IInv
    <3> QED
      BY <3>1 DEF TypeOK, Shapes, Numbers
  <2> QED
    BY <2>1, ApartStep, KnowsStep, EnvStep, TreeStep, RowStep DEF IInv
<1> QED
  BY <1>1, <1>2, PTL DEF Spec

-----------------------------------------------------------------------------
\* Commands, sessions, worktree and row keep their shape, and an outer session past the provisioning
\* of the row has an id, whatever crosses.
THEOREM TypeCorrect == Spec => []TypeOK
<1>1. IInv => TypeOK
  BY DEF IInv
<1> QED
  BY <1>1, Invariant, PTL

\* The process id that a dispatch takes from the .env of a leftover worktree is that of the row
\* with the name of the slug, whatever the runs before it left behind and whatever crosses.
THEOREM EnvNamesTheRow == Spec => []EnvNamesRow
<1>1. IInv => EnvNamesRow
  BY DEF IInv
<1> QED
  BY <1>1, Invariant, PTL

\* Until something crosses, a loop works in a worktree that names its row: the probe keeps an unforced
\* command away from a live outer session, and no leftover, kill or failing command undoes it.
THEOREM LoopInItsTree == Spec => []LoopOwnsTree
<1>1. IInv => LoopOwnsTree
  BY DEF IInv
<1> QED
  BY <1>1, Invariant, PTL

\* If moreover the status check had an answer, the row of that loop is in the table.
THEOREM LoopWithItsRow == Spec => []LoopHasRow
<1>1. IInv => LoopHasRow
  BY DEF IInv
<1> QED
  BY <1>1, Invariant, PTL

-----------------------------------------------------------------------------
(* Dispatching again works: what is under way has a bounded number of steps left, and a dispatch *)
(* whose commands do not fail gets as far as the loop, whatever the runs before it left.         *)

CommandRank(c) == CASE cmd[c] = "pruneTree" -> 9 [] cmd[c] = "pruneRow" -> 8 [] cmd[c] = "open" -> 7 [] OTHER -> 0

WrapperRank ==
  CASE wrapper.pc = "tree" -> 6 [] wrapper.pc = "row" -> 5 [] wrapper.pc = "skill" -> 4
    [] wrapper.pc = "env" -> 3 [] wrapper.pc = "check" -> 2 [] wrapper.pc = "launch" -> 1
    [] OTHER -> 0

\* The statements a dispatch begun in c has before it, those of its outer session included.
StepsLeft(c) == IF Busy(c) THEN CommandRank(c) ELSE WrapperRank

\* `process active` runs beside the loop and may come after its end.
LoopRank ==
  CASE loop.pc = "run" -> IF loop.act THEN 3 ELSE 4
    [] loop.pc = "ended" -> IF loop.act THEN 2 ELSE 3
    [] loop.pc = "over" -> 1
    [] OTHER -> 0

\* A dispatch begun in c is under way, and what could stop it is out of the way as far as it has got.
OnTrack(c) ==
  /\ loop = NoLoop
  /\ \A d \in Commands : Busy(d) => d = c
  /\ \/ cmd[c] = "pruneTree" /\ row.status # "active"
     \/ cmd[c] = "pruneRow" /\ tree = NoTree /\ row.status # "active"
     \/ cmd[c] = "open" /\ tree = NoTree /\ row = NoRow
     \/ ~Busy(c) /\ wrapper.pc = "tree" /\ tree = NoTree /\ row = NoRow
     \/ ~Busy(c) /\ wrapper.pc = "row" /\ tree.env = 0 /\ row = NoRow
     \/ ~Busy(c) /\ Provisioned /\ IsRow(wrapper.id) /\ row.status = "pending"

LEMMA LoopOnward ==
  ASSUME Shapes, LoopStep
  PROVE  LoopRank' < LoopRank
<1>1. \/ loop.pc \in {"run", "ended"} /\ ~loop.act /\ loop'.pc = loop.pc /\ loop'.act
      \/ loop.pc = "run" /\ loop'.pc = "ended" /\ loop'.act = loop.act
      \/ loop.pc = "ended" /\ loop.act /\ loop'.pc = "over"
      \/ loop.pc = "over" /\ loop'.pc = "none"
  BY Nulls DEF LoopStep, Activate, LoopExits, Settle, Teardown, Shapes, Loops
<1> QED
  BY <1>1 DEF LoopRank

\* A dispatch that is on its way has a statement before it.
LEMMA TrackHasSteps ==
  ASSUME NEW c \in Commands, OnTrack(c)
  PROVE  StepsLeft(c) \in 1..9
  BY DEF OnTrack, Busy, Provisioned, StepsLeft, CommandRank, WrapperRank

\* No statement of a command or an outer session leaves it more.
LEMMA TrackOnward ==
  ASSUME Shapes, Apart, crossed = "none", NEW c \in Commands, OnTrack(c), CommandStep \/ WrapperStep
  PROVE  StepsLeft(c)' < StepsLeft(c)
<1>1. Busy(c) => wrapper = NoWrapper
  BY DEF Apart, AnyBusy
<1>2. ASSUME NEW d \in Commands, PruneTree(d) PROVE StepsLeft(c)' < StepsLeft(c)
  <2>1. d = c /\ cmd[c] = "pruneTree" /\ cmd'[c] = "pruneRow"
    BY <1>2 DEF PruneTree, Goto, OnTrack, Busy, Shapes
  <2> QED
    BY <2>1 DEF StepsLeft, Busy, CommandRank
<1>3. ASSUME NEW d \in Commands, PruneRow(d) PROVE StepsLeft(c)' < StepsLeft(c)
  <2>1. d = c /\ cmd[c] = "pruneRow" /\ cmd'[c] = "open"
    BY <1>3 DEF PruneRow, Goto, OnTrack, Busy, Shapes
  <2> QED
    BY <2>1 DEF StepsLeft, Busy, CommandRank
<1>4. ASSUME NEW d \in Commands, Open(d) PROVE StepsLeft(c)' < StepsLeft(c)
  <2>1. d = c /\ cmd[c] = "open" /\ cmd'[c] = "idle"
    BY <1>4 DEF Open, Goto, OnTrack, Busy, Shapes
  <2>2. wrapper'.pc = "tree"
    BY <2>1, <1>1, <1>4, Nulls DEF Open, Busy
  <2> QED
    BY <2>1, <2>2 DEF StepsLeft, Busy, CommandRank, WrapperRank
<1>5. CASE WrapperStep
  <2>1. cmd' = cmd /\ wrapper # NoWrapper
    BY <1>5, Nulls DEF WrapperStep, WrapperQuiet, ProvisionTree, ProvisionRow, ProvisionRest, WriteEnv, CheckStatus, LaunchLoop
  <2>2. \/ wrapper.pc = "tree" /\ wrapper'.pc \in {"row", "skill", "none"}
        \/ wrapper.pc = "row" /\ wrapper'.pc \in {"skill", "none"}
        \/ wrapper.pc = "skill" /\ wrapper'.pc \in {"env", "none"}
        \/ wrapper.pc = "env" /\ wrapper'.pc = "check"
        \/ wrapper.pc = "check" /\ wrapper'.pc \in {"launch", "none"}
        \/ wrapper.pc = "launch" /\ wrapper'.pc = "none"
    BY <1>5, Nulls DEF WrapperStep, ProvisionTree, ProvisionRow, ProvisionRest, WriteEnv, CheckStatus, LaunchLoop, Throws, At
  <2>3. ~Busy(c) /\ ~Busy(c)'
    BY <1>1, <2>1 DEF Busy
  <2> QED
    BY <2>2, <2>3 DEF StepsLeft, WrapperRank
<1> QED
  BY <1>2, <1>3, <1>4, <1>5 DEF CommandStep

\* A dispatch on its way stays on its way, or has started the loop.
LEMMA TrackStep ==
  ASSUME TypeOK, Apart, WrapperKnows, NEW c \in Commands, OnTrack(c), Next, NoFault, crossed' = "none"
  PROVE  OnTrack(c)' \/ (launched' = launched + 1 /\ LoopRunning')
<1> USE Nulls DEF OnTrack, NoFault
<1>0. Shapes /\ faults \in Nat /\ ~Fault
  BY DEF TypeOK, Shapes, Fault
<1>1. ASSUME crossed = "none", Busy(c) PROVE wrapper = NoWrapper /\ wrapper.pc = "none" /\ ~Provisioned
  BY <1>1 DEF Apart, AnyBusy, Provisioned
<1>2. ASSUME NEW d \in Commands, Execute(d) \/ ExecuteAnyway(d) PROVE FALSE
  <2>1. wrapper = NoWrapper /\ ~AnyBusy
    BY <1>2, Begins, MeetsNobody
  <2> QED
    BY <2>1 DEF AnyBusy, Busy, Provisioned
<1>3. ASSUME NEW d \in Commands, ExecuteGoal(d) PROVE FALSE
  <2>1. wrapper = NoWrapper /\ ~AnyBusy
    BY <1>3, GoalBegins, MeetsNobody
  <2> QED
    BY <2>1 DEF AnyBusy, Busy, Provisioned
<1>4. ASSUME NEW d \in Commands, PruneTree(d) PROVE OnTrack(c)'
  <2>1. d = c /\ crossed = "none" /\ cmd[c] = "pruneTree" /\ Busy(c)
    BY <1>4 DEF PruneTree, Busy
  <2>2. cmd' = [cmd EXCEPT ![c] = "pruneRow"] /\ tree' = NoTree /\ UNCHANGED <<loop, row>>
    BY <1>4, <2>1, <1>0 DEF PruneTree, Goto
  <2>3. cmd'[c] = "pruneRow" /\ \A e \in Commands : Busy(e)' => e = c
    BY <2>1, <2>2, <1>0 DEF Busy, Shapes
  <2>4. row.status # "active"
    BY <2>1, <1>1
  <2> QED
    BY <2>2, <2>3, <2>4
<1>5. ASSUME NEW d \in Commands, PruneRow(d) PROVE OnTrack(c)'
  <2>1. d = c /\ crossed = "none" /\ cmd[c] = "pruneRow" /\ Busy(c)
    BY <1>5 DEF PruneRow, Busy
  <2>2. tree = NoTree /\ row.status # "active"
    BY <2>1, <1>1
  <2>3. row.status \in Stale \/ row = NoRow
    BY <2>2, <1>0 DEF Shapes, Rows, Stale
  <2>4. cmd' = [cmd EXCEPT ![c] = "open"] /\ row' = NoRow /\ UNCHANGED <<loop, tree>>
    BY <1>5, <2>1, <2>3, <1>0 DEF PruneRow, Stale, Goto
  <2>5. cmd'[c] = "open" /\ \A e \in Commands : Busy(e)' => e = c
    BY <2>1, <2>4, <1>0 DEF Busy, Shapes
  <2> QED
    BY <2>2, <2>4, <2>5
<1>6. ASSUME NEW d \in Commands, Open(d) PROVE OnTrack(c)'
  <2>1. d = c /\ crossed = "none" /\ cmd[c] = "open" /\ Busy(c)
    BY <1>6 DEF Open, Busy
  <2>2. tree = NoTree /\ row = NoRow /\ wrapper = NoWrapper
    BY <2>1, <1>1
  <2>3. cmd' = [cmd EXCEPT ![c] = "idle"] /\ wrapper' = Started /\ UNCHANGED <<loop, tree, row>>
    BY <1>6, <2>1, <2>2 DEF Open, Goto
  <2>4. ~Busy(c)' /\ \A e \in Commands : Busy(e)' => e = c
    BY <2>1, <2>3, <1>0 DEF Busy, Shapes
  <2> QED
    BY <2>2, <2>3, <2>4
<1>7. ASSUME WrapperStep PROVE OnTrack(c)' \/ (launched' = launched + 1 /\ LoopRunning')
  <2>1. cmd' = cmd /\ crossed = "none" /\ wrapper # NoWrapper
    BY <1>7 DEF WrapperStep, WrapperQuiet, ProvisionTree, ProvisionRow, ProvisionRest, WriteEnv, CheckStatus, LaunchLoop
  <2>2. ~Busy(c) /\ ~Busy(c)' /\ \A e \in Commands : Busy(e)' => e = c
    BY <1>1, <2>1 DEF Busy
  <2>3. \/ wrapper.pc = "tree" /\ tree = NoTree /\ row = NoRow
        \/ wrapper.pc = "row" /\ tree.env = 0 /\ row = NoRow
        \/ Provisioned /\ IsRow(wrapper.id) /\ row.status = "pending"
    BY <2>2 DEF Busy
  <2>4. CASE ProvisionTree
    <3>1. tree = NoTree /\ row = NoRow
      BY <2>3, <2>4 DEF ProvisionTree, Provisioned
    <3>2. wrapper' = At("row", 0, FALSE) /\ tree' = [tree EXCEPT !.there = TRUE] /\ UNCHANGED <<loop, row>>
      BY <3>1, <2>4, <1>0 DEF ProvisionTree, WrapperQuiet
    <3>3. wrapper'.pc = "row"
      BY <3>2 DEF At
    <3>4. tree'.env = 0
      BY <3>1, <3>2, TreeSet
    <3> QED
      BY <2>2, <3>1, <3>2, <3>3, <3>4
  <2>5. CASE ProvisionRow
    <3>1. row = NoRow
      BY <2>3, <2>5 DEF ProvisionRow, Provisioned
    <3>2. wrapper'.pc = "skill" /\ wrapper'.id = ids + 1 /\ row'.id = ids + 1 /\ row'.status = "pending" /\ loop' = loop
      BY <3>1, <2>5, <1>0 DEF ProvisionRow, At
    <3>3. ids + 1 # 0
      BY DEF TypeOK
    <3> QED
      BY <2>2, <3>2, <3>3 DEF Provisioned, IsRow
  <2>6. CASE ProvisionRest \/ WriteEnv
    <3>1. IsRow(wrapper.id) /\ row.status = "pending"
      BY <2>3, <2>6 DEF ProvisionRest, WriteEnv, Provisioned
    <3>2. wrapper'.pc \in {"env", "check"} /\ wrapper'.id = wrapper.id /\ UNCHANGED <<loop, row>>
      BY <2>1, <2>6, <1>0 DEF ProvisionRest, WriteEnv, WrapperQuiet, At, WrapperKnows, Provisioned
    <3>3. Provisioned' /\ IsRow(wrapper.id)'
      BY <3>1, <3>2 DEF Provisioned, IsRow
    <3> QED
      BY <2>2, <3>1, <3>2, <3>3
  <2>7. CASE CheckStatus
    <3>1. IsRow(wrapper.id) /\ row.status = "pending"
      BY <2>3, <2>7 DEF CheckStatus, Provisioned
    <3>2. wrapper'.pc = "launch" /\ wrapper'.id = wrapper.id /\ UNCHANGED <<loop, row>>
      BY <3>1, <2>7, <1>0 DEF CheckStatus, WrapperQuiet, At
    <3> QED
      BY <2>2, <3>1, <3>2 DEF Provisioned, IsRow
  <2>8. CASE LaunchLoop
    BY <2>8, <1>0 DEF LaunchLoop, LoopRunning
  <2> QED
    BY <1>7, <2>4, <2>5, <2>6, <2>7, <2>8 DEF WrapperStep
<1>8. ASSUME LoopStep PROVE FALSE
  BY <1>8 DEF LoopStep, Activate, LoopExits, Settle, Teardown
<1>9. ASSUME WrapperDies \/ LoopDies \/ Reap PROVE FALSE
  BY <1>9, <1>0 DEF WrapperDies, LoopDies, Reap
<1>10. ASSUME UserFails \/ OrphanFails \/ OrphanTeardown PROVE OnTrack(c)'
  <2>1. UNCHANGED <<cmd, wrapper, loop>> /\ (UserFails \/ OrphanFails => row.status = "active")
    BY <1>10 DEF UserFails, OrphanFails, OrphanTeardown
  <2>2. crossed = "none"
    BY <1>10 DEF UserFails, OrphanFails, OrphanTeardown, Cross
  <2>3. CASE UserFails \/ OrphanFails
    <3>1. Busy(c) \/ wrapper # NoWrapper
      BY DEF Busy, Provisioned
    <3>2. CASE UserFails
      BY <3>1, <3>2, <1>1, <2>2 DEF UserFails, Busy, Provisioned
    <3>3. CASE OrphanFails
      BY <3>1, <3>3, <2>2 DEF OrphanFails, AnyBusy, Cross
    <3> QED
      BY <2>3, <3>2, <3>3
  <2>4. CASE OrphanTeardown
    <3>1. sweep
      BY <2>4 DEF OrphanTeardown
    <3>2. Busy(c) \/ wrapper # NoWrapper
      BY DEF Busy, Provisioned
    <3> QED
      BY <3>1, <3>2, <2>2 DEF Apart, AnyBusy
  <2> QED
    BY <1>10, <2>3, <2>4
<1> QED
  BY <1>2, <1>3, <1>4, <1>5, <1>6, <1>7, <1>8, <1>9, <1>10 DEF Next, CommandStep

\* What a step does for a dispatch that is begun, or on its way, in c.
GoesThrough(c) ==
  /\ Execute(c) /\ crossed' = "none" /\ row.status # "active" => OnTrack(c)'
  /\ OnTrack(c) /\ NoFault /\ crossed' = "none" =>
       /\ StepsLeft(c) \in 1..9
       /\ OnTrack(c)' \/ (launched' = launched + 1 /\ LoopRunning')
       /\ CommandStep \/ WrapperStep => StepsLeft(c)' < StepsLeft(c)

LEMMA Through ==
  ASSUME IInv, Next, NEW c \in Commands
  PROVE  GoesThrough(c)
<1>1. Shapes /\ Apart
  BY TypeParts DEF IInv
<1>2. ASSUME Execute(c), crossed' = "none", row.status # "active" PROVE OnTrack(c)'
  <2>1. ~AnyBusy /\ loop = NoLoop
    BY <1>2, Begins, MeetsNobody
  <2>2. cmd' = [cmd EXCEPT ![c] = "pruneTree"] /\ UNCHANGED <<loop, row>>
    BY <1>2, Begins
  <2>3. cmd'[c] = "pruneTree" /\ \A d \in Commands : Busy(d)' => d = c
    BY <2>1, <2>2, <1>1 DEF AnyBusy, Busy, Shapes
  <2> QED
    BY <1>2, <2>1, <2>2, <2>3 DEF OnTrack
<1>3. ASSUME OnTrack(c), NoFault, crossed' = "none"
      PROVE  StepsLeft(c) \in 1..9 /\ (OnTrack(c)' \/ (launched' = launched + 1 /\ LoopRunning'))
  BY <1>3, TrackHasSteps, TrackStep DEF IInv
<1>4. ASSUME OnTrack(c), crossed' = "none", CommandStep \/ WrapperStep
      PROVE  StepsLeft(c)' < StepsLeft(c)
  <2>1. crossed = "none"
    BY <1>4 DEF CommandStep, WrapperStep, WrapperQuiet, PruneTree, PruneRow, Open, ProvisionTree, ProvisionRow, ProvisionRest, WriteEnv, CheckStatus, LaunchLoop
  <2> QED
    BY <2>1, <1>4, <1>1, TrackOnward
<1> QED
  BY <1>2, <1>3, <1>4 DEF GoesThrough

\* The argument of Redispatched but for fairness.  An execute for a skill without a live loop or an
\* active row is on its way to the loop as long as no fault happens and nothing crosses: whatever was
\* left behind is pruned, it has at least one and at most nine statements before it, and every one that
\* is taken leaves fewer.  And a loop that goes on gets to its end.
THEOREM DispatchGoesThrough ==
  Spec => [][(\A c \in Commands : GoesThrough(c)) /\ (LoopStep => LoopRank' < LoopRank)]_vars
<1>1. IInv /\ [Next]_vars => [(\A c \in Commands : GoesThrough(c)) /\ (LoopStep => LoopRank' < LoopRank)]_vars
  BY Through, LoopOnward, TypeParts DEF IInv
<1> QED
  BY <1>1, Invariant, PTL DEF Spec
=============================================================================
