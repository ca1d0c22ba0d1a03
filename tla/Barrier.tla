------------------------------- MODULE Barrier -------------------------------
(***************************************************************************)
(* A barrier (ipc/barrier.c) at which tasks wait for Goal of them.         *)
(***************************************************************************)
EXTENDS Tasks

CONSTANTS
  Bar,       \* barrier.block_queue
  Goal,      \* barrier.expect_num
  MaxRounds  \* how often each task waits (a bound on arrived)

ASSUME BarrierAssumption ==
  Bar \in Object /\ Goal \in Nat \ {0} /\ MaxRounds \in Nat

VARIABLES
  nowNum,   \* barrier.now_num
  arrived   \* history: how often each task has called do_barrier_wait

vars == <<taskVars, nowNum, arrived>>

\* do_barrier_init(Goal)
Init ==
  /\ InitTasks
  /\ nowNum = 0
  /\ arrived = [t \in Task |-> 0]

\* do_barrier_wait of a task that is not the last.  Mutant: the barrier opens one
\* too early.
LastButOne == nowNum + 2 >= Goal
Last == nowNum + 1 >= Goal
WaitForOthers ==
  /\ ~ Last
  /\ nowNum' = nowNum + 1
  /\ Block(ready, waiting, Bar, "user")

\* The last one readies the others before itself.
Open ==
  /\ Last
  /\ nowNum' = 0
  /\ Switch(ready \o waiting[Bar], <<current>>, NoneLeft(waiting, Bar))
  /\ UNCHANGED at

BarrierWait ==
  /\ current \in Task
  /\ arrived[current] < MaxRounds
  /\ arrived' = [arrived EXCEPT ![current] = @ + 1]
  /\ WaitForOthers \/ Open

Next == BarrierWait \/ (Timer /\ UNCHANGED <<nowNum, arrived>>)

Spec == Init /\ [][Next]_vars

-----------------------------------------------------------------------------
\* The waits task t has returned from.
Returned(t) == IF t \in Members(waiting[Bar]) THEN arrived[t] - 1 ELSE arrived[t]

\* now_num counts the tasks in the queue, and the barrier opens before it
\* reaches the goal.
CountsWaiters == nowNum = Len(waiting[Bar]) /\ nowNum < Goal

\* When as many tasks as the goal says use the barrier, nobody returns from its
\* k-th wait before everybody has called its k-th wait.
Together ==
  Cardinality(Task) = Goal =>
    \A t, u \in Task : Returned(t) <= arrived[u]
=============================================================================
