-------------------------------- MODULE Tasks --------------------------------
(***************************************************************************)
(* The scheduler as the synchronisation code of the kernel sees it: tasks  *)
(* that block in the middle of a system call go on from there when they    *)
(* run again.  (Sched has the scheduler with its sleepers, exits and       *)
(* kills.)  The timer interrupts user code only.                           *)
(***************************************************************************)
EXTENDS Queues, FiniteSets

CONSTANTS
  Task,    \* the tasks that synchronise
  Idle,    \* pcb[0]
  Object   \* the queue_t's of the objects tasks block on

ASSUME TasksAssumption ==
  IsFiniteSet(Task) /\ Task # {} /\ Idle \notin Task

VARIABLES
  ready,    \* ready_queue[0]
  current,  \* current_running[0]
  waiting,  \* the tasks in each blocking queue
  at        \* where each task is: in user code, or where it goes on in the
            \* kernel when it runs

taskVars == <<ready, current, waiting, at>>

Everyone == Task \cup {Idle}

InitTasks ==
  /\ ready \in {s \in [1..Cardinality(Task) -> Task] : Distinct(s)}
  /\ current = Idle
  /\ waiting = [q \in Object |-> <<>>]
  /\ at = [t \in Everyone |-> "user"]

\* scheduler(): the next task of the ready queue rd runs; again is <<current>>
\* unless current is blocked.
Switch(rd, again, wt) ==
  /\ current' = Head(rd \o again)
  /\ ready' = Tail(rd \o again)
  /\ waiting' = wt

\* do_block(q), after which the task goes on at pc.
Block(rd, wt, q, pc) ==
  /\ Switch(rd, <<>>, [wt EXCEPT ![q] = Append(@, current)])
  /\ at' = [at EXCEPT ![current] = pc]

\* The task do_unblock_one(q) makes ready, if there is one.
First(q) == IF waiting[q] = <<>> THEN <<>> ELSE <<Head(waiting[q])>>
NoneLeft(wt, q) == [wt EXCEPT ![q] = <<>>]
FirstLeft(wt, q) == IF wt[q] = <<>> THEN wt ELSE [wt EXCEPT ![q] = Tail(@)]

\* irq_timer
Timer ==
  /\ at[current] \in {"user", "inside"}
  /\ Switch(ready, <<current>>, waiting)
  /\ UNCHANGED at

\* A task is in one place.
OnePlace ==
  /\ Distinct(ready) /\ current \notin Members(ready)
  /\ \A q \in Object :
       /\ Distinct(waiting[q])
       /\ Members(waiting[q]) \cap (Members(ready) \cup {current}) = {}
       /\ \A r \in Object : q # r => Members(waiting[q]) \cap Members(waiting[r]) = {}
=============================================================================
