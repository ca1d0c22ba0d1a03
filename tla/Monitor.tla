------------------------------- MODULE Monitor -------------------------------
(***************************************************************************)
(* Condition variables (ipc/cond.c) with the mutex their users hold        *)
(* (kernel/locking/lock.c).  A task inside runs user code with the mutex.  *)
(***************************************************************************)
EXTENDS Tasks

CONSTANTS
  Mutex,  \* mutex_lock_t.blocked_queue
  Cond    \* the condition_t's block_queues

MonitorAssumption ==
  Mutex \notin Cond /\ {Mutex} \cup Cond \subseteq Object

VARIABLE locked  \* mutex_lock_t.status

vars == <<taskVars, locked>>

Init == InitTasks /\ locked = FALSE

\* do_mutex_lock_acquire: the task goes on at pc when it has the mutex, at
\* once or when it is handed it.
Acquire(pc) ==
  \/ /\ ~ locked
     /\ locked' = TRUE
     /\ at' = [at EXCEPT ![current] = pc]
     /\ UNCHANGED <<ready, current, waiting>>
  \/ /\ locked
     /\ Block(ready, waiting, Mutex, pc)
     /\ UNCHANGED locked

\* do_mutex_lock_release hands the mutex to First(Mutex), if somebody waits.
KeptForFirst == waiting[Mutex] # <<>>

Lock ==
  /\ current \in Task
  /\ at[current] = "user"
  /\ Acquire("inside")

Unlock ==
  /\ at[current] = "inside"
  /\ locked' = KeptForFirst
  /\ ready' = ready \o First(Mutex)
  /\ waiting' = FirstLeft(waiting, Mutex)
  /\ at' = [at EXCEPT ![current] = "user"]
  /\ UNCHANGED current

\* do_condition_wait(Mutex, c) up to its do_block ...  Mutant: the mutex is not
\* released.
KeepsMutex(c) ==
  /\ Block(ready, waiting, c, "reacquire")
  /\ UNCHANGED locked
WaitOn(c) ==
  /\ locked' = KeptForFirst
  /\ Block(ready \o First(Mutex), FirstLeft(waiting, Mutex), c, "reacquire")

Wait(c) == at[current] = "inside" /\ WaitOn(c)

\* ... and when the task runs again.
TakesBack == Acquire("inside")
Reacquire == at[current] = "reacquire" /\ TakesBack

Signal(c) ==
  /\ current \in Task /\ at[current] \in {"user", "inside"}
  /\ ready' = ready \o First(c)
  /\ waiting' = FirstLeft(waiting, c)
  /\ UNCHANGED <<current, at, locked>>

Broadcast(c) ==
  /\ current \in Task /\ at[current] \in {"user", "inside"}
  /\ ready' = ready \o waiting[c]
  /\ waiting' = NoneLeft(waiting, c)
  /\ UNCHANGED <<current, at, locked>>

Next ==
  \/ Lock \/ Unlock \/ Reacquire
  \/ \E c \in Cond : Wait(c) \/ Signal(c) \/ Broadcast(c)
  \/ Timer /\ UNCHANGED locked

Spec == Init /\ [][Next]_vars

-----------------------------------------------------------------------------
Holders == {t \in Task : at[t] = "inside" /\ t \notin Members(waiting[Mutex])}

\* Whoever returns from lock or wait has the mutex, and alone.
MutualExclusion ==
  /\ \A t, u \in Holders : t = u
  /\ locked <=> Holders # {}
=============================================================================
