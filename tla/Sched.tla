-------------------------------- MODULE Sched --------------------------------
(***************************************************************************)
(* The process core of the MIPS kernel: the round-robin scheduler, sleep,  *)
(* spawn, exit, kill and waitpid (kernel/sched/sched.c) and the mutexes    *)
(* and binary semaphores that block and release tasks                      *)
(* (kernel/locking/lock.c).                                                *)
(*                                                                         *)
(* The kernel runs on core 0 only (main.c:285 leaves core 1 asleep and     *)
(* do_spawn puts every task on core 0) and is not preemptible: exceptions  *)
(* run with EXL set, so the timer interrupts user code only.  A system     *)
(* call is therefore one step, up to and including the call of             *)
(* do_scheduler that ends it.  The one exception is the loop that releases *)
(* the locks of a task that exits or is killed: it takes one step per      *)
(* iteration, and while it runs no other action is enabled.                *)
(*                                                                         *)
(* Queues are sequences here; PcbQueue has the linked lists of queue.c.    *)
(***************************************************************************)
EXTENDS Queues, FiniteSets

CONSTANTS
  Task,        \* the slots of pcb[]
  Idle,        \* pcb[0], the boot task that loops in _start
  Shell,       \* pcb[2], test_shell
  NoTask,      \* the null pointer
  Lock,        \* mutex_lock_t objects
  Sem,         \* the BinSems of lock[32]
  NoLock,      \* an entry of pcb.lock[] never written
  Ready,       \* ready_queue[0]
  Sleeping,    \* block_queue[0]
  Exited,      \* exit_queue[0]
  MaxLocks,    \* length of pcb.lock[], 10 in sched.h
  SleepTimes,  \* arguments of sys_sleep, in clock ticks; see README for 0
  Discipline   \* what user programs promise, a subset of Promises

Promises ==
  { "lifo",    \* release the mutex acquired last first
    "exit",    \* exit holding at most one mutex
    "kill",    \* kill only tasks that hold no mutex
    "idle",    \* never kill pid 0
    "wait" }   \* wait for no pid

Queue == {Ready, Sleeping, Exited} \cup Task \cup Lock \cup Sem

ASSUME TasksAssumption ==
  /\ IsFiniteSet(Task)
  /\ {Idle, Shell} \subseteq Task
  /\ Idle # Shell
  /\ NoTask \notin Task

ASSUME QueuesAssumption ==
  /\ Ready # Sleeping /\ Ready # Exited /\ Sleeping # Exited
  /\ {Ready, Sleeping, Exited} \cap (Task \cup Lock \cup Sem) = {}
  /\ Task \cap (Lock \cup Sem) = {}
  /\ Lock \cap Sem = {}
  /\ NoLock \notin Lock

ASSUME BoundsAssumption ==
  /\ MaxLocks \in Nat \ {0}
  /\ SleepTimes \subseteq Nat \ {0}
  /\ Discipline \subseteq Promises

VARIABLES
  status,      \* pcb.task_status
  queue,       \* every queue_t: the tasks it links, head first
               \* (queue[t] is pcb.blocked_by_me, queue[l] is
               \* lock.blocked_queue)
  current,     \* current_running[0]
  inQueue,     \* pcb.in_queue
  left,        \* ticks until sleep_start + sleep_time
  lockStatus,  \* mutex_lock_t.status, BinSem.status
  lockNum,     \* pcb.lock_num
  slot,        \* pcb.lock[]
  loop,        \* the release loop of do_exit or do_kill
  holds        \* history: the tasks that were granted a mutex and have
               \* not released it

lockVars == <<lockStatus, lockNum, slot, holds>>
schedVars == <<status, queue, current, inQueue, left>>
vars == <<status, queue, current, inQueue, left,
          lockStatus, lockNum, slot, loop, holds>>

NoLoop == [kind |-> "none", task |-> Idle, i |-> 0]

Init ==
  /\ status = [t \in Task |-> CASE t = Idle  -> "RUNNING"
                                [] t = Shell -> "READY"
                                [] OTHER     -> "UNUSED"]
  /\ queue = [q \in Queue |-> IF q = Ready THEN <<Shell>> ELSE <<>>]
  /\ current = Idle
  /\ inQueue = [t \in Task |-> Ready]
  /\ left = [t \in Task |-> 0]
  /\ lockStatus = [l \in Lock \cup Sem |-> "UNLOCKED"]
  /\ lockNum = [t \in Task |-> 0]
  /\ slot = [t \in Task |-> [i \in 0..(MaxLocks - 1) |-> NoLock]]
  /\ loop = NoLoop
  /\ holds = [l \in Lock |-> {}]

-----------------------------------------------------------------------------
(* Queues.                                                                 *)

\* The tasks of S in the order in which they stand in s.
InOrder(s, S) ==
  {w \in [1..Cardinality(S) -> S] :
     /\ Members(w) = S
     /\ \A i, j \in DOMAIN w : i < j =>
          \E a, b \in DOMAIN s : a < b /\ s[a] = w[i] /\ s[b] = w[j]}

\* do_unblock_all(q): every waiter moves to the end of the ready queue.
ReleasedOne(qs, q) ==
  IF qs[q] = <<>> THEN qs
  ELSE [qs EXCEPT ![Ready] = Append(@, Head(qs[q])), ![q] = Tail(@)]
Released(qs, q) == [qs EXCEPT ![Ready] = @ \o qs[q], ![q] = <<>>]
Woken(st, S) == [t \in Task |-> IF t \in S THEN "READY" ELSE st[t]]

-----------------------------------------------------------------------------
(* The scheduler.                                                          *)

Alive(t) == status[t] \in {"READY", "BLOCKED", "RUNNING"}

\* The kernel is ready to serve the task that runs.
Serving == current \in Task /\ loop = NoLoop
InSyscall == Serving /\ current # Idle

\* scheduler() puts the task t it leaves, of status s, back in the ready queue
\* unless it blocked or exited.
BlockedStaysRunnable(t, s) == s # "EXITED"
StaysRunnable(t, s) == s \notin {"BLOCKED", "EXITED"}

\* The ready queue as scheduler() fills it: the ready, the woken sleepers, the
\* task that leaves the processor.
LineLeaverFirst(ready, woken, again) == again \o ready \o woken
Line(ready, woken, again) == ready \o woken \o again

\* The sleepers whose time is up.
Due(qs, lf) == {t \in Members(qs[Sleeping]) : lf[t] = 0}

\* check_sleeping() and scheduler(), called with the statuses st, queues qs,
\* in_queue fields inq and remaining sleeps lf.  An empty ready queue is
\* dequeued all the same: the kernel follows a null pointer.
Schedule(st, qs, inq, lf) ==
  LET due   == Due(qs, lf)
      awake == Woken(st, due)
      again == IF StaysRunnable(current, awake[current]) THEN <<current>> ELSE <<>>
  IN \E woken \in InOrder(qs[Sleeping], due),
        asleep \in InOrder(qs[Sleeping], Members(qs[Sleeping]) \ due) :
       LET line == Line(qs[Ready], woken, again)
           back == Woken(awake, Members(again))
       IN /\ left' = lf
          /\ inQueue' = [t \in Task |-> IF t \in due THEN Ready ELSE inq[t]]
          /\ IF line = <<>>
             THEN /\ current' = NoTask
                  /\ queue' = [qs EXCEPT ![Sleeping] = asleep]
                  /\ status' = back
             ELSE /\ current' = Head(line)
                  /\ queue' = [qs EXCEPT ![Sleeping] = asleep,
                                         ![Ready] = Tail(line)]
                  /\ status' = [back EXCEPT ![Head(line)] = "RUNNING"]

\* do_block(q).  do_sleep does the same on block_queue after it has set the
\* time to sleep.
Block(q, lf) ==
  Schedule([status EXCEPT ![current] = "BLOCKED"],
           [queue EXCEPT ![q] = Append(@, current)],
           [inQueue EXCEPT ![current] = q],
           lf)

\* irq_timer: one tick of the clock, then do_scheduler.
ClockStopped(lf) == lf
Ticked(lf) == [t \in Task |-> IF lf[t] > 0 THEN lf[t] - 1 ELSE 0]
Timer ==
  /\ Serving
  /\ Schedule(status, queue, inQueue, Ticked(left))
  /\ UNCHANGED <<lockVars, loop>>

Sleep(n) ==
  /\ InSyscall
  /\ Block(Sleeping, [left EXCEPT ![current] = n])
  /\ UNCHANGED <<lockVars, loop>>

\* do_spawn into a slot that was never used (see README for reuse).
Spawn(t) ==
  /\ InSyscall
  /\ status[t] = "UNUSED"
  /\ status' = [status EXCEPT ![t] = "READY"]
  /\ queue' = [queue EXCEPT ![Ready] = Append(@, t), ![t] = <<>>]
  /\ inQueue' = [inQueue EXCEPT ![t] = Ready]
  /\ lockNum' = [lockNum EXCEPT ![t] = 0]
  /\ UNCHANGED <<current, left, lockStatus, slot, loop, holds>>

\* do_waitpid of a live pid.
WaitPid(t) ==
  /\ InSyscall
  /\ "wait" \notin Discipline
  /\ Alive(t)
  /\ Block(t, left)
  /\ UNCHANGED <<lockVars, loop>>

\* do_waitpid of a pid no PCB has: only do_scheduler.
WaitNobody ==
  /\ InSyscall
  /\ Schedule(status, queue, inQueue, left)
  /\ UNCHANGED <<lockVars, loop>>

-----------------------------------------------------------------------------
(* Mutexes and binary semaphores.                                          *)

\* p->lock[n] = l.  Outside the array the write would hit other fields of
\* the PCB; SlotsInRange says it does not happen.
NotRecorded(sl, p, n, l) == sl
Recorded(sl, p, n, l) ==
  IF n \in 0..(MaxLocks - 1) THEN [sl EXCEPT ![p][n] = l] ELSE sl

\* do_mutex_lock_release(l) by current, for the task x that gives l up: the
\* first waiter p is handed the mutex without its becoming free.
FreeAndHandOver(x, l) ==
  LET p == Head(queue[l])
  IN /\ queue' = [queue EXCEPT ![l] = Tail(@), ![Ready] = Append(@, p)]
     /\ status' = [status EXCEPT ![p] = "READY"]
     /\ lockStatus' = [lockStatus EXCEPT ![l] = "UNLOCKED"]
     /\ slot' = Recorded(slot, p, lockNum[p], l)
     /\ lockNum' = [lockNum EXCEPT ![p] = @ + 1, ![current] = @ - 1]
     /\ holds' = [holds EXCEPT ![l] = (@ \ {x}) \cup {p}]
HandOver(x, l) ==
  LET p == Head(queue[l])
  IN /\ queue' = [queue EXCEPT ![l] = Tail(@), ![Ready] = Append(@, p)]
     /\ status' = [status EXCEPT ![p] = "READY"]
     /\ lockStatus' = [lockStatus EXCEPT ![l] = "LOCKED"]
     /\ slot' = Recorded(slot, p, lockNum[p], l)
     /\ lockNum' = [lockNum EXCEPT ![p] = @ + 1, ![current] = @ - 1]
     /\ holds' = [holds EXCEPT ![l] = (@ \ {x}) \cup {p}]

SetFree(x, l) ==
  /\ lockStatus' = [lockStatus EXCEPT ![l] = "UNLOCKED"]
  /\ lockNum' = [lockNum EXCEPT ![current] = @ - 1]
  /\ holds' = [holds EXCEPT ![l] = @ \ {x}]
  /\ UNCHANGED <<queue, status, slot>>

Release(x, l) ==
  \/ queue[l] # <<>> /\ HandOver(x, l)
  \/ queue[l] = <<>> /\ SetFree(x, l)

\* do_mutex_lock_acquire.  Programs do not take a mutex they hold, nor more
\* than MaxLocks of them.
AcquireFree(l) ==
  /\ lockStatus[l] = "UNLOCKED"
  /\ lockStatus' = [lockStatus EXCEPT ![l] = "LOCKED"]
  /\ lockNum' = [lockNum EXCEPT ![current] = @ + 1]
  /\ slot' = Recorded(slot, current, lockNum[current], l)
  /\ holds' = [holds EXCEPT ![l] = @ \cup {current}]
  /\ UNCHANGED schedVars

AcquireTaken(l) ==
  /\ lockStatus[l] = "LOCKED"
  /\ Block(l, left)
  /\ UNCHANGED lockVars

MutexAcquire(l) ==
  /\ InSyscall
  /\ current \notin holds[l]
  /\ lockNum[current] < MaxLocks
  /\ AcquireFree(l) \/ AcquireTaken(l)
  /\ UNCHANGED loop

MutexRelease(l) ==
  /\ InSyscall
  /\ current \in holds[l]
  /\ "lifo" \in Discipline =>
       \E i \in DOMAIN slot[current] :
         i = lockNum[current] - 1 /\ slot[current][i] = l
  /\ Release(current, l)
  /\ UNCHANGED <<current, inQueue, left, loop>>

\* binsem_op(s, BINSEM_OP_LOCK)
SemLock(s) ==
  /\ InSyscall
  /\ \/ /\ lockStatus[s] = "UNLOCKED"
        /\ lockStatus' = [lockStatus EXCEPT ![s] = "LOCKED"]
        /\ UNCHANGED schedVars
     \/ /\ lockStatus[s] = "LOCKED"
        /\ Block(s, left)
        /\ UNCHANGED lockStatus
  /\ UNCHANGED <<lockNum, slot, holds, loop>>

\* binsem_op(s, BINSEM_OP_UNLOCK): any task may call it.
SemUnlock(s) ==
  /\ InSyscall
  /\ IF queue[s] # <<>>
     THEN /\ queue' = [queue EXCEPT ![s] = Tail(@),
                                    ![Ready] = Append(@, Head(queue[s]))]
          /\ status' = [status EXCEPT ![Head(queue[s])] = "READY"]
          /\ lockStatus' = [lockStatus EXCEPT ![s] = "LOCKED"]
     ELSE /\ lockStatus' = [lockStatus EXCEPT ![s] = "UNLOCKED"]
          /\ UNCHANGED <<queue, status>>
  /\ UNCHANGED <<current, inQueue, left, lockNum, slot, loop, holds>>

-----------------------------------------------------------------------------
(* Exit and kill.                                                          *)

HeldBy(t) == {l \in Lock : t \in holds[l]}

\* do_exit, up to its loop.
Exit ==
  /\ InSyscall
  /\ "exit" \in Discipline => Cardinality(HeldBy(current)) <= 1
  /\ loop' = [kind |-> "exit", task |-> current, i |-> 0]
  /\ UNCHANGED <<schedVars, lockVars>>

\* One iteration of "while (i < lock_num)", of do_exit and of do_kill.  The
\* bound is the lock_num of the task that dies; do_mutex_lock_release
\* decrements the lock_num of current_running.
LoopReleases == loop.kind # "none" /\ loop.i < lockNum[loop.task]

ReleaseNext ==
  /\ current \in Task
  /\ LoopReleases
  /\ \E l \in Lock : l = slot[loop.task][loop.i] /\ Release(loop.task, l)
  /\ loop' = [loop EXCEPT !.i = @ + 1]
  /\ UNCHANGED <<current, inQueue, left>>

\* The end of do_exit: waiters released, status, exit_queue, do_scheduler.
FinishExit ==
  /\ loop.kind = "exit" /\ ~LoopReleases
  /\ LET freed == Released(queue, current)
     IN Schedule([Woken(status, Members(queue[current]))
                    EXCEPT ![current] = "EXITED"],
                 [freed EXCEPT ![Exited] = Append(@, current)],
                 inQueue, left)
  /\ loop' = NoLoop
  /\ UNCHANGED lockVars

\* The end of do_kill for victim v, taken out of its queue in qs.
Bury(v, qs) ==
  LET freed == Released(qs, v)
  IN /\ queue' = [freed EXCEPT ![Exited] = Append(@, v)]
     /\ status' = [Woken(status, Members(qs[v])) EXCEPT ![v] = "EXITED"]
     /\ loop' = NoLoop
     /\ UNCHANGED <<current, inQueue, left, lockVars>>

\* What do_kill goes on with: any live pid but the shell's.  Killing the
\* shell, or a pid no PCB has, only prints a message.  Programs
\* do not kill themselves, as the comment at sched.c:303 tells them.
Killable(v) ==
  /\ InSyscall
  /\ Alive(v) /\ v # current
  /\ v # Shell
  /\ "kill" \in Discipline => HeldBy(v) = {}
  /\ "idle" \in Discipline => v # Idle

KillReady(v) ==
  /\ Killable(v)
  /\ status[v] = "READY"
  /\ loop' = [kind |-> "kill", task |-> v, i |-> 0]
  /\ UNCHANGED <<schedVars, lockVars>>

FinishKillReady ==
  /\ loop.kind = "kill" /\ ~LoopReleases
  /\ \E k \in DOMAIN queue[Ready] :
       /\ queue[Ready][k] = loop.task
       /\ Bury(loop.task, [queue EXCEPT ![Ready] = Without(@, k)])

KillBlocked(v) ==
  /\ Killable(v)
  /\ status[v] = "BLOCKED"
  /\ \E k \in DOMAIN queue[inQueue[v]] :
       /\ queue[inQueue[v]][k] = v
       /\ Bury(v, [queue EXCEPT ![inQueue[v]] = Without(@, k)])

-----------------------------------------------------------------------------
Next ==
  \/ Timer
  \/ \E n \in SleepTimes : Sleep(n)
  \/ \E t \in Task : Spawn(t) \/ WaitPid(t) \/ KillReady(t) \/ KillBlocked(t)
  \/ WaitNobody
  \/ \E l \in Lock : MutexAcquire(l) \/ MutexRelease(l)
  \/ \E s \in Sem : SemLock(s) \/ SemUnlock(s)
  \/ Exit \/ ReleaseNext \/ FinishExit \/ FinishKillReady

Spec == Init /\ [][Next]_vars

\* The timer is programmed to fire for ever and interrupts user code within
\* 150000 cycles; kernel code runs to its end.
Fairness ==
  /\ WF_vars(Timer)
  /\ WF_vars(ReleaseNext \/ FinishExit \/ FinishKillReady)

FairSpec == Spec /\ Fairness

-----------------------------------------------------------------------------
(* Invariants.                                                             *)

TypeOK ==
  /\ status \in [Task -> {"UNUSED", "READY", "BLOCKED", "RUNNING", "EXITED"}]
  /\ queue \in [Queue -> Seq(Task)]
  /\ current \in Task \cup {NoTask}
  /\ inQueue \in [Task -> Queue]
  /\ left \in [Task -> Nat]
  /\ lockStatus \in [Lock \cup Sem -> {"LOCKED", "UNLOCKED"}]
  /\ lockNum \in [Task -> Int]
  /\ slot \in [Task -> [0..(MaxLocks - 1) -> Lock \cup {NoLock}]]
  /\ loop \in [kind : {"none", "exit", "kill"}, task : Task, i : Nat]
  /\ holds \in [Lock -> SUBSET Task]

\* A PCB has one pair of links: it is in at most one queue, and once.
OnePlace ==
  \A q, r \in Queue :
    \A i \in DOMAIN queue[q], j \in DOMAIN queue[r] :
      queue[q][i] = queue[r][j] => q = r /\ i = j

\* The status of a task says where it is: ready tasks are in the ready queue,
\* blocked ones in the queue in_queue names, where do_kill looks for them.
StatusTellsPlace ==
  \A t \in Task :
    /\ status[t] = "RUNNING" <=> t = current
    /\ status[t] = "READY"   <=> t \in Members(queue[Ready])
    /\ status[t] = "EXITED"  <=> t \in Members(queue[Exited])
    /\ status[t] = "BLOCKED" <=>
         \E q \in Queue \ {Ready, Exited} : t \in Members(queue[q])
    /\ status[t] = "BLOCKED" => t \in Members(queue[inQueue[t]])

\* The scheduler never dequeues an empty ready queue.
NeverFaults == current # NoTask

\* do_waitpid blocks on a live task, and whoever waits when it dies is
\* released: nobody waits for the dead.
NobodyWaitsForTheDead == \A t \in Task : queue[t] # <<>> => Alive(t)

\* A mutex or semaphore somebody waits for is taken: no wakeup is lost.
WaitersWaitForTaken ==
  \A l \in Lock \cup Sem : queue[l] # <<>> => lockStatus[l] = "LOCKED"

MutualExclusion ==
  \A l \in Lock : \A t, u \in holds[l] : t = u

\* A taken mutex has a live holder, who can still release it.
TakenHasLiveHolder ==
  \A l \in Lock :
    /\ lockStatus[l] = "LOCKED" <=> holds[l] # {}
    /\ \A t \in holds[l] : Alive(t)

\* pcb.lock[0 .. lock_num-1] are the mutexes the task holds.
SlotsAreHeld ==
  \A t \in Task :
    /\ lockNum[t] \in 0..MaxLocks
    /\ Alive(t) => HeldBy(t) = {slot[t][i] : i \in 0..(lockNum[t] - 1)}

\* What "release the locks" of do_exit promises.
DeadHoldNothing == \A t \in Task : status[t] = "EXITED" => HeldBy(t) = {}

\* Every task is in exactly the queue its status says, and one of them runs.
EverybodyPlaced == TypeOK /\ OnePlace /\ StatusTellsPlace /\ NeverFaults

\* Nobody waits for what will not come: a task that is dead, or a mutex or
\* semaphore that is free.
NobodyWaitsInVain == NobodyWaitsForTheDead /\ WaitersWaitForTaken

\* A mutex that is taken has a live holder, and pcb.lock[] tells who holds what.
LocksHeld == TakenHasLiveHolder /\ SlotsAreHeld

-----------------------------------------------------------------------------
(* Action properties.                                                      *)

\* Nobody overtakes in a mutex's queue: a mutex somebody waits for changes
\* hands to the first waiter only.
MutexFifo ==
  [][\A l \in Lock : queue[l] # <<>> /\ holds'[l] # holds[l]
                      => holds'[l] = {Head(queue[l])}]_vars

\* A task that exited or was killed never runs again.
DeadForever ==
  [][\A t \in Task : status[t] = "EXITED" => status'[t] = "EXITED"]_vars

-----------------------------------------------------------------------------
(* Liveness.                                                               *)

\* Round robin: a ready task runs (or is killed).
ReadyRuns == \A t \in Task : status[t] = "READY" ~> status[t] # "READY"

\* A sleeper wakes.
SleepersWake ==
  \A t \in Task : t \in Members(queue[Sleeping])
                    ~> t \notin Members(queue[Sleeping])
=============================================================================
