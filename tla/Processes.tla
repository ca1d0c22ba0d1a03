------------------------------ MODULE Processes ------------------------------
(***************************************************************************)
(* The scheduler and the processes of kernel/sched/sched.c on the lists of *)
(* queue.c: what Sched says of sequences, done to heads, tails and links   *)
(* that a PCB has one pair of.  A slot of pcb[] is found by its number,    *)
(* and nothing looks at what the slot holds.  Tasks hold no mutex here.    *)
(* A step is a system call or an interrupt, except that exit and kill stop *)
(* where Sched has the loop that releases mutexes.                         *)
(***************************************************************************)
EXTENDS Links, TLC

CONSTANTS
  Idle,        \* pcb[0]
  Shell,       \* pcb[2]
  Ready, Sleeping, Exited,  \* ready_queue[0], block_queue[0], exit_queue[0]
  SleepTimes,  \* arguments of sys_sleep, in clock ticks
  Discipline   \* what user programs promise

ProcessesAssumption ==
  /\ IsFiniteSet(Pcb) /\ Null \notin Pcb
  /\ {Idle, Shell} \subseteq Pcb /\ Idle # Shell
  /\ QueueT = {Ready, Sleeping, Exited} \cup Pcb
  /\ Ready # Sleeping /\ Ready # Exited /\ Sleeping # Exited
  /\ {Ready, Sleeping, Exited} \cap Pcb = {}
  /\ SleepTimes \subseteq Nat
  /\ Discipline \subseteq
       { "fresh",   \* spawn each task once
         "naps",    \* sleep a tick at least
         "others",  \* kill no task that is oneself
         "idle" }   \* never kill pid 0

VARIABLES
  mem,      \* the lists
  status,   \* pcb.task_status
  inQueue,  \* pcb.in_queue
  current,  \* current_running[0]
  left,     \* ticks until sleep_start + sleep_time
  loop      \* the task exit or kill is at work on

procVars == <<mem, status, inQueue, current, left, loop>>

NoLoop == [kind |-> "none", task |-> Idle]

\* init_pcb: the shell is ready, the boot task runs.
Init ==
  /\ mem = QueuePush([head |-> [q \in QueueT |-> Null], tail |-> [q \in QueueT |-> Null],
                      next |-> [x \in Pcb |-> Null],    prev |-> [x \in Pcb |-> Null]],
                     Ready, Shell)
  /\ status = [t \in Pcb |-> CASE t = Idle  -> "RUNNING"
                               [] t = Shell -> "READY"
                               [] OTHER     -> "UNUSED"]
  /\ inQueue = [t \in Pcb |-> Ready]
  /\ current = Idle
  /\ left = [t \in Pcb |-> 0]
  /\ loop = NoLoop

-----------------------------------------------------------------------------
(* What the kernel's functions do to the PCBs: k is a record of mem,       *)
(* status and inQueue.                                                     *)

Now == [mem |-> mem, status |-> status, inQueue |-> inQueue]

Becomes(k) == mem' = k.mem /\ status' = k.status /\ inQueue' = k.inQueue

\* The task t is put into queue q with status s, or taken out of it.
Put(k, q, t, s) == [k EXCEPT !.mem = QueuePush(@, q, t), !.status[t] = s]
Take(k, q, t) == [k EXCEPT !.mem = QueueRemove(@, q, t)]

\* do_unblock_one, which leaves in_queue as it was, and do_unblock_all.
UnblockOne(k, q) ==
  Put([k EXCEPT !.mem = QueueDequeue(@, q)], Ready, Dequeued(k.mem, q), "READY")
UnblockAll(k, q) ==
  LET after[n \in 0..Cardinality(Pcb)] ==   \* n turns of the loop
        IF n = 0 THEN k
        ELSE LET b == after[n - 1] IN IF IsEmpty(b.mem, q) THEN b ELSE UnblockOne(b, q)
  IN after[Cardinality(Pcb)]

\* check_sleeping goes on with what queue_remove returned: the links of the
\* task it has just moved lead elsewhere.
NextByMovedLinks(before, after, t) == after.next[t]
NextSleeper(before, after, t) == AfterRemoved(before, t)

\* One turn of the loop of check_sleeping, at the sleeper s.t.
CheckSleeper(s, lf) ==
  IF lf[s.t] > 0 THEN [s EXCEPT !.t = s.k.mem.next[s.t]]
  ELSE LET awake == Put(Take(s.k, Sleeping, s.t), Ready, s.t, "READY")
       IN [k |-> [awake EXCEPT !.inQueue[s.t] = Ready], t |-> NextSleeper(s.k.mem, awake.mem, s.t)]

\* check_sleeping.  The loop has a turn for each PCB and one more, for a link that
\* leads back.
CheckSleeping(k, lf) ==
  LET after[n \in 0..(Cardinality(Pcb) + 1)] ==
        IF n = 0 THEN [k |-> k, t |-> k.mem.head[Sleeping]]
        ELSE LET s == after[n - 1] IN IF s.t = Null THEN s ELSE CheckSleeper(s, lf)
  IN after[Cardinality(Pcb) + 1].k

\* scheduler().  An empty ready queue is dequeued all the same.
Schedule(k, lf) ==
  LET woken == CheckSleeping(k, lf)
      line  == IF woken.status[current] \in {"BLOCKED", "EXITED"} THEN woken
               ELSE Put(woken, Ready, current, "READY")
      next  == Dequeued(line.mem, Ready)
  IN /\ left' = lf
     /\ current' = next
     /\ IF next = Null THEN Becomes(line)
        ELSE Becomes([line EXCEPT !.mem = QueueDequeue(@, Ready), !.status[next] = "RUNNING"])

\* do_block(q), and do_sleep after it has set the time.
Block(q, lf) ==
  Schedule([Put(Now, q, current, "BLOCKED") EXCEPT !.inQueue[current] = q], lf)

-----------------------------------------------------------------------------
Alive(t) == status[t] \in {"READY", "BLOCKED", "RUNNING"}
Serving == current \in Pcb /\ loop = NoLoop
InSyscall == Serving /\ current # Idle

Ticked(lf) == [t \in Pcb |-> IF lf[t] > 0 THEN lf[t] - 1 ELSE 0]
Timer == Serving /\ Schedule(Now, Ticked(left)) /\ UNCHANGED loop

Sleep(n) ==
  /\ InSyscall
  /\ "naps" \in Discipline => n > 0
  /\ Block(Sleeping, [left EXCEPT ![current] = n])
  /\ UNCHANGED loop

\* do_spawn of the task with number t - 3.
Spawn(t) ==
  /\ InSyscall
  /\ t \notin {Idle, Shell}
  /\ "fresh" \in Discipline => status[t] = "UNUSED"
  /\ LET k == Put(Now, Ready, t, "READY")
     IN Becomes([k EXCEPT !.inQueue[t] = Ready, !.mem = QueueInit(@, t)])
  /\ UNCHANGED <<current, left, loop>>

\* do_waitpid of the pid of t, or of one that no PCB has.
WaitPid(t) == InSyscall /\ Alive(t) /\ Block(t, left) /\ UNCHANGED loop
WaitNobody == InSyscall /\ Schedule(Now, left) /\ UNCHANGED loop

\* The task t has left its queue for good: those who wait for it are readied.
Buried(k, t) ==
  Put(UnblockAll(k, t), Exited, t, "EXITED")

Exit ==
  /\ InSyscall
  /\ loop' = [kind |-> "exit", task |-> current]
  /\ UNCHANGED <<mem, status, inQueue, current, left>>

FinishExit ==
  /\ loop.kind = "exit"
  /\ Schedule(Buried(Now, current), left)
  /\ loop' = NoLoop

Killable(t) ==
  /\ InSyscall
  /\ Alive(t) /\ t # Shell
  /\ "others" \in Discipline => t # current
  /\ "idle" \in Discipline => t # Idle

KillReady(t) ==
  /\ Killable(t) /\ status[t] = "READY"
  /\ loop' = [kind |-> "kill", task |-> t]
  /\ UNCHANGED <<mem, status, inQueue, current, left>>

FinishKillReady ==
  /\ loop.kind = "kill"
  /\ Becomes(Buried(Take(Now, Ready, loop.task), loop.task))
  /\ loop' = NoLoop
  /\ UNCHANGED <<current, left>>

\* A blocked task is in the queue in_queue names; one that runs is in none.
KillElsewhere(t) ==
  /\ Killable(t) /\ status[t] # "READY"
  /\ Becomes(Buried(IF status[t] = "BLOCKED" THEN Take(Now, inQueue[t], t) ELSE Now, t))
  /\ UNCHANGED <<current, left, loop>>

Next ==
  \/ Timer
  \/ \E n \in SleepTimes : Sleep(n)
  \/ \E t \in Pcb : Spawn(t) \/ WaitPid(t) \/ KillReady(t) \/ KillElsewhere(t)
  \/ WaitNobody
  \/ Exit \/ FinishExit \/ FinishKillReady

-----------------------------------------------------------------------------
TypeOK ==
  /\ mem \in Memory
  /\ status \in [Pcb -> {"UNUSED", "READY", "BLOCKED", "RUNNING", "EXITED"}]
  /\ inQueue \in [Pcb -> QueueT]
  /\ current \in Pointer
  /\ left \in [Pcb -> Nat]
  /\ loop \in [kind : {"none", "exit", "kill"}, task : Pcb]

\* What following next from the head of q visits, up to the number of PCBs and one.
Line(m, q) ==
  LET visited[n \in 0..(Cardinality(Pcb) + 1)] ==
        IF n = 0 THEN <<>>
        ELSE LET s == visited[n - 1]
                 t == IF n = 1 THEN m.head[q] ELSE m.next[s[n - 1]]
             IN IF Len(s) < n - 1 \/ t = Null THEN s ELSE Append(s, t)
  IN visited[Cardinality(Pcb) + 1]

\* All of them.  (The choice is among one; it only makes TLC evaluate the function.)
Lines == CHOOSE f \in {[q \in QueueT |-> Line(mem, q)]} : f = f

\* The lists are the queues of Sched.
Abstract == INSTANCE Sched WITH
  Task <- Pcb, NoTask <- Null, Lock <- {}, Sem <- {}, NoLock <- Null, MaxLocks <- 1,
  Discipline <- {"idle"},
  queue <- Lines,
  lockStatus <- [l \in {} |-> "UNLOCKED"], lockNum <- [t \in Pcb |-> 0],
  slot <- [t \in Pcb |-> [i \in {0} |-> Null]],
  loop <- [kind |-> loop.kind, task |-> loop.task, i |-> 0], holds <- [l \in {} |-> {}]
=============================================================================
