-------------------------------- MODULE Kernel --------------------------------
(***************************************************************************)
(* The parts of the operating system that rest on the scheduler, side by   *)
(* side: a behaviour is one of the queues, the processes on these queues,  *)
(* the barrier, the condition variables, a mailbox, the table of mailboxes *)
(* or the network card.  The barrier and the queues have their own         *)
(* variables; the others keep theirs in a, b, c and so on.                 *)
(***************************************************************************)
EXTENDS Barrier, PcbQueue

CONSTANTS
  Slot, Boot, Shell,                                            \* of Processes
  ReadyQueue, BlockQueue, ExitQueue, SleepTimes, Discipline,
  Mutex, Full,                                                  \* of Monitor
  Senders, Receivers, Empty, Capacity, Message, NoMessage,      \* of Mailbox
  NumBox, Name, NoName, User, MaxOpens,                         \* of MailboxTable
  NetTask, Receiver, PNUM, Interval                             \* of Net

VARIABLES part, a, b, c, d, e, f, g, h, i, j, k

Procs == INSTANCE Processes WITH
           Pcb <- Slot, QueueT <- {ReadyQueue, BlockQueue, ExitQueue} \cup Slot, Idle <- Boot,
           Ready <- ReadyQueue, Sleeping <- BlockQueue, Exited <- ExitQueue,
           mem <- a, status <- b, inQueue <- c, current <- d, left <- e, loop <- f
Cnd == INSTANCE Monitor WITH Cond <- {Full}, locked <- a
Mail == INSTANCE Mailbox WITH
          Cond <- {Full, Empty}, locked <- a, msgNum <- b, msg <- c, got <- d
Table == INSTANCE MailboxTable WITH name <- a, refer <- b, handle <- c
Card == INSTANCE Net WITH
          Task <- NetTask, waiting <- a, regs <- b, context <- c, own <- d, word <- e, place <- f,
          cardDue <- g, timerDue <- h, count <- i, left <- j, junk <- k

ASSUME KernelAssumption ==
  /\ Procs!ProcessesAssumption /\ Cnd!MonitorAssumption
  /\ Mail!MonitorAssumption /\ Mail!MailboxAssumption
  /\ Table!TableAssumption /\ Card!NetAssumption

barrierVars == <<nowNum, arrived>>
allVars == <<part, taskVars, barrierVars, listVars, a, b, c, d, e, f, g, h, i, j, k>>

-----------------------------------------------------------------------------

NoTasks ==
  /\ ready = <<>> /\ current = Idle
  /\ waiting = [q \in Object |-> <<>>]
  /\ at = [t \in Everyone |-> "user"]

NoRounds == nowNum = 0 /\ arrived = [t \in Task |-> 0]

\* The variables from g, from e or from b on are not used.
OffFromG == g = "off" /\ h = "off" /\ i = "off" /\ j = "off" /\ k = "off"
OffFromE == e = "off" /\ f = "off" /\ OffFromG
OffFromB == b = "off" /\ c = "off" /\ d = "off" /\ OffFromE

InitParts ==
  /\ InitLists
  /\ \/ part = "lists" /\ NoTasks /\ NoRounds /\ a = "off" /\ OffFromB
     \/ part = "processes" /\ Procs!Init /\ NoTasks /\ NoRounds /\ OffFromG
     \/ part = "barrier" /\ Init /\ a = "off" /\ OffFromB
     \/ part = "cond" /\ Cnd!Init /\ NoRounds /\ OffFromB
     \/ part = "mailbox" /\ Mail!InitMailbox /\ NoRounds /\ OffFromE
     \/ part = "names" /\ Table!Init /\ NoTasks /\ NoRounds /\ d = "off" /\ OffFromE
     \/ part = "net" /\ Card!Init /\ NoRounds /\ waiting = [q \in Object |-> <<>>]

\* A step of one of the parts.
InLists(A) == part = "lists" /\ A /\ UNCHANGED <<part, taskVars, barrierVars, a, b, c, d, e, f, g, h, i, j, k>>
InProcs(A) == part = "processes" /\ A /\ UNCHANGED <<part, taskVars, barrierVars, listVars, g, h, i, j, k>>
InBarrier(A) == part = "barrier" /\ A /\ UNCHANGED <<part, listVars, a, b, c, d, e, f, g, h, i, j, k>>
InCond(A) == part = "cond" /\ A /\ UNCHANGED <<part, listVars, barrierVars, b, c, d, e, f, g, h, i, j, k>>
InMailbox(A) == part = "mailbox" /\ A /\ UNCHANGED <<part, listVars, barrierVars, e, f, g, h, i, j, k>>
InNames(A) == part = "names" /\ A /\ UNCHANGED <<part, taskVars, listVars, barrierVars, d, e, f, g, h, i, j, k>>
InNet(A) == part = "net" /\ A /\ UNCHANGED <<part, listVars, barrierVars, waiting>>

NextOfPart ==
  \/ InLists(NextLists)
  \/ InProcs(Procs!Next)
  \/ InBarrier(Next)
  \/ InCond(Cnd!Next)
  \/ InMailbox(Mail!NextMailbox)
  \/ InNames(Table!Next)
  \/ InNet(Card!Next)

PartsSpec == InitParts /\ [][NextOfPart]_allVars

\* The fairness of each part's own FairSpec.
Tick ==
  \/ InBarrier(Timer /\ UNCHANGED barrierVars)
  \/ InCond(Cnd!Timer /\ UNCHANGED a)
  \/ InMailbox(Mail!Timer /\ UNCHANGED <<a, b, c, d>>)
  \/ InNet(Card!UserStep)

InKernel ==
  \/ InCond(Cnd!Reacquire)
  \/ InMailbox(Mail!NoWait \/ Mail!WaitForOther \/ Mail!TakeBack \/ Mail!Transfer)
  \/ InNet(Card!Kernel)

Calls(t) ==
  /\ current = t
  /\ \/ InBarrier(BarrierWait)
     \/ InCond(Cnd!Unlock \/ Cnd!Wait(Full))
     \/ InMailbox(Mail!Call)

FairPartsSpec ==
  /\ PartsSpec
  /\ WF_allVars(Tick)
  /\ WF_allVars(InKernel)
  /\ WF_allVars(InNet(Card!Arrive("broadcast")))
  /\ \A t \in Task : SF_allVars(Calls(t))

-----------------------------------------------------------------------------

\* What do_spawn, do_sleep, do_exit, do_kill, do_waitpid, check_sleeping and
\* scheduler() do to the linked lists is what Sched says they do to queues, as long
\* as programs spawn each task once, sleep a tick at least and kill others only.
ImplementsSched ==
  /\ part = "processes" => Procs!Abstract!Init
  /\ [][part = "processes" => Procs!Abstract!Next \/ UNCHANGED Procs!Abstract!vars]_allVars

\* With one sender and one receiver a mailbox implements a bounded box: each
\* message sent is received once, the youngest first.
Box == INSTANCE Letterbox WITH
         box <- IF part = "mailbox" THEN [n \in 1 .. b |-> c[n - 1]] ELSE <<>>,
         got <- IF part = "mailbox" THEN d ELSE [t \in Task |-> NoMessage]
DeliversEachOnce == Box!Spec

\* do_mbox_open gives every name one box and no program has a box open whose name
\* is gone; a mutex has one holder, through waits and signals, and a task is in one
\* queue.
NothingTwice ==
  /\ part = "names" => Table!OneBoxPerName
  /\ part = "cond" => Cnd!MutualExclusion /\ Cnd!OnePlace

\* What a task finds in the registers when it is in user code again is what it
\* left there, through every mixture of interrupts, switches and waits.
RegistersKept == part = "net" => Card!RegistersKept

\* do_net_recv returns with a frame in every buffer, and nobody waits for frames
\* that are all there.
ReturnsFrames == part = "net" => Card!ReturnsFrames /\ Card!NoLostWakeUp

\* Task t waits: at the barrier; for the mutex, woken by a condition; to send or
\* receive a message; for frames.
Waits(t) ==
  \/ part = "barrier" /\ t \in Members(waiting[Bar])
  \/ part = "cond" /\ at[t] = "reacquire" /\ t \notin Members(waiting[Full])
  \/ part = "mailbox" /\ at[t] # "user"
  \/ part = "net" /\ t = Receiver /\ a # <<>>

\* ... and has what it waited for, or a frame came that is not a broadcast.
Served(t) ==
  \/ part = "barrier" /\ t \notin Members(waiting[Bar])
  \/ part = "cond" /\ t \in Cnd!Holders
  \/ part = "mailbox" /\ at[t] = "user"
  \/ part = "net" /\ (a = <<>> \/ k)

\* Every wait ends: at a barrier as many tasks use as its goal says, in
\* do_condition_wait once the condition is signalled, in do_mbox_send and
\* do_mbox_recv of one sender and one receiver, and in do_net_recv as long as
\* only broadcasts come.
CallsReturn ==
  \A t \in Task \cup {Receiver} : Waits(t) ~> Served(t)
=============================================================================
