--------------------------------- MODULE Net ---------------------------------
(***************************************************************************)
(* Interrupts and the receive path of the network card: entry.S saves and  *)
(* restores the registers, irq.c chooses between card and timer, mac.c     *)
(* moves the ring of receive descriptors.  The kernel runs with interrupts *)
(* off; the card writes to the ring at any time.                           *)
(***************************************************************************)
EXTENDS Queues, FiniteSets

CONSTANTS
    Task,      \* user tasks
    Receiver,  \* the one that calls do_net_recv, for PNUM frames at a time
    Idle,      \* pcb[0]
    PNUM,      \* descriptors of the ring
    Interval   \* user steps between timer interrupts, 150000 cycles

NetAssumption ==
    /\ IsFiniteSet(Task) /\ Receiver \in Task /\ Idle \notin Task
    /\ PNUM \in Nat \ {0} /\ Interval \in Nat \ {0}

VARIABLES
    ready,     \* ready_queue[0]
    current,   \* current_running[0]
    waiting,   \* wait_recv_queue[0]
    at,        \* where each task is: in user code, in the kernel after an
               \*   interrupt, or before the check of a descriptor
    regs,      \* the registers of the processor: v0, and the rest of them
    context,   \* user_context of each task
    own,       \* the OWN bit of each receive descriptor: the card may fill it
    word,      \* recv_buffer[i * 32]: the kind of the frame in each buffer
    place,     \* the descriptor the card fills next
    cardDue,   \* the card's interrupt is pending
    timerDue,  \* the timer's interrupt is pending
    count,     \* CP0_COUNT
    left,      \* history: what each task put in its registers when it was last in
               \*   user code, and whether the kernel wrote the time over its v0 since
    junk       \* history: a frame came that is not a broadcast

taskVars == <<ready, current, waiting, at>>
cardVars == <<own, word, place, junk>>
timeVars == <<timerDue, count>>
regVars  == <<regs, context, left>>
vars     == <<taskVars, cardVars, timeVars, regVars, cardDue>>

Everyone == Task \cup {Idle}
Ring     == 0 .. PNUM - 1

\* The places of a task; the third is <<"check", i>>.
InUser    == <<"user">>
Interrupt == <<"interrupt">>

\* Two values stand for what tasks compute, a third for a time read by get_timer.
Time      == 2
Registers == [v0 : 0 .. Time, rest : {0, 1}]
Timed     == [set : {0, 1}, timed : BOOLEAN]

\* init_pcb and do_spawn set ra to first_entry: a new task leaves the kernel
\* like one that was interrupted.
Init ==
    /\ ready \in {s \in [1 .. Cardinality(Task) -> Task] : Distinct(s)}
    /\ current = Idle
    /\ waiting = <<>>
    /\ at = [t \in Everyone |-> IF t = Idle THEN InUser ELSE Interrupt]
    /\ regs = [v0 |-> 0, rest |-> 0]
    /\ context = [t \in Everyone |-> regs]
    /\ left = [t \in Everyone |-> [set |-> 0, timed |-> FALSE]]
    /\ own = [i \in Ring |-> FALSE]
    /\ word = [i \in Ring |-> "none"]
    /\ place = 0
    /\ cardDue = FALSE
    /\ timerDue = FALSE
    /\ count = 0
    /\ junk = FALSE

----------------------------------------------------------------------------
(* User code and the card                                                  *)

Interrupted == cardDue \/ timerDue

UserStep ==
    /\ at[current] = InUser
    /\ ~ Interrupted
    /\ regs' = [v0 |-> 1 - regs.rest, rest |-> 1 - regs.rest]
    /\ left' = [left EXCEPT ![current] = [set |-> regs'.rest, timed |-> FALSE]]
    /\ count' = count + 1
    /\ timerDue' = (count' = Interval)
    /\ UNCHANGED <<taskVars, cardVars, cardDue, context>>

\* The card fills the descriptors in the order of the ring and stops at one
\* that is not its own.
Arrive(kind) ==
    /\ own[place]
    /\ own' = [own EXCEPT ![place] = FALSE]
    /\ word' = [word EXCEPT ![place] = kind]
    /\ place' = (place + 1) % PNUM
    /\ cardDue' = TRUE
    /\ junk' = (junk \/ kind # "broadcast")
    /\ UNCHANGED <<taskVars, timeVars, regVars>>

----------------------------------------------------------------------------
(* Entering and leaving the kernel                                         *)

\* SAVE_CONTEXT.  Mutant: it is forgotten.
NotSaved == context
Saved == [context EXCEPT ![current] = regs]

\* get_timer, which check_sleeping calls for every sleeper, returns the time in the
\* saved v0 of the task that leaves the processor, as if it had asked for it.
GetTimer(saved, sleepers) ==
    /\ context' = [saved EXCEPT ![current].v0 = IF sleepers THEN Time ELSE @]
    /\ left' = [left EXCEPT ![current].timed = @ \/ sleepers]

\* do_scheduler: the current task leaves the processor; again is <<current>>
\* unless it blocks.  Anybody may be asleep.
Line(again) == ready \o again
Switch(again, saved) ==
    /\ \E sleepers \in BOOLEAN : GetTimer(saved, sleepers)
    /\ current' = Head(Line(again))
    /\ ready' = Tail(Line(again))

\* A card interrupt hides the timer's: interrupt_helper serves one of them.
TimerServed == ~ cardDue
TimerInterrupt ==
    /\ at[current] = InUser /\ timerDue /\ TimerServed
    /\ at' = [at EXCEPT ![current] = Interrupt]
    /\ Switch(<<current>>, Saved)
    /\ UNCHANGED <<waiting, cardVars, timeVars, cardDue, regs>>

\* The registers that RESTORE_CONTEXT loads.
Restored == context[current]

\* first_entry: the end of handle_int.  It also restarts the timer.
LeaveInterrupt ==
    /\ at[current] = Interrupt
    /\ at' = [at EXCEPT ![current] = InUser]
    /\ regs' = Restored
    /\ count' = 0
    /\ timerDue' = FALSE
    /\ UNCHANGED <<ready, current, waiting, cardVars, cardDue, context, left>>

----------------------------------------------------------------------------
(* mac_irq_handle                                                          *)

\* A filled descriptor is kept if its frame is a broadcast, and given back to the
\* card otherwise.
GivenBack(i) == ~ own[i] /\ word[i] # "broadcast"
RingAfter == [i \in Ring |-> own[i] \/ GivenBack(i)]

\* Mutant: the receiver is woken by any frame.
SomeFilled == \E i \in Ring : ~ RingAfter[i]
AllFilled == \A i \in Ring : ~ RingAfter[i]

CardInterrupt ==
    /\ at[current] = InUser /\ cardDue
    /\ context' = Saved
    /\ at' = [at EXCEPT ![current] = Interrupt]
    /\ cardDue' = FALSE
    /\ own' = RingAfter
    /\ ready' = IF AllFilled THEN ready \o waiting ELSE ready
    /\ waiting' = IF AllFilled THEN <<>> ELSE waiting
    /\ UNCHANGED <<current, word, place, junk, timeVars, regs, left>>

----------------------------------------------------------------------------
(* do_net_recv                                                             *)

\* mac_recv_desc_init, and the ring is handed to the card from its first place.
Recv ==
    /\ current = Receiver /\ at[current] = InUser /\ ~ Interrupted
    /\ context' = Saved
    /\ own' = [i \in Ring |-> TRUE]
    /\ place' = 0
    /\ cardDue' = FALSE
    /\ at' = [at EXCEPT ![current] = <<"check", 0>>]
    /\ UNCHANGED <<ready, current, waiting, word, junk, timeVars, regs, left>>

\* One step of the loop of mac_recv_handle: it waits at most once for each
\* descriptor.
Check ==
    \E i \in Ring :
        /\ at[current] = <<"check", i>>
        /\ at' = [at EXCEPT ![current] = <<"check", i + 1>>]
        /\ IF own[i] THEN Switch(<<>>, context) /\ waiting' = Append(waiting, current)
                     ELSE UNCHANGED <<ready, current, waiting, context, left>>
        /\ UNCHANGED <<cardVars, timeVars, regs, cardDue>>

\* handle_syscall: the timer goes on.
LeaveCall ==
    /\ at[current] = <<"check", PNUM>>
    /\ at' = [at EXCEPT ![current] = InUser]
    /\ regs' = Restored
    /\ UNCHANGED <<ready, current, waiting, cardVars, timeVars, cardDue, context, left>>

----------------------------------------------------------------------------

Kernel == TimerInterrupt \/ CardInterrupt \/ LeaveInterrupt \/ Check \/ LeaveCall
Next == UserStep \/ Kernel \/ Recv \/ \E kind \in {"broadcast", "other"} : Arrive(kind)

Spec == Init /\ [][Next]_vars

\* What is left of the registers a task set: all of them, or all but v0.
Kept(t) == [v0 |-> IF left[t].timed THEN Time ELSE left[t].set, rest |-> left[t].set]

\* What a task finds in the registers when it is in user code again is what it
\* left there, through every mixture of interrupts, switches and waits: all but v0,
\* which it loses exactly when it left the processor while somebody slept; nobody
\* finds a register of another.
RegistersKept ==
    /\ at[current] = InUser => regs = Kept(current)
    /\ \A t \in Everyone \ {current} : context[t] = Kept(t)

\* do_net_recv returns with a frame in every buffer, although it asks once for
\* each descriptor and others were filled and given back meanwhile; and each is a
\* broadcast unless the card's interrupt came too late to be served.
ReturnsFrames ==
    at[Receiver] = <<"check", PNUM>> /\ Receiver \notin Members(waiting) =>
        \A i \in Ring : ~ own[i] /\ (word[i] = "broadcast" \/ cardDue)

\* Nobody waits for frames that are all there, unless the interrupt that will
\* wake him is still to come.
NoLostWakeUp ==
    (waiting # <<>> /\ ~ cardDue) => \E i \in Ring : own[i]

----------------------------------------------------------------------------
(* The invariant behind these properties                                   *)

Checking == {<<"check", i>> : i \in 0 .. PNUM}

TypeOK ==
    /\ ready \in Seq(Everyone) /\ current \in Everyone /\ waiting \in Seq(Everyone)
    /\ at \in [Everyone -> {InUser, Interrupt} \cup Checking]
    /\ regs \in Registers /\ context \in [Everyone -> Registers] /\ left \in [Everyone -> Timed]
    /\ own \in [Ring -> BOOLEAN] /\ word \in [Ring -> {"none", "broadcast", "other"}] /\ place \in Ring
    /\ cardDue \in BOOLEAN

\* The idle task never waits, and only the receiver checks descriptors.
Manned ==
    /\ Idle \in Members(ready) \cup {current}
    /\ \A t \in Everyone : at[t] \in Checking => t = Receiver

\* Who is not in user code has its registers in its save area.
Saves ==
    \A t \in Everyone :
        IF t = current /\ at[t] = InUser THEN regs = Kept(t) ELSE at[t] # InUser /\ context[t] = Kept(t)

\* The descriptors that were checked are filled, in a wait or because nothing has given
\* them back meanwhile: the receiver has not left the processor, or the ring is full.
Receiving ==
    \A n \in 0 .. PNUM : (at[Receiver] = <<"check", n>> /\ Receiver \notin Members(waiting)) =>
        /\ \A i \in Ring : i < n => ~ own[i]
        /\ \A i \in Ring : ~ own[i] => word[i] = "broadcast" \/ cardDue
        /\ current # Receiver => \A i \in Ring : ~ own[i] /\ word[i] = "broadcast"

NetInv == TypeOK /\ Manned /\ Saves /\ Receiving /\ NoLostWakeUp

=============================================================================
