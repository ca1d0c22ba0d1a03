------------------------------- MODULE Mailbox -------------------------------
(***************************************************************************)
(* do_mbox_send and do_mbox_recv (libs/mailbox.c) on one mailbox.  Each    *)
(* runs in the kernel, as a monitor whose mutex is mailbox.wait and whose  *)
(* conditions are mailbox.full and mailbox.empty; "reacquire" is the end   *)
(* of its do_condition_wait.                                               *)
(***************************************************************************)
EXTENDS Monitor

CONSTANTS
  Senders,    \* the tasks that send
  Receivers,  \* the tasks that receive
  Full,       \* mailbox.full.block_queue, where receivers wait
  Empty,      \* mailbox.empty.block_queue, where senders wait
  Capacity,   \* length of mailbox.msg[], 16 in the code
  Message,
  NoMessage   \* what is outside of msg[]

MailboxAssumption ==
  /\ Senders \cup Receivers \subseteq Task /\ Senders \cap Receivers = {}
  /\ Cond = {Full, Empty} /\ Full # Empty
  /\ Capacity \in Nat \ {0}
  /\ NoMessage \notin Message

VARIABLES
  msgNum,  \* mailbox.msg_num
  msg,     \* mailbox.msg[]
  got      \* what recv returned last

boxVars == <<msgNum, msg, got>>
mboxVars == <<vars, boxVars>>

InitMailbox ==
  /\ Init
  /\ msgNum = 0
  /\ msg = [i \in 0..(Capacity - 1) |-> NoMessage]
  /\ got = [t \in Task |-> NoMessage]

IsFull == msgNum = Capacity
IsEmpty == msgNum = 0

\* The condition task t waits on, and the one it signals.
WaitsOn(t) == IF t \in Senders THEN Empty ELSE Full
Signals(t) == IF t \in Senders THEN Full ELSE Empty

MustWait(t) == IF t \in Senders THEN IsFull ELSE IsEmpty

\* do_mbox_send or do_mbox_recv, up to the mutex.
Call ==
  /\ current \in Senders \cup Receivers
  /\ at[current] = "user"
  /\ Acquire("test")
  /\ UNCHANGED boxVars

\* The test, once, and the wait after it.
NoWait ==
  /\ at[current] = "test" /\ ~ MustWait(current)
  /\ at' = [at EXCEPT ![current] = "transfer"]
  /\ UNCHANGED <<ready, current, waiting, locked, boxVars>>

WaitForOther ==
  /\ at[current] = "test" /\ MustWait(current)
  /\ locked' = KeptForFirst
  /\ Block(ready \o waiting[Signals(current)] \o First(Mutex),
           FirstLeft(NoneLeft(waiting, Signals(current)), Mutex),
           WaitsOn(current), "reacquire")
  /\ UNCHANGED boxVars

TakeBack ==
  /\ at[current] = "reacquire"
  /\ Acquire("transfer")
  /\ UNCHANGED boxVars

\* msg[msg_num++] = m.  Behind msg[] lies mailbox.name.
Put(m) ==
  /\ msg' = IF msgNum \in DOMAIN msg THEN [msg EXCEPT ![msgNum] = m] ELSE msg
  /\ msgNum' = msgNum + 1
  /\ UNCHANGED got

\* m = msg[--msg_num].  In front of msg[0] lies what the linker puts there.
\* Mutant: the oldest message is taken.
TakeOldest ==
  /\ msgNum' = msgNum - 1
  /\ got' = [got EXCEPT ![current] = msg[0]]
  /\ UNCHANGED msg
Take ==
  /\ msgNum' = msgNum - 1
  /\ got' = [got EXCEPT ![current] =
               IF msgNum - 1 \in DOMAIN msg THEN msg[msgNum - 1] ELSE NoMessage]
  /\ UNCHANGED msg

\* The transfer, the signal to the other side and the release.  Mutant: nobody is
\* signalled.
NobodySignalled(t) == <<>>
Signalled(t) == First(Signals(t))
Transfer ==
  /\ at[current] = "transfer"
  /\ \/ current \in Senders /\ \E m \in Message : Put(m)
     \/ current \in Receivers /\ Take
  /\ locked' = KeptForFirst
  /\ ready' = ready \o Signalled(current) \o First(Mutex)
  /\ waiting' = FirstLeft(FirstLeft(waiting, Signals(current)), Mutex)
  /\ at' = [at EXCEPT ![current] = "user"]
  /\ UNCHANGED current

NextMailbox ==
  \/ Call \/ NoWait \/ WaitForOther \/ TakeBack \/ Transfer
  \/ Timer /\ UNCHANGED <<locked, boxVars>>

MailboxSpec == InitMailbox /\ [][NextMailbox]_mboxVars

-----------------------------------------------------------------------------
\* The wait of do_mbox_recv promises that no receiver reads in front of msg[]
\* (mailbox.c:106).
NeverUnderflows == msgNum >= 0

=============================================================================
