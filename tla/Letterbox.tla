------------------------------ MODULE Letterbox ------------------------------
(***************************************************************************)
(* What a mailbox promises: a message sent is received once, and senders   *)
(* wait while the box is full, receivers while it is empty.  The box hands *)
(* out the youngest message first (mailbox.c:113).                         *)
(***************************************************************************)
EXTENDS Integers, Sequences

CONSTANTS Task, Message, NoMessage, Capacity

VARIABLES
  box,  \* the messages in the box
  got   \* what each task received last

vars == <<box, got>>

Init == box = <<>> /\ got = [t \in Task |-> NoMessage]

Send(m) ==
  /\ Len(box) < Capacity
  /\ box' = Append(box, m)
  /\ UNCHANGED got

Receive(t) ==
  /\ box # <<>>
  /\ got' = [got EXCEPT ![t] = box[Len(box)]]
  /\ box' = SubSeq(box, 1, Len(box) - 1)

Next ==
  \/ \E m \in Message : Send(m)
  \/ \E t \in Task : Receive(t)

Spec == Init /\ [][Next]_vars
=============================================================================
