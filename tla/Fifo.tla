-------------------------------- MODULE Fifo --------------------------------
(***************************************************************************)
(* What queue.c promises: queues of items, of which an item can be in one  *)
(* at most, served first come first served.                                *)
(***************************************************************************)
EXTENDS Queues

CONSTANTS Pcb, QueueT, Null

VARIABLES
  line,  \* the items queued, head first
  ret    \* what the last call returned

Init == line = [q \in QueueT |-> <<>>] /\ ret = Null

Push(q, x) ==
  /\ \A r \in QueueT : x \notin Members(line[r])
  /\ line' = [line EXCEPT ![q] = Append(@, x)]
  /\ UNCHANGED ret

Dequeue(q) ==
  /\ line[q] # <<>>
  /\ ret' = Head(line[q])
  /\ line' = [line EXCEPT ![q] = Tail(@)]

\* Returns the item behind the one it removes.
Remove(q) ==
  \E k \in DOMAIN line[q] :
    /\ ret' = IF k = Len(line[q]) THEN Null ELSE line[q][k + 1]
    /\ line' = [line EXCEPT ![q] = Without(@, k)]

Next == \E q \in QueueT : (\E x \in Pcb : Push(q, x)) \/ Dequeue(q) \/ Remove(q)

Spec == Init /\ [][Next]_<<line, ret>>
=============================================================================
