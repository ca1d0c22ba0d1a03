------------------------------ MODULE PcbQueue ------------------------------
(***************************************************************************)
(* The callers of queue.c: they push items that are in no queue, dequeue   *)
(* from queues that are not empty and remove items from the queue they are *)
(* in.  (That the kernel does so is OnePlace, NeverFaults and              *)
(* StatusTellsPlace of Sched.)  Then the linked lists are queues.          *)
(***************************************************************************)
EXTENDS Links

VARIABLES
  mem,  \* the lists
  ret   \* what the last call returned

listVars == <<mem, ret>>

InitLists ==
  /\ mem = [head |-> [q \in QueueT |-> Null], tail |-> [q \in QueueT |-> Null],
            next |-> [x \in Pcb |-> Null],    prev |-> [x \in Pcb |-> Null]]
  /\ ret = Null

InQueue(q, x) == x \in Members(Walk(mem, q))

\* queue_init of a queue that is in use would lose its items.
Reset(q) ==
  /\ IsEmpty(mem, q)
  /\ mem' = QueueInit(mem, q)
  /\ UNCHANGED ret

Push(q, x) ==
  /\ \A r \in QueueT : ~ InQueue(r, x)
  /\ mem' = QueuePush(mem, q, x)
  /\ UNCHANGED ret

Dequeue(q) ==
  /\ ~ IsEmpty(mem, q)
  /\ ret' = Dequeued(mem, q)
  /\ mem' = QueueDequeue(mem, q)

Remove(q, x) ==
  /\ InQueue(q, x)
  /\ ret' = AfterRemoved(mem, x)
  /\ mem' = QueueRemove(mem, q, x)

NextLists ==
  \E q \in QueueT :
    \/ Reset(q)
    \/ \E x \in Pcb : Push(q, x) \/ Remove(q, x)
    \/ Dequeue(q)

ListsSpec == InitLists /\ [][NextLists]_listVars

-----------------------------------------------------------------------------
TypeOK == mem \in Memory /\ ret \in Pointer

\* Every list is what a walk from its head finds, also read backwards from its
\* tail, and no two lists share an item.
WellFormed ==
  /\ \A q \in QueueT : Walk(mem, q) \in Walks /\ Chain(mem, q, Walk(mem, q))
  /\ \A q, r \in QueueT :
       q # r => Members(Walk(mem, q)) \cap Members(Walk(mem, r)) = {}

\* The lists implement the queues.
Abstract == INSTANCE Fifo WITH line <- [q \in QueueT |-> Walk(mem, q)]
ImplementsFifo == Abstract!Spec
=============================================================================
