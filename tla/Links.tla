-------------------------------- MODULE Links --------------------------------
(***************************************************************************)
(* The doubly linked lists of kernel/sched/queue.c.  A queue_t is a head   *)
(* and a tail; the links are the fields next and prev of the items (PCBs), *)
(* so an item has one pair of links for all queues.  Each function of      *)
(* queue.c maps the memory m it finds to the memory it leaves.             *)
(***************************************************************************)
EXTENDS Queues, FiniteSets

CONSTANTS
  Pcb,     \* the items
  QueueT,  \* the queue_t objects
  Null

ASSUME LinksAssumption == IsFiniteSet(Pcb) /\ Null \notin Pcb

Pointer == Pcb \cup {Null}

Memory == [head : [QueueT -> Pointer], tail : [QueueT -> Pointer],
           next : [Pcb -> Pointer],    prev : [Pcb -> Pointer]]

IsEmpty(m, q) == m.head[q] = Null

QueueInit(m, q) == [m EXCEPT !.head[q] = Null, !.tail[q] = Null]

PushForgetsTail(m, q, x) ==
  IF IsEmpty(m, q)
  THEN [m EXCEPT !.head[q] = x, !.tail[q] = x, !.next[x] = Null, !.prev[x] = Null]
  ELSE [m EXCEPT !.next = [@ EXCEPT ![m.tail[q]] = x, ![x] = Null],
                 !.prev[x] = m.tail[q]]
QueuePush(m, q, x) ==
  IF IsEmpty(m, q)
  THEN [m EXCEPT !.head[q] = x, !.tail[q] = x, !.next[x] = Null, !.prev[x] = Null]
  ELSE [m EXCEPT !.next = [@ EXCEPT ![m.tail[q]] = x, ![x] = Null],
                 !.prev[x] = m.tail[q],
                 !.tail[q] = x]

\* The item queue_dequeue returns; the queue must not be empty.
Dequeued(m, q) == m.head[q]
QueueDequeue(m, q) ==
  LET temp == m.head[q]
  IN IF m.next[temp] = Null
     THEN [m EXCEPT !.head[q] = Null, !.tail[q] = Null,
                    !.next[temp] = Null, !.prev[temp] = Null]
     ELSE [m EXCEPT !.head[q] = m.next[temp],
                    !.next[temp] = Null,
                    !.prev = [@ EXCEPT ![m.next[temp]] = Null, ![temp] = Null]]

\* The part of queue_remove that leaves x's own links alone.
Unlink(m, q, x) ==
  CASE x = m.head[q] /\ x = m.tail[q] ->
         [m EXCEPT !.head[q] = Null, !.tail[q] = Null]
    [] x = m.head[q] /\ x # m.tail[q] ->
         [m EXCEPT !.head[q] = m.next[x], !.prev[m.next[x]] = Null]
    [] x # m.head[q] /\ x = m.tail[q] ->
         [m EXCEPT !.tail[q] = m.prev[x], !.next[m.prev[x]] = Null]
    [] x # m.head[q] /\ x # m.tail[q] ->
         [m EXCEPT !.next[m.prev[x]] = m.next[x], !.prev[m.next[x]] = m.prev[x]]

\* The item queue_remove returns: "the next item".
AfterRemoved(m, x) == m.next[x]
QueueRemove(m, q, x) ==
  [Unlink(m, q, x) EXCEPT !.next[x] = Null, !.prev[x] = Null]

-----------------------------------------------------------------------------
(* The sequence a list stands for.                                         *)

\* Following next from the head of q visits s, and then ends.
Visits(m, q, s) ==
  IF s = <<>> THEN m.head[q] = Null
  ELSE /\ m.head[q] = s[1]
       /\ \A i \in 1..(Len(s) - 1) : m.next[s[i]] = s[i + 1]
       /\ m.next[s[Len(s)]] = Null

Walks == UNION {[1..n -> Pcb] : n \in 0..Cardinality(Pcb)}

Walk(m, q) == CHOOSE s \in Walks : Visits(m, q, s)

\* The tail and the prev links agree with that walk.
Chain(m, q, s) ==
  /\ Visits(m, q, s)
  /\ Distinct(s)
  /\ m.tail[q] = IF s = <<>> THEN Null ELSE s[Len(s)]
  /\ \A i \in DOMAIN s : m.prev[s[i]] = IF i = 1 THEN Null ELSE s[i - 1]
=============================================================================
