------------------------------- MODULE Queues -------------------------------
(***************************************************************************)
(* A queue_t as the sequence of the items it links, head first.  queue_push *)
(* is Append and queue_dequeue is Head and Tail of the Sequences module.   *)
(***************************************************************************)
EXTENDS Integers, Sequences

Members(s) == {s[i] : i \in DOMAIN s}

Distinct(s) == \A i, j \in DOMAIN s : s[i] = s[j] => i = j

\* queue_remove of the item at place k.
NotRemoved(s, k) == s
Without(s, k) ==
  [i \in 1..(Len(s) - 1) |-> IF i < k THEN s[i] ELSE s[i + 1]]
=============================================================================
