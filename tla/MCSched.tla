------------------------------ MODULE MCSched ------------------------------
(* Small instances of Sched: the boot task, the shell and up to two more   *)
(* slots.                                                                  *)
EXTENDS Sched, TLC
CONSTANTS idle, shell, a, b, l1, l2, s1
Three == {idle, shell, a}
Four == {idle, shell, a, b}
ExitHoldingTwo == Promises \ {"exit"}
Waiting == Promises \ {"wait"}
AnyReleaseOrder == Promises \ {"lifo"}
Alike == Permutations({a, b}) \cup Permutations({l1, l2})
=============================================================================
