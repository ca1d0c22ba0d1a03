------------------------------- MODULE Sorting -------------------------------
(***************************************************************************)
(* Two sorting exercises: quicksort with a stack of its own, which sorts   *)
(* three or fewer by comparing (10.30), and selection sort of a linked     *)
(* list, which exchanges nodes and not keys (10.33).                       *)
(***************************************************************************)
EXTENDS Integers, Sequences, FiniteSets, FiniteSetsExt

CONSTANTS Key, MaxLen

VARIABLES
    kind,   \* "quick" or "select"
    key,    \* the keys: of r[], or of the nodes of the list
    range,  \* <<low, high>>; low < 0 when a range is to be popped
    stack,  \* the bounds pushed
    next,   \* the links: node 0 is the head, 0 stands for NULL
    i,      \* the place selected for
    given   \* history: the keys to be sorted

vars == <<kind, key, range, stack, next, i, given>>

Length == Len(key)

Swap(r, a, b) == [r EXCEPT ![a] = r[b], ![b] = r[a]]
Ordered(r, a, b) == IF r[a] > r[b] THEN Swap(r, a, b) ELSE r

----------------------------------------------------------------------------
\* 10.30

\* The scans from both ends, until they meet: the array and the pivot's place.
RECURSIVE Partitioned(_, _, _, _)
Partitioned(r, low, high, pivotkey) ==
    IF low >= high THEN [r |-> [r EXCEPT ![low] = pivotkey], loc |-> low]
    ELSE LET h == Max({low} \cup {k \in low + 1 .. high : r[k] < pivotkey})
             down == [r EXCEPT ![low] = r[h]]
             l == Min({h} \cup {k \in low .. h - 1 : down[k] > pivotkey})
         IN  Partitioned([down EXCEPT ![h] = down[l]], l, h, pivotkey)

\* Three or fewer.
Compared(r, low, high) ==
    CASE high - low = 2 -> Ordered(Ordered(Ordered(r, low, high), low, low + 1), low + 1, high)
      [] high - low = 1 -> Ordered(r, low, high)
      [] OTHER -> r

\* The part after the pivot is sorted first when it is not the longer one.
Shorter(low, loc, high) == high - loc - 1 <= loc - 1 - low

\* One round of QuikSort's loop.
QuikSort ==
    LET top == Len(stack)
        popped == range[1] < 0
        low == IF popped THEN stack[top - 1] ELSE range[1]
        high == IF popped THEN stack[top] ELSE range[2]
        left == IF popped THEN SubSeq(stack, 1, top - 2) ELSE stack
        part == Partitioned(key, low, high, key[low])
    IN  /\ kind = "quick" /\ (stack # <<>> \/ range = <<1, Length>>)
        /\ \/ /\ high - low <= 2
              /\ key' = Compared(key, low, high)
              /\ range' = <<-1, -1>>
              /\ stack' = left
           \/ /\ high - low > 2
              /\ key' = part.r
              /\ IF Shorter(low, part.loc, high)
                 THEN range' = <<part.loc + 1, high>> /\ stack' = left \o <<low, part.loc - 1>>
                 ELSE range' = <<low, part.loc - 1>> /\ stack' = left \o <<part.loc + 1, high>>
        /\ UNCHANGED <<kind, next, i, given>>

----------------------------------------------------------------------------
\* 10.33

\* The node at place n of the list, place 0 being the head.
At[n \in Nat] == IF n = 0 THEN 0 ELSE next[At[n - 1]]

\* The first of the smallest keys from place start on.
SelectMinKey(start) ==
    CHOOSE p \in start .. Length :
        \A q \in start .. Length : key[At[p]] <= key[At[q]] /\ (q < p => key[At[p]] < key[At[q]])

swap(num1, num2) ==
    LET p1 == At[num1 - 1]
        p2 == At[num2 - 1]
        h1 == next[p1]
        h2 == next[p2]
    IN  IF num2 - num1 = 1 THEN [next EXCEPT ![p1] = h2, ![h2] = h1, ![h1] = next[h2]]
        ELSE [next EXCEPT ![p1] = h2, ![h2] = next[h1], ![p2] = h1, ![h1] = next[h2]]

SelectSort ==
    /\ kind = "select" /\ i < Length
    /\ next' = LET j == SelectMinKey(i) IN IF i # j THEN swap(i, j) ELSE next
    /\ i' = i + 1
    /\ UNCHANGED <<kind, key, range, stack, given>>

----------------------------------------------------------------------------

Init ==
    /\ \E n \in 1 .. MaxLen : key \in [1 .. n -> Key]
    /\ \/ kind = "quick" /\ range = <<1, Length>> /\ next = <<>>
       \/ kind = "select" /\ range = <<>> /\ next = [n \in 0 .. Length |-> (n + 1) % (Length + 1)]
    /\ stack = <<>> /\ i = 1
    /\ given = key

Next == QuikSort \/ SelectSort

Spec == Init /\ [][Next]_vars

----------------------------------------------------------------------------

\* What is still to be sorted by quicksort: the range at hand and those on the stack.
Pending ==
    {<<stack[2 * s - 1], stack[2 * s]>> : s \in 1 .. Len(stack) \div 2}
        \cup (IF range[1] < 0 THEN {} ELSE {range})

\* Keys out of order lie in one range that is still to be sorted, and the ranges on the
\* stack are few: the shorter part goes first.  No key is lost or doubled.
QuickRight ==
    kind = "quick" =>
        /\ \A a, b \in 1 .. Length : a < b /\ key[a] > key[b] =>
              \E p \in Pending : p[1] <= a /\ b <= p[2]
        /\ \A k \in Key : Cardinality({a \in 1 .. Length : key[a] = k}) =
                         Cardinality({a \in 1 .. Length : given[a] = k})
        /\ 2^(Len(stack) \div 2) <= Length
        /\ stack = <<>> => range \in {<<1, Length>>, <<-1, -1>>}

\* The list keeps its nodes, and the places before i hold the smallest keys in order.
SelectRight ==
    kind = "select" =>
        /\ {At[n] : n \in 1 .. Length} = 1 .. Length /\ next[At[Length]] = 0
        /\ \A a, b \in 1 .. Length : a < b /\ a < i => key[At[a]] <= key[At[b]]
=============================================================================
