------------------------------- MODULE Storage -------------------------------
(***************************************************************************)
(* The exercises on storage: blocks in use are given back to a ring of     *)
(* free blocks (8.13), to the lists of a buddy system (8.14), and the free *)
(* cells of a heap are linked into a list (8.15).  Memory is 0 .. Size - 1 *)
(* and every block is given back once; 8.14's memory is 2^Top cells, less  *)
(* than its ten lists hold.                                                *)
(***************************************************************************)
EXTENDS Integers, Sequences, FiniteSets, SequencesExt

CONSTANTS Size, Top

VARIABLES
    kind,   \* "ring", "buddy" or "cells"
    used,   \* the blocks in use; for "cells" the tags read
    free,   \* the ring from first on, the lists L[k] or the list
    pav     \* the last block touched; for "cells" j

vars == <<kind, used, free, pav>>

Block(h, s) == [head |-> h, size |-> s]
Span(b) == b.head .. b.head + b.size - 1
Heads(S) == SelectSeq([i \in 1 .. Size + 2^Top |-> i - 1], LAMBDA h : \E b \in S : b.head = h)
InOrder(S) == [i \in DOMAIN Heads(S) |-> CHOOSE b \in S : b.head = Heads(S)[i]]

----------------------------------------------------------------------------
\* 8.13: the ring.

\* A mutant of GetLeft: the block before is not looked for.
NoLeft(head) == {}

GetLeft(head) == {i \in DOMAIN free : free[i].head + free[i].size = head}
GetRight(head, size) == {i \in DOMAIN free : head + size = free[i].head}

GetBack(b) ==
    LET left == GetLeft(b.head)
        right == GetRight(b.head, b.size)
    IN  /\ b \in used
        /\ used' = used \ {b}
        /\ \/ /\ left = {} /\ right = {}
              /\ free' = InsertAt(free, pav + 1, b)
              /\ pav' = pav + 1
           \/ \E r \in right :
              /\ left = {}
              /\ free' = [free EXCEPT ![r] = Block(b.head, @.size + b.size)]
              /\ pav' = r
           \/ \E l \in left :
              /\ right = {}
              /\ free' = [free EXCEPT ![l].size = @ + b.size]
              /\ pav' = l
           \/ \E l \in left, r \in right :
              LET rest == RemoveAt([free EXCEPT ![l].size = @ + free[r].size + b.size], r)
                  at == IF r < l THEN l - 1 ELSE l
              IN  \* the block after is freed; first moves off it
                  IF r = 1 THEN /\ free' = SubSeq(rest, at, Len(rest)) \o SubSeq(rest, 1, at - 1)
                                /\ pav' = 1
                           ELSE free' = rest /\ pav' = at

RingBack == kind = "ring" /\ (\E b \in used : GetBack(b)) /\ UNCHANGED kind

----------------------------------------------------------------------------
\* 8.14: the buddies.

buddy(h, k) == IF h % 2^(k + 1) = 0 THEN h + 2^k ELSE h - 2^k

IsFree(L, h, k) == h \in Range(L[k])

Delete(L, h, k) == [L EXCEPT ![k] = SelectSeq(@, LAMBDA x : x # h)]

\* Before the first block at a higher address.
Insert(L, h, k) ==
    [L EXCEPT ![k] = SelectSeq(@, LAMBDA x : x < h) \o <<h>> \o SelectSeq(@, LAMBDA x : x > h)]

RECURSIVE Returned(_, _, _)
Returned(L, h, k) ==
    LET b == buddy(h, k)
    IN  IF IsFree(L, b, k) THEN Returned(Delete(L, b, k), IF h < b THEN h ELSE b, k + 1)
        ELSE Insert(L, h, k)

BuddyBack ==
    /\ kind = "buddy"
    /\ \E b \in used :
          /\ used' = used \ {b}
          /\ free' = Returned(free, b.head, CHOOSE k \in 0 .. Top : b.size = 2^k)
    /\ UNCHANGED <<kind, pav>>

----------------------------------------------------------------------------
\* 8.15: the cells, of size 1 from lowbound 0.

GetIn(tag) ==
    LET i == Len(used)
        last == Len(free)
    IN  /\ kind = "cells" /\ i < Size
        /\ used' = Append(used, tag)
        /\ \/ /\ tag = 1
              /\ UNCHANGED <<free, pav>>
           \/ /\ tag = 0 /\ free # <<>> /\ free[last].head + pav = i
              /\ free' = [free EXCEPT ![last].size = @ + 1]
              /\ pav' = pav + 1
           \/ /\ tag = 0 /\ (free # <<>> => free[last].head + pav # i)
              /\ free' = Append(free, Block(i, 1))
              /\ pav' = 1
        /\ UNCHANGED kind

----------------------------------------------------------------------------

\* Memory cut into blocks.
Cuts == {{Block(c, (CHOOSE d \in (C \cup {Size}) : d > c /\ \A e \in C : e > c => d <= e) - c) : c \in C} :
            C \in {D \in SUBSET (0 .. Size - 1) : 0 \in D}}

RECURSIVE Halved(_, _)
Halved(h, k) ==
    {{Block(h, 2^k)}} \cup
        IF k = 0 THEN {} ELSE {a \cup b : a \in Halved(h, k - 1), b \in Halved(h + 2^(k - 1), k - 1)}

Apart(f, g) == f.head + f.size # g.head
NotBuddies(f, g) == f.size # g.size \/ f.head # g.head + g.size \/ g.head % (2 * g.size) # 0

\* The input names free blocks that could not be put together.
Init ==
    \/ /\ kind = "ring"
       /\ \E blocks \in Cuts : \E F \in {S \in SUBSET blocks : S # {} /\ \A f, g \in S : Apart(f, g)} :
             used = blocks \ F /\ free = InOrder(F)
       /\ pav = 1
    \/ /\ kind = "buddy"
       /\ \E blocks \in Halved(0, Top) : \E F \in {S \in SUBSET blocks : \A f, g \in S : NotBuddies(f, g)} :
             used = blocks \ F /\ free = [k \in 0 .. Top |-> Heads({f \in F : f.size = 2^k})]
       /\ pav = 0
    \/ kind = "cells" /\ used = <<>> /\ free = <<>> /\ pav = 1

Next == RingBack \/ BuddyBack \/ \E tag \in {0, 1} : GetIn(tag)

Spec == Init /\ [][Next]_vars

----------------------------------------------------------------------------

Blocks ==
    IF kind = "buddy" THEN UNION {{Block(h, 2^k) : h \in Range(free[k])} : k \in 0 .. Top} ELSE Range(free)

InUse ==
    CASE kind = "cells" -> {Block(i - 1, 1) : i \in {j \in DOMAIN used : used[j] = 1}}
      [] OTHER -> used

Memory == CASE kind = "ring" -> 0 .. Size - 1
            [] kind = "buddy" -> 0 .. 2^Top - 1
            [] kind = "cells" -> 0 .. Len(used) - 1

\* No cell is lost or listed twice, and free neighbours have been put together.
FreeWhole ==
    /\ UNION {Span(b) : b \in Blocks \cup InUse} = Memory
    /\ \A b, c \in Blocks \cup InUse : b # c => Span(b) \cap Span(c) = {}
    /\ kind # "buddy" => Cardinality(Blocks) = Len(free) /\ \A b, c \in Blocks : Apart(b, c)
    /\ kind = "buddy" =>
          /\ \A b, c \in Blocks : NotBuddies(b, c)
          /\ \A k \in 0 .. Top : \A i, j \in DOMAIN free[k] : i < j => free[k][i] < free[k][j]
=============================================================================
