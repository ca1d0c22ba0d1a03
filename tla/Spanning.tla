------------------------------ MODULE Spanning ------------------------------
(***************************************************************************)
(* The minimum spanning tree program: a net typed in or drawn at random,   *)
(* its edges in a binary tree kept as a heap, and Kruskal's loop over it.  *)
(* A position of the heap is a number, its children are 2i and 2i + 1; the *)
(* file is taken to hold nodes from 1 to its number of nodes and the       *)
(* random number of nodes not to be 0.                                     *)
(***************************************************************************)
EXTENDS Integers, Sequences, FiniteSets, SequencesExt, FiniteSetsExt

CONSTANTS
    MaxNode,    \* nodes of a random net
    FileNode,   \* nodes of a net from a file
    MaxLine,    \* lines of a file
    MaxWeight

VARIABLES
    phase,      \* "choose", "read", "generate" or "printed"
    net,        \* the edges of array[]
    heap,       \* the edges in their tree
    mf,         \* the connected components
    TREE        \* the edges chosen so far

vars == <<phase, net, heap, mf, TREE>>

Weight == 0 .. MaxWeight
Edge(i, j, w) == [node1 |-> i, node2 |-> j, weight |-> w]

----------------------------------------------------------------------------
\* The heap.

Kids(h, i) == {2 * i, 2 * i + 1} \cap DOMAIN h

Swapped(h, i, j) == [h EXCEPT ![i] = h[j], ![j] = h[i]]

GoesLeft(h, i) ==
    /\ 2 * i \in Kids(h, i)
    /\ IF 2 * i + 1 \in Kids(h, i)
       THEN /\ h[i].weight >= h[2 * i].weight
            /\ \/ h[i].weight >= h[2 * i + 1].weight /\ h[2 * i].weight <= h[2 * i + 1].weight
               \/ h[i].weight <= h[2 * i + 1].weight
       ELSE h[i].weight > h[2 * i].weight

GoesRight(h, i) ==
    /\ 2 * i + 1 \in Kids(h, i)
    /\ IF 2 * i \in Kids(h, i)
       THEN /\ h[i].weight >= h[2 * i + 1].weight
            /\ \/ h[i].weight >= h[2 * i].weight /\ h[2 * i].weight >= h[2 * i + 1].weight
               \/ h[i].weight <= h[2 * i].weight
       ELSE h[i].weight > h[2 * i + 1].weight

RECURSIVE HeapAdjust(_, _)
HeapAdjust(h, i) ==
    IF i \notin DOMAIN h THEN h
    ELSE LET top == IF GoesLeft(h, i) THEN Swapped(h, i, 2 * i)
                    ELSE IF GoesRight(h, i) THEN Swapped(h, i, 2 * i + 1) ELSE h
         IN  HeapAdjust(HeapAdjust(top, 2 * i), 2 * i + 1)

RECURSIVE HeapInit(_, _)
HeapInit(h, i) ==
    IF i \notin DOMAIN h \/ Kids(h, i) = {} THEN h
    ELSE HeapAdjust(HeapInit(HeapInit(h, 2 * i), 2 * i + 1), i)

RECURSIVE GetLeftorRight(_, _)
GetLeftorRight(h, i) ==
    IF Kids(h, i) = {} THEN i ELSE GetLeftorRight(h, Min(Kids(h, i)))

\* A mutant of HeapSort: nothing sinks.
NoSift(h) ==
    LET leaf == GetLeftorRight(h, 1)
    IN  IF Kids(h, 1) = {} THEN h
        ELSE [i \in DOMAIN h \ {leaf} |-> IF i = 1 THEN h[leaf] ELSE h[i]]

\* The heap without its root: a leaf takes the root's place.
HeapSort(h) ==
    LET leaf == GetLeftorRight(h, 1)
    IN  IF Kids(h, 1) = {} THEN h
        ELSE HeapAdjust([i \in DOMAIN h \ {leaf} |-> IF i = 1 THEN h[leaf] ELSE h[i]], 1)

----------------------------------------------------------------------------
\* The components.

MFsetInit(n) == [i \in 1 .. n |-> [tag |-> 1, x |-> <<i>>]]

SetOf(m, node) == CHOOSE i \in DOMAIN m : m[i].tag = 1 /\ node \in Range(m[i].x)

InSameCntCop(m, e) == SetOf(m, e.node1) = SetOf(m, e.node2)

\* The smaller component goes into the larger one.
InsertMF(m, e) ==
    LET s == SetOf(m, e.node1)
        t == SetOf(m, e.node2)
        into(big, small) == [m EXCEPT ![big].x = @ \o m[small].x, ![small].tag = 0]
    IN  IF Len(m[s].x) >= Len(m[t].x) THEN into(s, t) ELSE into(t, s)

CplCnect(m) == Cardinality({i \in DOMAIN m : m[i].tag = 1}) = 1

Joined(m, e) == IF InSameCntCop(m, e) THEN m ELSE InsertMF(m, e)

----------------------------------------------------------------------------

Init ==
    /\ phase = "choose"
    /\ net = <<>> /\ heap = <<>> /\ mf = <<>> /\ TREE = <<>>

\* CreateBiTree fills the tree level by level.
Built(array, n) ==
    /\ phase' = "generate"
    /\ net' = array
    /\ heap' = HeapInit(array, 1)
    /\ mf' = MFsetInit(n)
    /\ UNCHANGED TREE

\* Every pair of nodes gets an edge, the pairs in order.
Random(n) ==
    /\ phase = "choose"
    /\ LET pairs == FlattenSeq([i \in 1 .. n |-> [d \in 1 .. n - i |-> <<i, i + d>>]])
       IN  \E w \in [DOMAIN pairs -> Weight] :
               Built([k \in DOMAIN pairs |-> Edge(pairs[k][1], pairs[k][2], w[k])], n)

OpenFile ==
    /\ phase = "choose"
    /\ phase' = "read"
    /\ mf' = MFsetInit(FileNode)
    /\ UNCHANGED <<net, heap, TREE>>

ReadLine ==
    /\ phase = "read" /\ Len(net) < MaxLine
    /\ \E i, j \in 1 .. FileNode, w \in Weight :
          LET e == IF i > j THEN Edge(j, i, w) ELSE Edge(i, j, w)
          IN  net' = Append(net, e) /\ mf' = Joined(mf, e)
    /\ UNCHANGED <<phase, heap, TREE>>

\* An unconnected net is refused.
EndOfFile ==
    /\ phase = "read" /\ net # <<>>
    /\ IF CplCnect(mf) THEN Built(net, FileNode)
       ELSE phase' = "choose" /\ net' = <<>> /\ mf' = <<>> /\ UNCHANGED <<heap, TREE>>

MinGeneratingTree ==
    /\ phase = "generate" /\ ~CplCnect(mf)
    /\ heap' = HeapSort(heap)
    /\ mf' = Joined(mf, heap[1])
    /\ TREE' = IF InSameCntCop(mf, heap[1]) THEN TREE ELSE Append(TREE, heap[1])
    /\ UNCHANGED <<phase, net>>

Generated ==
    /\ phase = "generate" /\ CplCnect(mf)
    /\ phase' = "printed"
    /\ UNCHANGED <<net, heap, mf, TREE>>

Again ==
    /\ phase = "printed"
    /\ phase' = "choose"
    /\ net' = <<>> /\ heap' = <<>> /\ mf' = <<>> /\ TREE' = <<>>

Next ==
    \/ \E n \in 1 .. MaxNode : Random(n)
    \/ OpenFile \/ ReadLine \/ EndOfFile
    \/ MinGeneratingTree \/ Generated \/ Again

Spec == Init /\ [][Next]_vars

----------------------------------------------------------------------------

\* No edge of the heap weighs more than one below it, whatever leaves have gone.
HeapOrdered ==
    phase = "generate" =>
        \A i \in DOMAIN heap : \A k \in Kids(heap, i) : heap[i].weight <= heap[k].weight

Total(s) == FoldSeq(LAMBDA e, t : e.weight + t, 0, s)

Nodes == UNION {{net[k].node1, net[k].node2} : k \in DOMAIN net}

RECURSIVE Grown(_, _)
Grown(found, K) ==
    LET more == {k \in K : {net[k].node1, net[k].node2} \cap found # {}}
    IN  IF more = {} THEN found
        ELSE Grown(found \cup UNION {{net[k].node1, net[k].node2} : k \in more}, K \ more)

Spans(K) == Nodes = {} \/ Grown({1}, K) = Nodes

\* MinGeneratingTree leaves the edges of a spanning tree no other outweighs less.
TreeMinimal ==
    phase = "printed" =>
        LET trees == {K \in SUBSET DOMAIN net : Cardinality(K) = Cardinality(Nodes) - 1 /\ Spans(K)}
            cost(K) == FoldSet(LAMBDA k, t : net[k].weight + t, 0, K)
        IN  Nodes # {} =>
               /\ \E K \in trees : Len(TREE) = Cardinality(K) /\ cost(K) = Total(TREE)
                                   /\ {net[k] : k \in K} = Range(TREE)
               /\ \A K \in trees : Total(TREE) <= cost(K)
=============================================================================
