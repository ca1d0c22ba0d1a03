------------------------------- MODULE Routes -------------------------------
(***************************************************************************)
(* Exercises on graphs.  Kept as lists of arcs: the longest path from      *)
(* every vertex of a graph without cycles, along the reverse of a          *)
(* topological order (7.36), Dijkstra's shortest paths (7.42), whether a   *)
(* path leads from one vertex to another (7.22) and whether there is a     *)
(* cycle (7.25), both by a search in depth.  Kept as a matrix: vertices    *)
(* and arcs come and go (7.15).  Vertices count from 1, a file names no    *)
(* arc twice, 7.42's start has an arc to another vertex, 7.25 is given a   *)
(* vertex without arcs by a first place behind the last, and in 7.15 no    *)
(* vertex is put in once one has been taken out, as its row is not         *)
(* cleared.                                                                *)
(***************************************************************************)
EXTENDS Integers, Sequences, FiniteSets, FiniteSetsExt, SequencesExt

CONSTANTS NumNode, MaxArc, MaxValue

VARIABLES
    phase,  \* the exercise and how far it is
    H,      \* the arcs of each vertex: adjvex and value; the matrix of 7.15
    work,   \* the stack of the topological sort; the set S of Dijkstra's; calls of DFS; vertices out
    degree, \* indegree[]; visited[]; the number of vertices in 7.15
    Topo,   \* the stack of 7.25; the vertices of 7.15 by the names they came with
    result  \* MPL or D; the flag of 7.25; the arcs of 7.15 between those names

vars == <<phase, H, work, degree, Topo, result>>

Node == 1 .. NumNode
Far == 10000

Arc(k, w) == [adjvex |-> k, value |-> w]
Arcs == {<<n, a>> \in Node \X [adjvex : Node, value : 1 .. MaxValue] : \E j \in DOMAIN H[n] : H[n][j] = a}
Count == MapThenSumSet(LAMBDA n : Len(H[n]), Node)

----------------------------------------------------------------------------
\* get_list: an arc goes before those to smaller vertices.

Inserted(list, arc) ==
    SelectSeq(list, LAMBDA a : a.adjvex > arc.adjvex) \o <<arc>> \o SelectSeq(list, LAMBDA a : a.adjvex < arc.adjvex)

ReadArc ==
    /\ phase = "read" /\ Count < MaxArc
    /\ \E n, k \in Node, w \in 1 .. MaxValue :
          /\ \A j \in DOMAIN H[n] : H[n][j].adjvex # k
          /\ H' = [H EXCEPT ![n] = Inserted(@, Arc(k, w))]
    /\ UNCHANGED <<phase, work, degree, Topo, result>>

----------------------------------------------------------------------------
\* 7.36

FindInDegree == [k \in Node |-> Cardinality({<<n, a>> \in Arcs : a.adjvex = k})]

Reaches(n, k) ==
    LET within[d \in Nat] == IF d = 0 THEN {n} ELSE within[d - 1] \cup
                                {a[2].adjvex : a \in {b \in Arcs : b[1] \in within[d - 1]}}
    IN  k \in within[NumNode]

Acyclic == \A a \in Arcs : ~Reaches(a[2].adjvex, a[1])

StartLongest ==
    /\ phase = "read" /\ Count > 0 /\ Acyclic
    /\ phase' = "order"
    /\ degree' = FindInDegree
    /\ work' = SelectSeq([n \in Node |-> n], LAMBDA n : FindInDegree[n] = 0)
    /\ UNCHANGED <<H, Topo, result>>

\* The vertices n's arcs lead to that have none left before them, in the order of the list.
Freed(n, left) ==
    SelectSeq([j \in DOMAIN H[n] |-> H[n][j].adjvex], LAMBDA k : left[k] = 0)

TopologicalSort ==
    /\ phase = "order" /\ work # <<>>
    /\ LET n == Last(work)
           left == [k \in Node |-> IF <<n, k>> \in {<<a[1], a[2].adjvex>> : a \in Arcs} THEN degree[k] - 1 ELSE degree[k]]
       IN  /\ Topo' = Append(Topo, n)
           /\ degree' = left
           /\ work' = Front(work) \o Freed(n, left)
    /\ UNCHANGED <<phase, H, result>>

Ordered ==
    /\ phase = "order" /\ work = <<>>
    /\ phase' = "longest"
    /\ UNCHANGED <<H, work, degree, Topo, result>>

\* One more than the largest MPL an arc leads to; the last vertex of the order first.
get_max_depth ==
    /\ phase = "longest" /\ Topo # <<>>
    /\ LET n == Last(Topo)
       IN  result' = [result EXCEPT ![n] = 1 + Max({0} \cup {result[H[n][j].adjvex] : j \in DOMAIN H[n]})]
    /\ Topo' = Front(Topo)
    /\ phase' = IF Len(Topo) = 1 THEN "MPL" ELSE phase
    /\ UNCHANGED <<H, work, degree>>

----------------------------------------------------------------------------
\* 7.42; the start is vertex 1.

value(n, k) ==
    IF \E j \in DOMAIN H[n] : H[n][j].adjvex = k
    THEN H[n][CHOOSE j \in DOMAIN H[n] : H[n][j].adjvex = k].value ELSE Far

StartShortest ==
    /\ phase = "read" /\ \E j \in DOMAIN H[1] : H[1][j].adjvex # 1
    /\ phase' = "shortest"
    /\ work' = {1}
    /\ result' = [n \in Node |-> IF n = 1 THEN 0 ELSE value(1, n)]
    /\ Topo' = <<1>>
    /\ UNCHANGED <<H, degree>>

\* The first of the nearest vertices; v stays what it was when none can be reached.
Nearest(S, D, v) ==
    LET near == {n \in Node \ S : D[n] < Far}
    IN  IF near = {} THEN v
        ELSE CHOOSE n \in near : \A o \in near : D[n] <= D[o] /\ (o < n => D[n] < D[o])

\* Topo holds the vertices taken, the one of the last round last.
DIJ ==
    /\ phase = "shortest" /\ Len(Topo) < NumNode
    /\ LET v == Nearest(work, result, Last(Topo))
       IN  /\ work' = work \cup {v}
           /\ Topo' = Append(Topo, v)
           /\ result' = [w \in Node |-> IF w \notin work' /\ result[v] + value(v, w) < result[w]
                                        THEN result[v] + value(v, w) ELSE result[w]]
    /\ UNCHANGED <<phase, H, degree>>

Shortest ==
    /\ phase = "shortest" /\ Len(Topo) = NumNode
    /\ phase' = "D"
    /\ UNCHANGED <<H, work, degree, Topo, result>>

----------------------------------------------------------------------------
\* 7.22 and 7.25: a call of DFS is a vertex and the arcs it has still to look at.

Call(n) == [node |-> n, left |-> [j \in DOMAIN H[n] |-> H[n][j].adjvex]]
Seen(n) == degree[n] = 1

\* These arcs have no values.
Plain == Count > 0 /\ \A a \in Arcs : a[2].value = 1

StartReach ==
    /\ phase = "read" /\ Plain
    /\ phase' = "reach"
    /\ \E node1, node2 \in Node :
          /\ work' = <<Call(node1)>>
          /\ degree' = [degree EXCEPT ![node1] = 1]
          /\ result' = <<node1, node2>>
    /\ UNCHANGED <<H, Topo>>

DFS ==
    /\ phase = "reach" /\ work # <<>>
    /\ LET p == work[1].left
           rest == <<[work[1] EXCEPT !.left = Tail(p)]>> \o Tail(work)
       IN  \/ p = <<>> /\ work' = Tail(work) /\ UNCHANGED degree
           \/ p # <<>> /\ Seen(p[1]) /\ work' = rest /\ UNCHANGED degree
           \/ /\ p # <<>> /\ ~Seen(p[1])
              /\ work' = <<Call(p[1])>> \o rest
              /\ degree' = [degree EXCEPT ![p[1]] = 1]
    /\ UNCHANGED <<phase, H, Topo, result>>

\* The successors may be listed in either order.
StartCycle ==
    /\ phase = "read" /\ Plain
    /\ phase' = "cycle"
    /\ H' \in {H, [n \in Node |-> Reverse(H[n])]}
    /\ result' = [flag |-> 0, next |-> 1]
    /\ UNCHANGED <<work, degree, Topo>>

\* A search from every vertex, seen or not, with an empty stack.
SearchNext ==
    /\ phase = "cycle" /\ work = <<>> /\ result.next <= NumNode
    /\ work' = <<Call(result.next)>>
    /\ degree' = [degree EXCEPT ![result.next] = 1]
    /\ Topo' = <<result.next>>
    /\ result' = [result EXCEPT !.next = @ + 1]
    /\ UNCHANGED <<phase, H>>

\* A seen vertex that is on the stack closes a cycle; after that nothing is popped.
DFSCycle ==
    /\ phase = "cycle" /\ work # <<>>
    /\ LET w == work[1].left
           rest == <<[work[1] EXCEPT !.left = Tail(w)]>> \o Tail(work)
       IN  \/ /\ w = <<>> \/ result.flag = 1
              /\ work' = Tail(work)
              /\ Topo' = IF result.flag = 0 THEN Front(Topo) ELSE Topo
              /\ UNCHANGED <<degree, result>>
           \/ /\ w # <<>> /\ result.flag = 0 /\ Seen(w[1])
              /\ work' = rest
              /\ result' = [result EXCEPT !.flag = IF w[1] \in Range(Topo) THEN 1 ELSE 0]
              /\ UNCHANGED <<degree, Topo>>
           \/ /\ w # <<>> /\ result.flag = 0 /\ ~Seen(w[1])
              /\ work' = <<Call(w[1])>> \o rest
              /\ degree' = [degree EXCEPT ![w[1]] = 1]
              /\ Topo' = Append(Topo, w[1])
              /\ UNCHANGED result
    /\ UNCHANGED <<phase, H>>

----------------------------------------------------------------------------
\* 7.15: H is the matrix, with room for one vertex more.  Topo names the vertices and
\* result their arcs, whatever rows they have.

Row == 1 .. NumNode + 1

init_graph ==
    /\ phase = "read" /\ Count = 0
    /\ phase' = "matrix"
    /\ H' = [n \in Row |-> [k \in Row |-> 0]]
    /\ degree' = NumNode
    /\ Topo' = [n \in Node |-> n] /\ result' = {}
    /\ UNCHANGED work

\* One after the first DeleteVex would show the rows it left.
InsertVex ==
    /\ phase = "matrix" /\ work = <<>> /\ degree = NumNode
    /\ degree' = degree + 1
    /\ Topo' = Append(Topo, degree + 1)
    /\ UNCHANGED <<phase, H, work, result>>

InsertArc ==
    /\ phase = "matrix" /\ Cardinality(result) < MaxArc \div 2
    /\ \E n, k \in 1 .. degree :
          /\ H' = [H EXCEPT ![n][k] = 1]
          /\ result' = result \cup {<<Topo[n], Topo[k]>>}
    /\ UNCHANGED <<phase, work, degree, Topo>>

\* The rows and columns behind the vertex move up; the last ones stay as they are.
DeleteVex ==
    /\ phase = "matrix" /\ Len(work) < MaxArc \div 2
    /\ \E n \in 1 .. degree :
          LET from(i) == IF i < n THEN i ELSE i + 1
          IN  /\ H' = [i \in Row |-> [j \in Row |->
                          IF i < degree /\ j < degree THEN H[from(i)][from(j)] ELSE H[i][j]]]
              /\ Topo' = RemoveAt(Topo, n)
              /\ result' = {arc \in result : Topo[n] \notin {arc[1], arc[2]}}
              /\ work' = Append(work, Topo[n])
    /\ degree' = degree - 1
    /\ UNCHANGED phase

DeleteArc ==
    /\ phase = "matrix"
    /\ \E n, k \in 1 .. degree :
          /\ H' = [H EXCEPT ![n][k] = 0]
          /\ result' = result \ {<<Topo[n], Topo[k]>>}
    /\ UNCHANGED <<phase, work, degree, Topo>>

----------------------------------------------------------------------------

Init ==
    /\ phase = "read"
    /\ H = [n \in Node |-> <<>>]
    /\ work = <<>> /\ degree = [n \in Node |-> 0]
    /\ Topo = <<>> /\ result = [n \in Node |-> 0]

Next ==
    \/ ReadArc \/ StartLongest \/ TopologicalSort \/ Ordered \/ get_max_depth
    \/ StartShortest \/ DIJ \/ Shortest
    \/ StartReach \/ DFS \/ StartCycle \/ SearchNext \/ DFSCycle
    \/ init_graph \/ InsertVex \/ InsertArc \/ DeleteVex \/ DeleteArc

Spec == Init /\ [][Next]_vars

----------------------------------------------------------------------------

\* The largest, or smallest, sum of arcs along walks from n of at most NumNode arcs.
Longest ==
    LET far[d \in Nat] == [n \in Node |-> IF d = 0 THEN 0 ELSE
                              Max({0} \cup {1 + far[d - 1][a[2].adjvex] : a \in {b \in Arcs : b[1] = n}})]
    IN  far[NumNode]

Nearness ==
    LET near[d \in Nat] == [n \in Node |-> IF d = 0 THEN IF n = 1 THEN 0 ELSE Far ELSE
                               Min({near[d - 1][n]} \cup {near[d - 1][a[1]] + a[2].value : a \in {b \in Arcs : b[2].adjvex = n}})]
    IN  [n \in Node |-> Min({Far, near[NumNode][n]})]

\* What is printed is the length of the longest path from every vertex, or of the
\* shortest path to it; the topological order names every vertex once.  In the end the
\* search has seen just the vertices a path leads to, and has found a cycle just if there
\* is one.  The matrix shows the arcs between the vertices that are left.
RoutesRight ==
    /\ phase = "MPL" => \A n \in Node : result[n] - 1 = Longest[n]
    /\ phase = "D" => result = Nearness
    /\ phase = "longest" => \A i, j \in DOMAIN Topo : i < j => ~Reaches(Topo[j], Topo[i])
    /\ phase = "reach" /\ work = <<>> => \A n \in Node : Seen(n) <=> Reaches(result[1], n)
    /\ phase = "cycle" /\ work = <<>> /\ result.next > NumNode => (result.flag = 1 <=> ~Acyclic)
    /\ phase = "matrix" => \A n, k \in 1 .. degree : H[n][k] = 1 <=> <<Topo[n], Topo[k]>> \in result
=============================================================================
