----------------------------- MODULE BinaryTrees -----------------------------
(***************************************************************************)
(* Exercises on binary trees made of nodes with pointers: a search tree is *)
(* taken apart and put node by node into another (9.38), a tree gets       *)
(* another put below one of its nodes and threads along its inorder        *)
(* (6.58); a tree is walked with a stack (6.37), mirrored (6.43), judged   *)
(* complete or not (6.49) or built from its orders (6.65); two nodes'      *)
(* ancestors are looked for (6.33, 6.34, 6.48), and the large keys of a    *)
(* search tree, or those between two numbers (9.33, 9.35).  A node is its  *)
(* number, 0 is NULL and HEAD the node above a threaded tree.  A tree is   *)
(* read level by level, Null standing for a missing child; it is not empty *)
(* and ends with a key.  No key is 0 or 35, which the code keeps for '\0'  *)
(* and '#'.                                                                *)
(***************************************************************************)
EXTENDS Integers, Sequences, FiniteSets, SequencesExt

CONSTANTS Key, MaxFirst, MaxSecond, MaxTree, MaxKey

VARIABLES
    phase,  \* the exercise and how far it is
    given,  \* the tree as it was read and the numbers after it
    node,   \* key, lchild, rchild, ltag and rtag of every node
    roots,  \* T1 and T2
    calls,  \* what the recursion still has to do; the stack of 6.37
    pre,    \* the node at hand or the one before it; the answer
    out     \* the nodes printed, or visited

vars == <<phase, given, node, roots, calls, pre, out>>

Null == 0
HEAD == 100

Node(k, l, r) == [key |-> k, lchild |-> l, rchild |-> r, ltag |-> 0, rtag |-> 0]

----------------------------------------------------------------------------

\* The number of the node at place q of the input; base is the last number given before.
Numbered(s, q, base) ==
    IF q \in DOMAIN s /\ s[q] # Null THEN base + Cardinality({o \in 1 .. q : s[o] # Null}) ELSE 0

\* The queue is the numbers in order: the children of the i-th node are at 2i and 2i + 1.
CreateBiTree(s, base) ==
    LET keys == SelectSeq(s, LAMBDA key : key # Null)
    IN  [i \in base + 1 .. base + Len(keys) |->
            Node(keys[i - base], Numbered(s, 2 * (i - base), base), Numbered(s, 2 * (i - base) + 1, base))]

Inputs(len, keys) ==
    {s \in UNION {[1 .. n -> keys \cup {Null}] : n \in 1 .. len} :
        /\ s[1] # Null /\ s[Len(s)] # Null
        /\ \A q \in 2 .. Len(s) : q \div 2 <= Cardinality({o \in 1 .. q - 1 : s[o] # Null})}

\* Trees of every shape, their keys distinct.
Shapes == {[q \in DOMAIN s |-> IF s[q] = Null THEN Null ELSE q] : s \in Inputs(MaxTree, {1})}

RECURSIVE Inorder(_, _)
Inorder(t, n) ==
    IF n = 0 THEN <<>> ELSE Inorder(t, t[n].lchild) \o <<n>> \o Inorder(t, t[n].rchild)

RECURSIVE Preorder(_, _)
Preorder(t, n) ==
    IF n = 0 THEN <<>> ELSE <<n>> \o Preorder(t, t[n].lchild) \o Preorder(t, t[n].rchild)

InOrder(t, n) ==
    LET order == Inorder(t, n)
    IN  \A i \in 1 .. Len(order) - 1 : t[order[i]].key <= t[order[i + 1]].key

----------------------------------------------------------------------------
\* 9.38

RECURSIVE Below(_, _)
Below(t, n) ==
    LET child == IF node[t].key >= node[n].key THEN node[t].lchild ELSE node[t].rchild
    IN  IF child = 0 THEN t ELSE Below(child, n)

\* A key goes to the left of an equal one.
InsertNode(n) ==
    LET t == Below(roots[1], n)
    IN  IF node[t].key >= node[n].key THEN [node EXCEPT ![t].lchild = n] ELSE [node EXCEPT ![t].rchild = n]

\* T2's root is taken off its subtrees, which go before and after it.
insert2 ==
    /\ phase = "merge" /\ calls # <<>>
    /\ LET n == calls[1].n
       IN  \/ /\ calls[1].do = "insert2" /\ n = 0
              /\ calls' = Tail(calls) /\ UNCHANGED node
           \/ /\ calls[1].do = "insert2" /\ n # 0
              /\ node' = [node EXCEPT ![n].lchild = 0, ![n].rchild = 0]
              /\ calls' = <<[do |-> "insert2", n |-> node[n].lchild], [do |-> "InsertNode", n |-> n],
                            [do |-> "insert2", n |-> node[n].rchild]>> \o Tail(calls)
           \/ /\ calls[1].do = "InsertNode"
              /\ node' = InsertNode(n)
              /\ calls' = Tail(calls)
    /\ UNCHANGED <<given, phase, roots, pre, out>>

\* getmin, the leftmost node, is printed first and without a comma before it.
RECURSIVE getmin(_)
getmin(t) == IF node[t].lchild = 0 THEN t ELSE getmin(node[t].lchild)

midprint ==
    /\ phase = "merge" /\ calls = <<>>
    /\ out' = Inorder(node, roots[1])
    /\ pre' = getmin(roots[1])
    /\ phase' = "merged"
    /\ UNCHANGED <<given, node, roots, calls>>

----------------------------------------------------------------------------
\* 6.58

\* The nodes' keys are distinct: there is one to put T2 below.
insert_tree ==
    /\ phase = "insert"
    /\ \E p \in Range(Inorder(node, roots[1])) :
          LET moved == [node EXCEPT ![p].lchild = roots[2]]
          IN  node' = IF node[p].lchild = 0 THEN moved
                      ELSE [moved EXCEPT ![roots[2]].rchild = node[p].lchild]
    /\ phase' = "clues"
    /\ UNCHANGED <<given, roots, calls, pre, out>>

add_clues_head ==
    /\ phase = "clues" /\ HEAD \notin DOMAIN node
    /\ node' = [n \in DOMAIN node \cup {HEAD} |->
                   IF n = HEAD THEN [Node(0, roots[1], HEAD) EXCEPT !.rtag = 1] ELSE node[n]]
    /\ pre' = HEAD
    /\ calls' = <<[do |-> "add_clues", n |-> roots[1]]>>
    /\ UNCHANGED <<given, phase, roots, out>>

\* H's thread to the node before, and that node's to H.
Threaded(H) ==
    LET left == IF node[H].lchild = 0 THEN [node EXCEPT ![H].ltag = 1, ![H].lchild = pre]
                ELSE [node EXCEPT ![H].ltag = 0]
    IN  IF left[pre].rchild = 0 THEN [left EXCEPT ![pre].rtag = 1, ![pre].rchild = H]
        ELSE [left EXCEPT ![H].rtag = 0]

add_clues ==
    /\ phase = "clues" /\ calls # <<>>
    /\ LET H == calls[1].n
       IN  \/ /\ calls[1].do = "add_clues" /\ H = 0
              /\ calls' = Tail(calls) /\ UNCHANGED <<node, pre>>
           \/ /\ calls[1].do = "add_clues" /\ H # 0
              /\ calls' = <<[do |-> "add_clues", n |-> node[H].lchild], [do |-> "visit", n |-> H]>> \o Tail(calls)
              /\ UNCHANGED <<node, pre>>
           \/ /\ calls[1].do = "visit"
              /\ node' = Threaded(H)
              /\ pre' = H
              /\ calls' = <<[do |-> "add_clues", n |-> node[H].rchild]>> \o Tail(calls)
    /\ UNCHANGED <<given, phase, roots, out>>

\* The last node leads back to HEAD.
LastClue ==
    /\ phase = "clues" /\ HEAD \in DOMAIN node /\ calls = <<>>
    /\ node' = [node EXCEPT ![pre].rchild = HEAD, ![pre].rtag = 1, ![HEAD].rchild = pre]
    /\ pre' = node[HEAD].lchild
    /\ phase' = "print"
    /\ UNCHANGED <<given, roots, calls, out>>

RECURSIVE Leftmost(_)
Leftmost(p) == IF node[p].ltag = 0 THEN Leftmost(node[p].lchild) ELSE p

RECURSIVE Followed(_)
Followed(p) ==
    IF node[p].rtag = 1 /\ node[p].rchild # HEAD THEN <<p>> \o Followed(node[p].rchild) ELSE <<p>>

\* Down to the left, then along the threads.
print_tree ==
    /\ phase = "print"
    /\ LET run == Followed(Leftmost(pre))
       IN  IF pre = HEAD THEN phase' = "printed" /\ UNCHANGED <<out, pre>>
           ELSE out' = out \o run /\ pre' = node[Last(run)].rchild /\ UNCHANGED phase
    /\ UNCHANGED <<given, node, roots, calls>>

----------------------------------------------------------------------------
\* 6.37: preorder without recursion; TA is pre.

bianli ==
    /\ phase = "walk"
    /\ \/ /\ pre # 0
          /\ calls' = <<[do |-> "right", n |-> pre]>> \o calls
          /\ out' = Append(out, pre)
          /\ pre' = node[pre].lchild
       \/ /\ pre = 0 /\ calls # <<>>
          /\ pre' = node[calls[1].n].rchild
          /\ calls' = Tail(calls)
          /\ UNCHANGED out
    /\ UNCHANGED <<given, phase, node, roots>>

----------------------------------------------------------------------------
\* 6.43: left and right change places from the root on.

FOT_reverse ==
    /\ phase = "reverse" /\ calls # <<>>
    /\ LET TA == calls[1].n
           Again(n) == [do |-> "FOT_reverse", n |-> n]
       IN  IF TA = 0 THEN calls' = Tail(calls) /\ UNCHANGED node
           ELSE /\ node' = [node EXCEPT ![TA].lchild = node[TA].rchild, ![TA].rchild = node[TA].lchild]
                /\ calls' = <<Again(node[TA].rchild), Again(node[TA].lchild)>> \o Tail(calls)
    /\ UNCHANGED <<given, phase, roots, pre, out>>

print_reversed ==
    /\ phase = "reverse" /\ calls = <<>>
    /\ out' = Preorder(node, roots[1])
    /\ phase' = "reversed"
    /\ UNCHANGED <<given, node, roots, calls, pre>>

----------------------------------------------------------------------------
\* 6.48: the nearest node above two nodes, or one of them.

\* parent, which CreateBiTree_3 sets.
Parent(n) == CHOOSE p \in DOMAIN node : n \in {node[p].lchild, node[p].rchild}

\* The last node in preorder that has the key.
Get(key) == Last(SelectSeq(Preorder(node, 1), LAMBDA n : node[n].key = key))

visit(n) == Cardinality({k \in DOMAIN out : out[k] = n})

\* Both climb to the root and count their visits.
Climb ==
    /\ phase = "climb" /\ calls # <<>>
    /\ LET n == calls[1].n
       IN  IF n = roots[1] THEN calls' = Tail(calls) /\ UNCHANGED out
           ELSE /\ out' = Append(out, n)
                /\ calls' = <<[do |-> "climb", n |-> Parent(n)]>> \o Tail(calls)
    /\ UNCHANGED <<given, phase, node, roots, pre>>

Get_np ==
    /\ phase = "climb" /\ calls = <<>>
    /\ IF pre = roots[1] \/ visit(pre) = 2 THEN phase' = "met" /\ UNCHANGED pre
       ELSE pre' = Parent(pre) /\ UNCHANGED phase
    /\ UNCHANGED <<given, node, roots, calls, out>>

----------------------------------------------------------------------------
\* 6.49

RECURSIVE getdepth(_)
getdepth(n) ==
    IF n = 0 THEN 0
    ELSE LET left == getdepth(node[n].lchild) + 1
             right == getdepth(node[n].rchild) + 1
         IN  IF left > right THEN left ELSE right

RECURSIVE getallnum(_)
getallnum(n) == IF n = 0 THEN 0 ELSE getallnum(node[n].lchild) + getallnum(node[n].rchild) + 1

\* The leaves at depth dep; level is what dep_info writes into the node.
RECURSIVE getlastnum(_, _, _)
getlastnum(n, level, dep) ==
    IF n = 0 THEN 0
    ELSE IF node[n].lchild = 0 /\ node[n].rchild = 0 THEN (IF level = dep THEN 1 ELSE 0)
    ELSE getlastnum(node[n].lchild, level + 1, dep) + getlastnum(node[n].rchild, level + 1, dep)

correct(f, l) == \A i \in f .. f + l : i \in DOMAIN given.tree => given.tree[i] # Null

Judge_complete ==
    /\ phase = "judge"
    /\ LET depth == getdepth(roots[1])
           node_num == getallnum(roots[1])
           last_node_num == getlastnum(roots[1], 1, depth)
           front_node_num == node_num - last_node_num
           complete == \/ node_num = 2 ^ depth - 1
                       \/ front_node_num = 2 ^ (depth - 1) - 1 /\ correct(front_node_num, last_node_num)
       IN  pre' = IF complete THEN 1 ELSE 0
    /\ phase' = "judged"
    /\ UNCHANGED <<given, node, roots, calls, out>>

----------------------------------------------------------------------------
\* 9.33: the keys not below K, the largest first.  MAX is printed without a comma.

RECURSIVE GetMax(_)
GetMax(n) == IF node[n].rchild = 0 THEN n ELSE GetMax(node[n].rchild)

RECURSIVE Greater(_, _)
Greater(n, K) ==
    IF n = 0 THEN <<>>
    ELSE Greater(node[n].rchild, K) \o (IF node[n].key >= K THEN <<n>> ELSE <<>>) \o Greater(node[n].lchild, K)

PrintGreater ==
    /\ phase = "greater"
    /\ pre' = GetMax(roots[1])
    /\ out' = Greater(roots[1], given.asked[1])
    /\ phase' = "large"
    /\ UNCHANGED <<given, node, roots, calls>>

----------------------------------------------------------------------------
\* 9.35: threads to the successors, then the keys above a and below b.  The root has a
\* right child, and pre starts above the last node.

StartClues ==
    /\ phase = "between" /\ pre = 0
    /\ pre' = Parent(GetMax(roots[1]))
    /\ calls' = <<[do |-> "add_clues", n |-> roots[1]]>>
    /\ UNCHANGED <<given, phase, node, roots, out>>

NextClue(H) ==
    IF node[pre].rchild = 0 THEN [node EXCEPT ![pre].rtag = 1, ![pre].rchild = H]
    ELSE [node EXCEPT ![H].rtag = 0]

add_successors ==
    /\ phase = "between" /\ calls # <<>>
    /\ LET H == calls[1].n
       IN  \/ /\ calls[1].do = "add_clues" /\ H = 0
              /\ calls' = Tail(calls) /\ UNCHANGED <<node, pre>>
           \/ /\ calls[1].do = "add_clues" /\ H # 0
              /\ calls' = <<[do |-> "add_clues", n |-> node[H].lchild], [do |-> "visit", n |-> H]>> \o Tail(calls)
              /\ UNCHANGED <<node, pre>>
           \/ /\ calls[1].do = "visit"
              /\ node' = NextClue(H)
              /\ pre' = H
              /\ calls' = <<[do |-> "add_clues", n |-> node'[H].rchild]>> \o Tail(calls)
    /\ UNCHANGED <<given, phase, roots, out>>

RECURSIVE Between(_, _, _)
Between(n, a, b) ==
    IF n = 0 THEN <<>>
    ELSE Between(node[n].lchild, a, b) \o (IF node[n].key < b /\ node[n].key > a THEN <<n>> ELSE <<>>)
            \o (IF node[n].rtag = 0 THEN Between(node[n].rchild, a, b) ELSE <<>>)

printnum ==
    /\ phase = "between" /\ pre # 0 /\ calls = <<>>
    /\ out' = Between(roots[1], given.asked[1], given.asked[2])
    /\ phase' = "printed between"
    /\ UNCHANGED <<given, node, roots, calls, pre>>

----------------------------------------------------------------------------
\* 6.33 and 6.34: is u below v?  Node 1 is the root; the arrays L and R are the pointers.

RECURSIVE Progeny(_, _)
Progeny(u, v) ==
    /\ v # 0
    /\ \/ node[v].lchild = u \/ node[v].rchild = u
       \/ Progeny(u, node[v].lchild) \/ Progeny(u, node[v].rchild)

is_progeny ==
    /\ phase = "progeny"
    /\ pre' = IF Progeny(given.asked[1], given.asked[2]) THEN 1 ELSE 0
    /\ phase' = "answered down"
    /\ UNCHANGED <<given, node, roots, calls, out>>

\* T of 6.34, 0 for the root.
get_T(u) == IF \E p \in DOMAIN node : u \in {node[p].lchild, node[p].rchild} THEN Parent(u) ELSE 0

\* The node that the climb from u ends at: v, 1 or 0.
RECURSIVE Climbed(_, _)
Climbed(u, v) == IF u \in {0, 1, v} THEN u ELSE Climbed(get_T(u), v)

is_progeny_T ==
    /\ phase = "progeny"
    /\ LET u == given.asked[1]
           v == given.asked[2]
       IN  pre' = IF (u # 1 /\ v = 1) \/ Climbed(get_T(u), v) \notin {0, 1} THEN 1 ELSE 0
    /\ phase' = "answered up"
    /\ UNCHANGED <<given, node, roots, calls, out>>

----------------------------------------------------------------------------
\* 6.65: a tree from its preorder F and its inorder M, the numbers of the nodes as keys.

\* F and M without the root F[1], on its left and on its right.
getslices(F, M) ==
    LET x == CHOOSE i \in DOMAIN M : M[i] = F[1]
    IN  <<[do |-> "CreateTree", f |-> SubSeq(F, 2, x), m |-> SubSeq(M, 1, x - 1)],
          [do |-> "CreateTree", f |-> SubSeq(F, x + 1, Len(F)), m |-> SubSeq(M, x + 1, Len(M))]>>

\* The node's children are the roots of what is on its left and on its right.
CreateTree ==
    /\ phase = "orders" /\ calls # <<>>
    /\ LET F == calls[1].f
           M == calls[1].m
           Root(call) == IF call.f = <<>> THEN 0 ELSE call.f[1]
       IN  IF F = <<>> THEN calls' = Tail(calls) /\ UNCHANGED node
           ELSE LET parts == getslices(F, M)
                IN  /\ node' = [n \in DOMAIN node \cup {F[1]} |->
                                   IF n = F[1] THEN Node(n, Root(parts[1]), Root(parts[2])) ELSE node[n]]
                    /\ calls' = parts \o Tail(calls)
    /\ UNCHANGED <<given, phase, roots, pre, out>>

----------------------------------------------------------------------------

Join(t, u) == [n \in DOMAIN t \cup DOMAIN u |-> IF n \in DOMAIN t THEN t[n] ELSE u[n]]

ReadTrees ==
    /\ \E s \in Inputs(MaxFirst, Key), u \in Inputs(MaxSecond, Key) \cup {<<>>} :
          LET t1 == CreateBiTree(s, 0)
              t2 == CreateBiTree(u, Cardinality(DOMAIN t1))
              second == IF u = <<>> THEN 0 ELSE Cardinality(DOMAIN t1) + 1
          IN  /\ node = Join(t1, t2)
              /\ roots = <<1, second>>
              /\ \/ /\ phase = "merge" /\ InOrder(t1, 1) /\ InOrder(t2, second)
                    /\ calls = <<[do |-> "insert2", n |-> second]>>
                 \/ /\ phase = "insert" /\ second # 0 /\ t2[second].rchild = 0
                    /\ \A n \in DOMAIN node : \A o \in Key : o <= node[n].key
                    /\ calls = <<>>
    /\ given = [tree |-> <<>>, asked |-> <<>>]
    /\ pre = 0 /\ out = <<>>

\* One tree and what is asked about it.
Read(s, asked, exercise) ==
    /\ given = [tree |-> s, asked |-> asked]
    /\ node = CreateBiTree(s, 0)
    /\ roots = <<1, 0>> /\ out = <<>>
    /\ phase = exercise

ReadWalk == \E s \in Shapes : Read(s, <<>>, "walk") /\ pre = 1 /\ calls = <<>>

ReadReverse ==
    \E s \in Shapes : Read(s, <<>>, "reverse") /\ pre = 0 /\ calls = <<[do |-> "FOT_reverse", n |-> 1]>>

ReadClimb ==
    \E s \in Shapes : \E c1, c2 \in Range(s) \ {Null} :
        /\ Read(s, <<c1, c2>>, "climb")
        /\ pre = Get(c2)
        /\ calls = <<[do |-> "climb", n |-> Get(c1)], [do |-> "climb", n |-> Get(c2)]>>

ReadJudge == \E s \in Shapes : Read(s, <<>>, "judge") /\ pre = 0 /\ calls = <<>>

SearchTrees == {s \in Inputs(MaxFirst, 1 .. MaxKey) : InOrder(CreateBiTree(s, 0), 1)}

ReadGreater ==
    \E s \in SearchTrees, K \in 0 .. MaxKey + 1 : Read(s, <<K>>, "greater") /\ pre = 0 /\ calls = <<>>

ReadBetween ==
    \E s \in SearchTrees, a, b \in 0 .. MaxKey + 1 :
        /\ Len(s) > 2 /\ s[3] # Null
        /\ Read(s, <<a, b>>, "between") /\ pre = 0 /\ calls = <<>>

ReadProgeny ==
    \E s \in Shapes : \E u, v \in 1 .. Cardinality({q \in DOMAIN s : s[q] # Null}) :
        Read(s, <<u, v>>, "progeny") /\ pre = 0 /\ calls = <<>>

ReadOrders ==
    \E s \in Shapes :
        LET t == CreateBiTree(s, 0)
        IN  /\ given = [tree |-> s, asked |-> <<>>]
            /\ node = [n \in {} |-> 0] /\ roots = <<1, 0>>
            /\ calls = <<[do |-> "CreateTree", f |-> Preorder(t, 1), m |-> Inorder(t, 1)]>>
            /\ phase = "orders" /\ pre = 0 /\ out = <<>>

Init ==
    \/ ReadTrees \/ ReadWalk \/ ReadReverse \/ ReadClimb \/ ReadJudge
    \/ ReadGreater \/ ReadBetween \/ ReadProgeny \/ ReadOrders

Next ==
    \/ insert2 \/ midprint
    \/ insert_tree \/ add_clues_head \/ add_clues \/ LastClue \/ print_tree
    \/ bianli \/ FOT_reverse \/ print_reversed \/ Climb \/ Get_np \/ Judge_complete
    \/ PrintGreater \/ StartClues \/ add_successors \/ printnum
    \/ is_progeny \/ is_progeny_T \/ CreateTree

Spec == Init /\ [][Next]_vars

----------------------------------------------------------------------------

\* The nodes of the subtree.
Under(n) == Range(Inorder(node, n))

RECURSIVE Postorder(_, _)
Postorder(t, n) ==
    IF n = 0 THEN <<>> ELSE Postorder(t, t[n].lchild) \o Postorder(t, t[n].rchild) \o <<n>>

\* The places of the nodes if the children of place k were at 2k and 2k + 1.
RECURSIVE Places(_, _)
Places(n, k) ==
    IF n = 0 THEN {} ELSE {k} \cup Places(node[n].lchild, 2 * k) \cup Places(node[n].rchild, 2 * k + 1)

\* The walk prints in preorder; the mirrored tree's preorder is the tree's postorder
\* backwards; the two orders give the tree back.
WalksRight ==
    /\ phase = "walk" => /\ IsPrefix(out, Preorder(node, 1))
                         /\ pre = 0 /\ calls = <<>> => Len(out) = Cardinality(DOMAIN node)
    /\ phase = "reversed" => out = Reverse(Postorder(CreateBiTree(given.tree, 0), 1))
    /\ phase = "orders" /\ calls = <<>> =>
           LET t == CreateBiTree(given.tree, 0)
           IN  node = [n \in DOMAIN t |-> Node(n, t[n].lchild, t[n].rchild)]

\* The node met has both below it or is one of them, and none of its children does; u is
\* progeny of v just if it is another node of v's subtree; a complete tree fills the first
\* places.
AncestorsRight ==
    /\ phase = "met" =>
           LET both == {Get(given.asked[1]), Get(given.asked[2])}
           IN  both \subseteq Under(pre) /\ ~both \subseteq Under(node[pre].lchild) /\ ~both \subseteq Under(node[pre].rchild)
    /\ phase \in {"answered down", "answered up"} =>
           (pre = 1 <=> given.asked[1] \in Under(given.asked[2]) \ {given.asked[2]})
    /\ phase = "judged" => (pre = 1 <=> Places(1, 1) = 1 .. Cardinality(DOMAIN node))

Asked(n) ==
    IF phase = "large" THEN node[n].key >= given.asked[1]
    ELSE node[n].key > given.asked[1] /\ node[n].key < given.asked[2]

\* Just the keys asked for are printed, the largest or the smallest first, and the first
\* of the large ones is MAX; a thread leads to the next node in order.
KeysRight ==
    /\ phase \in {"large", "printed between"} =>
          /\ Range(out) = {n \in DOMAIN node : Asked(n)}
          /\ \A i, k \in DOMAIN out : i < k =>
                 /\ out[i] # out[k]
                 /\ IF phase = "large" THEN node[out[i]].key >= node[out[k]].key ELSE node[out[i]].key <= node[out[k]].key
    /\ phase = "large" /\ out # <<>> => out[1] = pre
    /\ phase = "printed between" =>
          LET order == Inorder(CreateBiTree(given.tree, 0), 1)
          IN  \A i \in 1 .. Len(order) - 1 : node[order[i]].rtag = 1 => node[order[i]].rchild = order[i + 1]

\* The merged tree has every node once and its keys in order; the threaded tree's
\* threads lead from every node to the one before and the one after it.
TreesRight ==
    /\ WalksRight /\ AncestorsRight /\ KeysRight
    /\ phase = "merged" =>
          /\ \A i, k \in DOMAIN out : i < k => node[out[i]].key <= node[out[k]].key
          /\ Range(out) = DOMAIN node /\ Len(out) = Cardinality(DOMAIN node)
          /\ pre = out[1]
    /\ phase = "printed" =>
          /\ Range(out) = DOMAIN node \ {HEAD} /\ Len(out) = Cardinality(DOMAIN node) - 1
          /\ \A i \in DOMAIN out :
                LET n == node[out[i]]
                IN  /\ n.ltag = 1 => n.lchild = IF i = 1 THEN HEAD ELSE out[i - 1]
                    /\ n.rtag = 1 => n.rchild = IF i = Len(out) THEN HEAD ELSE out[i + 1]
=============================================================================
