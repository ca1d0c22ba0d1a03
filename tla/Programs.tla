------------------------------ MODULE Programs ------------------------------
(***************************************************************************)
(* The programs of the repository that run on their own, and the kernel's  *)
(* output, which no other part of it looks at, side by side: a behaviour   *)
(* is one of the game, the spanning tree, an exercise or the output.  The  *)
(* variables of the part are kept in a, b, c and so on.                    *)
(***************************************************************************)
EXTENDS Integers, Sequences, FiniteSets

CONSTANTS
    MaxNode, FileNode, MaxLine, MaxWeight,      \* of Spanning
    N, MaxCount, Rows, Duels,                   \* of Gobang
    Size, Top,                                  \* of Storage
    Key, MaxLen,                                \* of Sorting
    NumNode, MaxArc, MaxValue,                  \* of Routes
    Letter, MaxWord, MaxWords,                  \* of Trie
    MaxFirst, MaxSecond, MaxTree, MaxKey,       \* of BinaryTrees
    SCREEN_WIDTH, SCREEN_HEIGHT, BUFF, Task, Formats, MaxCalls  \* of Output

VARIABLES part, a, b, c, d, e, f, g

vars == <<part, a, b, c, d, e, f, g>>

Mst == INSTANCE Spanning WITH phase <- a, net <- b, heap <- c, mf <- d, TREE <- e
Game == INSTANCE Gobang WITH mode <- a, builder <- b, row <- c, Board <- d, count <- e, lastOf <- f, won <- g
Store == INSTANCE Storage WITH kind <- a, used <- b, free <- c, pav <- d
Sort == INSTANCE Sorting WITH kind <- a, key <- b, range <- c, stack <- d, next <- e, i <- f, given <- g
Graph == INSTANCE Routes WITH phase <- a, H <- b, work <- c, degree <- d, Topo <- e, result <- f
Word == INSTANCE Trie WITH words <- a, s <- b, at <- c, j <- d, pre <- e, num <- f, out <- g
Tree == INSTANCE BinaryTrees WITH
            Key <- Letter, phase <- a, node <- b, roots <- c, calls <- d, pre <- e, out <- f, given <- g
Screen == INSTANCE Output WITH
              cells <- a, cursor <- b, pcb <- c, current_running <- d, calls <- e, page <- f

Init ==
    \/ part = "mst" /\ Mst!Init /\ f = "off" /\ g = "off"
    \/ part = "game" /\ Game!Init
    \/ part = "storage" /\ Store!Init /\ e = "off" /\ f = "off" /\ g = "off"
    \/ part = "sorting" /\ Sort!Init
    \/ part = "routes" /\ Graph!Init /\ g = "off"
    \/ part = "words" /\ Word!Init
    \/ part = "trees" /\ Tree!Init
    \/ part = "output" /\ Screen!Init /\ g = "off"

Next ==
    \/ part = "mst" /\ Mst!Next /\ UNCHANGED <<part, f, g>>
    \/ part = "game" /\ Game!Next /\ UNCHANGED part
    \/ part = "storage" /\ Store!Next /\ UNCHANGED <<part, e, f, g>>
    \/ part = "sorting" /\ Sort!Next /\ UNCHANGED part
    \/ part = "routes" /\ Graph!Next /\ UNCHANGED <<part, g>>
    \/ part = "words" /\ Word!Next /\ UNCHANGED part
    \/ part = "trees" /\ Tree!Next /\ UNCHANGED part
    \/ part = "output" /\ Screen!Next /\ UNCHANGED <<part, g>>

Spec == Init /\ [][Next]_vars

----------------------------------------------------------------------------

\* The generator prints a spanning tree no other outweighs less, and its heap stays one
\* whatever leaves it has lost.
TreeMinimal == part = "mst" => Mst!HeapOrdered /\ Mst!TreeMinimal

\* A stone that makes five in a row wins at once, one that does not never wins, and only
\* the stone put last is shown as the last.
FiveWins == part = "game" => Game!FiveWins /\ Game!LastShown

\* The answers.  Storage given back is whole again (8.13, 8.14, 8.15), arrays and lists
\* are sorted (10.30, 10.33), paths are longest and shortest, what can be reached and
\* whether there is a cycle is found, a matrix keeps its arcs (7.36, 7.42, 7.22, 7.25,
\* 7.15), a node counts the words through it (9.43, 9.42), trees keep their order and are
\* walked, built and searched as they should be (9.38, 6.58, 6.33, 6.34, 6.37, 6.43,
\* 6.48, 6.49, 6.65, 9.33, 9.35).  And the terminal shows what the tasks wrote, each where
\* it wrote it, as their formats mean it (printk.c, screen.c).
AnswersRight ==
    /\ part = "storage" => Store!FreeWhole
    /\ part = "sorting" => Sort!QuickRight /\ Sort!SelectRight
    /\ part = "routes" => Graph!RoutesRight
    /\ part = "words" => Word!NumsRight
    /\ part = "trees" => Tree!TreesRight
    /\ part = "output" => Screen!OutputRight

----------------------------------------------------------------------------
(* The instance that is checked: rows of five or six cells in every direction on both *)
(* sides of the middle.                                                              *)

MCN == 6
Line(at, way, len) ==
    {<<at[1] + k * way[1], at[2] + k * way[2]>> : k \in 0 .. len - 1} \cap ((0 .. MCN - 1) \X (0 .. MCN - 1))
Ways == {<<0, 1>>, <<1, 0>>, <<1, 1>>, <<1, -1>>}
Through == {Line(at, way, 6) : at \in (0 .. MCN - 1) \X (0 .. MCN - 1), way \in Ways}
Whole == {r \in Through : <<2, 2>> \in r /\ Cardinality(r) >= 5}
MCRows == Whole \cup {Line(<<1, 5>>, <<1, -1>>, 5), Line(<<1, 0>>, <<1, 1>>, 5)}
MCDuels == {Line(<<2, 1>>, <<1, 0>>, 3)}

\* Letters and ends of lines, numbers below zero, padded or of letters, some too long for
\* the buffer.
Directive(letter, zero_pad, arg) == [d |-> letter, zero_pad |-> zero_pad, arg |-> arg]
MCFormats ==
    {<<Directive("plain", 0, <<97>>), Directive("c", 0, <<10>>)>>,
     <<Directive("d", 3, <<-12>>)>>,
     <<Directive("x", 0, <<171>>), Directive("s", 0, <<98, 99>>)>>,
     <<Directive("c", 0, <<8>>), Directive("X", 0, <<10>>), Directive("c", 0, <<13>>)>>}
=============================================================================
