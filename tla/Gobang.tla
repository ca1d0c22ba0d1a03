------------------------------- MODULE Gobang -------------------------------
(***************************************************************************)
(* The gomoku game: two people, or a person against the program, put       *)
(* stones on a board until Judge tells a winner.  A cell is <<x, y>> as in *)
(* Board[x][y]; the board is N cells wide and the code's 15, 14 and 17 are *)
(* N, N - 1 and N + 2.  A person's moves are taken from a row of cells the *)
(* behaviour starts with; how they are typed is left out.  The game is     *)
(* over before the board is full.                                          *)
(***************************************************************************)
EXTENDS Integers, Sequences, FiniteSets, FiniteSetsExt, SequencesExt

CONSTANTS
    N,
    MaxCount,   \* stones put, plus one
    Rows,       \* where the builder of a game of two people puts stones
    Duels       \* the same for a game against the program

VARIABLES
    mode,       \* "two", "black" or "white": whom the person plays
    builder,    \* who of two people follows the row
    row,
    Board,      \* 1, 3, 4, 13 or 14: free, stones, the stone just put
    count,
    lastOf,     \* <<a1, b1>> and <<a2, b2>>
    won         \* 0 while the game goes on

vars == <<mode, builder, row, Board, count, lastOf, won>>

Black == 1
White == 2
Cells == (0 .. N - 1) \X (0 .. N - 1)

----------------------------------------------------------------------------
\* Lines of the board, with the edge around it, and what is found in them.

transfer(g) == CASE g % 10 = 1 -> 0 [] g % 10 = 3 -> Black [] g % 10 = 4 -> White

\* What EvaluateChess and Judge look at; Board holds nothing transfer does not know.
iboard == [c \in Cells |-> transfer(Board[c])]

tboard(board, x, y) == IF x \in 1 .. N /\ y \in 1 .. N THEN board[<<x - 1, y - 1>>] ELSE 3

\* The line through p in direction a, from its first cell, and the place of p in it.
mygetline(board, p, a) ==
    LET x == p[1]
        y == p[2]
        along(len, f(_), e) == [s |-> [q \in 1 .. len + 1 |-> tboard(board, f(q - 1)[1], f(q - 1)[2])], e |-> e]
    IN  CASE a = 0 -> along(N + 1, LAMBDA q : <<x + 1, q>>, y + 1)
          [] a = 1 -> along(N + 1, LAMBDA q : <<q, y + 1>>, x + 1)
          [] a = 2 /\ x > y -> along(N + 1 - x + y, LAMBDA q : <<x - y + q, q>>, y + 1)
          [] a = 2 /\ x <= y -> along(N + 1 - y + x, LAMBDA q : <<q, y - x + q>>, x + 1)
          [] a = 3 /\ x + y <= N - 1 -> along(x + y + 2, LAMBDA q : <<x + y + 2 - q, q>>, y + 1)
          [] a = 3 /\ x + y > N - 1 ->
                along(2 * N - x - y, LAMBDA q : <<N + 1 - q, x + y - (N - 1) + q>>, N - 1 - x)

\* A mutant of match: the stone may not be at an end of the pattern.
Inside(line, pattern, i) ==
    LET len == Len(pattern)
    IN  /\ i + len < Len(line.s)
        /\ line.e \in i + 1 .. i + len - 2
        /\ \A j \in 1 .. len : line.s[i + j] = pattern[j]

\* The pattern is found after the first i characters, read either way, around the stone.
match(line, pattern, i) ==
    LET len == Len(pattern)
    IN  /\ i + len < Len(line.s)
        /\ line.e \in i .. i + len
        /\ \/ \A j \in 1 .. len : line.s[i + j] = pattern[j]
           \/ \A j \in 1 .. len : line.s[i + j] = pattern[len + 1 - j]

\* chesstype's patterns for black; for white 1 and 2 change places.
Patterns == [
    FIVE    |-> {<<1,1,1,1,1>>},
    FOUR    |-> {<<0,1,1,1,1,0>>},
    SFOUR   |-> {<<1,0,1,1,1>>, <<1,1,0,1,1>>, <<3,1,1,1,1,0>>, <<2,1,1,1,1,0>>},
    THREE   |-> {<<0,1,0,1,1,0>>},
    DTHREE  |-> {<<2,1,1,1,0,0>>, <<3,1,1,1,0,0>>, <<2,1,1,0,1,0>>, <<3,1,1,0,1,0>>, <<2,1,0,1,1,0>>,
                 <<3,1,0,1,1,0>>, <<1,1,0,0,1>>, <<1,0,1,0,1>>, <<2,0,1,1,1,0,2>>, <<3,0,1,1,1,0,2>>,
                 <<3,0,1,1,1,0,3>>},
    TWO     |-> {<<0,0,1,1,0,0>>, <<0,1,0,0,1,0>>},
    DTWO    |-> {<<0,0,0,1,1,2>>, <<0,0,0,1,1,3>>, <<0,0,1,0,1,1,2>>, <<0,0,1,0,1,3>>, <<0,1,0,0,1,2>>,
                 <<0,1,0,0,1,3>>, <<1,0,0,0,1>>, <<2,0,1,0,1,0,2>>, <<3,0,1,0,1,0,2>>, <<3,0,1,0,1,0,3>>,
                 <<2,0,1,1,0,0,2>>, <<2,0,1,1,0,0,3>>, <<3,0,1,1,0,0,2>>},
    SIFOUR  |-> {<<2,1,1,1,1,2>>, <<2,1,1,1,1,3>>, <<3,1,1,1,1,3>>},
    SITHREE |-> {<<2,1,1,1,2>>, <<2,1,1,1,3>>, <<3,1,1,1,3>>},
    SITWO   |-> {<<2,1,1,2>>, <<2,1,1,3>>, <<3,1,1,3>>}]

\* The patterns counted half.
Halves == [THREE |-> <<0,0,1,1,1,0>>, TWO |-> <<0,1,0,1,0,0>>]

Recoloured(pattern) ==
    [j \in DOMAIN pattern |-> CASE pattern[j] = 1 -> 2 [] pattern[j] = 2 -> 1 [] OTHER -> pattern[j]]

Figures == [t \in DOMAIN Patterns |-> <<Patterns[t], {Recoloured(p) : p \in Patterns[t]}>>]
HalfFigures == [t \in DOMAIN Halves |-> <<{Halves[t]}, {Recoloured(Halves[t])}>>]
Overlines == [player \in {Black, White} |-> {[j \in 1 .. len |-> player] : len \in 6 .. N}]

chesstype(line, t, player) ==
    LET found(S) == Cardinality({f \in S \X (0 .. N) : match(line, f[1], f[2])})
    IN  IF t = "LONG"
        THEN IF found(Overlines[player]) > 0 THEN 1 ELSE 0
        ELSE found(Figures[t][player]) + (IF t \in DOMAIN Halves THEN found(HalfFigures[t][player]) \div 2 ELSE 0)

\* How many figures of type t go through p, in the four directions.
alltypes(board, p, player, t) ==
    LET in(a) == chesstype(mygetline(board, p, a), t, player)
    IN  in(0) + in(1) + in(2) + in(3)

\* All of them.
types(board, p, player) == [t \in DOMAIN Patterns \cup {"LONG"} |-> alltypes(board, p, player, t)]

----------------------------------------------------------------------------
\* The program's choice.

MAPSCORE(p) == Min({p[1], p[2], N - 1 - p[1], N - 1 - p[2]})

marking(board, p, player) ==
    LET type == types(board, p, player)
        has(t) == type[t] > 0
    IN  MAPSCORE(p) + (
        IF has("FIVE") \/ (player = White /\ has("LONG")) THEN 1000000
        ELSE IF player = Black /\ (has("LONG") \/ type["FOUR"] + type["SFOUR"] >= 2 \/ type["THREE"] >= 2)
             THEN -1000000
        ELSE IF has("FOUR") \/ type["SFOUR"] >= 2 \/ (has("SFOUR") /\ has("THREE")) THEN 100000
        ELSE IF type["THREE"] >= 2 THEN 50000
        ELSE IF has("THREE") /\ has("DTHREE") THEN 10000
        ELSE IF has("SFOUR") THEN 5000
        ELSE IF has("THREE") THEN 2000
        ELSE IF type["TWO"] >= 2 THEN 1000
        ELSE IF has("DTHREE") THEN 500
        ELSE IF has("TWO") /\ has("DTWO") THEN 100
        ELSE IF has("TWO") THEN 50
        ELSE IF has("DTWO") THEN 30
        ELSE IF has("SIFOUR") \/ has("SITHREE") \/ has("SITWO") THEN -50
        ELSE 0)

\* What the cell p is worth to attack and to defend; the stones are taken back.
EvaluateChess(board, p, player) ==
    7 * marking([board EXCEPT ![p] = player], p, player)
    + 5 * marking([board EXCEPT ![p] = 3 - player], p, 3 - player)

HasNeighbor(board, p) ==
    /\ board[p] = 0
    /\ \E c \in Cells : c[1] \in p[1] - 1 .. p[1] + 1 /\ c[2] \in p[2] - 1 .. p[2] + 1 /\ board[c] # 0

\* The largest score comes first.
cmpspoint(scores) == Max(scores)

\* The move taken; qsort's order of equal scores is not known.
GenMove(board, player) ==
    LET moves == {[at |-> p, score |-> EvaluateChess(board, p, player)] : p \in {c \in Cells : HasNeighbor(board, c)}}
        best == cmpspoint({m.score : m \in moves})
    IN  {m.at : m \in {o \in moves : o.score = best}}

----------------------------------------------------------------------------
\* The game.

\* Whose turn it is: black's when count is odd.
Mover == 2 - (count % 2)

BoardSetting == [c \in Cells |-> 1]

Free(c) == Board[c] = 1

\* Judge after the stone at p: black loses by a forbidden figure.
Judge(board, p) ==
    LET type == types(board, p, Mover)
    IN  CASE type["FIVE"] > 0 -> Mover
          [] /\ type["FIVE"] = 0 /\ count % 2 = 1
             /\ \/ type["LONG"] > 0 \/ type["FOUR"] + type["SFOUR"] >= 2 \/ type["THREE"] >= 2 -> White
          [] OTHER -> 0

Put(p) ==
    LET me == Mover
        it == 3 - Mover
        unmarked == IF lastOf[it] \in Cells THEN [Board EXCEPT ![lastOf[it]] = 2 + it] ELSE Board
    IN  /\ Board' = [unmarked EXCEPT ![p] = 12 + me]
        /\ lastOf' = [lastOf EXCEPT ![me] = p]
        /\ won' = Judge(iboard', p)
        /\ count' = count + 1
        /\ UNCHANGED <<mode, builder, row>>

\* Cells away from the row, no three of them side by side.
Aside ==
    LET free == {c \in Cells \ row : Free(c) /\ (c[1] + c[2]) % 2 = 0}
    IN  {CHOOSE c \in free : \A o \in free : c[1] * N + c[2] <= o[1] * N + o[2]}

\* GetAddress: a person may only name a free cell.
Named(follows) == IF follows /\ \E c \in row : Free(c) THEN {c \in row : Free(c)} ELSE Aside

Init ==
    /\ \/ mode = "two" /\ builder \in {Black, White} /\ row \in Rows
       \/ mode \in {"black", "white"} /\ builder = 0 /\ row \in Duels
    /\ Board = BoardSetting
    /\ count = 1
    /\ lastOf = [p \in {Black, White} |-> <<>>]
    /\ won = 0

\* BeginPlay between two people.
TwoPeople ==
    /\ mode = "two" /\ won = 0 /\ count < MaxCount
    /\ \E p \in Named(builder = Mover) : Put(p)

\* BeginPlay against the program: the person's turn, and the program's.
ProgramsTurn == \/ mode = "black" /\ Mover = White
                \/ mode = "white" /\ Mover = Black

Person ==
    /\ mode # "two" /\ ~ProgramsTurn /\ won = 0 /\ count < MaxCount
    /\ \E p \in Named(TRUE) : Put(p)

Program ==
    /\ mode # "two" /\ ProgramsTurn /\ won = 0 /\ count < MaxCount
    /\ \E p \in IF count = 1 THEN {<<N \div 2, N \div 2>>} ELSE GenMove(iboard, Mover) : Put(p)

Next == TwoPeople \/ Person \/ Program

Spec == Init /\ [][Next]_vars

----------------------------------------------------------------------------

Directions == {<<0, 1>>, <<1, 0>>, <<1, 1>>, <<1, -1>>}

\* The stones of p's colour in line with p.
Run(board, p, d) ==
    LET at(k) == <<p[1] + k * d[1], p[2] + k * d[2]>>
        same(k) == at(k) \in Cells /\ board[at(k)] = board[p]
        ahead == CHOOSE k \in 0 .. N : (\A j \in 0 .. k : same(j)) /\ ~same(k + 1)
        back == CHOOSE k \in 0 .. N : (\A j \in -k .. 0 : same(j)) /\ ~same(-k - 1)
    IN  1 + ahead + back

\* In the lower right half of the board mygetline gives for a stone the place before its
\* own in the line from lower left to upper right (e = 14 - p->x, where 15 - p->x is the
\* stone's); what begins with the stone is then not found around it.
Missed(p, d) ==
    LET before == <<p[1] + 1, p[2] - 1>>
    IN  d = <<1, -1>> /\ p[1] + p[2] > N - 1 /\ (before \in Cells => iboard[before] # iboard[p])

MoverBefore == 1 + (count % 2)

\* A stone wins exactly when it makes five in a row, in each direction and wherever it is
\* in the row, but for a row from lower left to upper right, in the lower right half of
\* the board, that it completes at its lower left end.
FiveWins ==
    \A p \in Cells : count > 1 /\ p = lastOf[MoverBefore] =>
        (won = MoverBefore <=> \E d \in Directions : Run(iboard, p, d) >= 5 /\ ~ Missed(p, d))

\* Only the stone put last is shown as the last, and the colours take turns.
LastShown ==
    LET stones(S) == {c \in Cells : Board[c] \in S}
    IN  /\ stones({13, 14}) = IF count = 1 THEN {} ELSE {lastOf[MoverBefore]}
        /\ Cardinality(stones({3, 13})) - Cardinality(stones({4, 14})) = (count - 1) % 2

=============================================================================
