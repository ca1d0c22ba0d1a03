------------------------------ MODULE OpenFiles ------------------------------
(***************************************************************************)
(* open, close, read, write and fsearch of fs/fs.c: descriptors, positions *)
(* and the direct, indirect and doubly indirect blocks of files.  A block  *)
(* has a fixed place in memory and one on the SD card; a cell holds a      *)
(* piece of a file or the number of a block.                               *)
(***************************************************************************)
EXTENDS Integers, FiniteSets, SequencesExt

CONSTANTS
    File,        \* inodes of files that touch has made
    NumFd,       \* descriptors, 15
    BlockSize,   \* cells of a block, 4096
    Direct,      \* DIR_BLOCK_NUM, 11
    Pointers,    \* block numbers in an index block, 1024
    NumBlocks,   \* blocks of the card
    Limit,       \* the length to which users let each file grow
    Watch,       \* positions of which one is watched, in each file
    Access,      \* the modes in which users open files
    Discipline   \* what users see to, a subset of Promises

Promises ==
  { "reads",    \* a read stays inside one block
    "writes",   \* a write stays inside one block
    "append",   \* behind its first block a file is only appended to
    "start",    \* a write to a direct block but the first starts at its start
    "warm" }    \* after a restart a file is read before it is written

VARIABLES
    fds,      \* the descriptors
    inode,    \* inode_entry[]: block numbers
    bmap,     \* block_map: the blocks in use
    memory,   \* the blocks in memory
    card,     \* the blocks on the card
    call,     \* the read or write at work
    text,     \* history: what was written to each file
    watched   \* history: a place <<file, position>> whose data matter

store == <<inode, bmap, memory, card>>
vars  == <<fds, store, call, text, watched>>

Fd     == 0 .. NumFd - 1
Blocks == 0 .. NumBlocks - 1
Cells  == 0 .. BlockSize - 1
Small  == Direct * BlockSize                           \* SMALL_FILE
Middle == Small + Pointers * BlockSize                 \* MIDDLE_FILE
Big    == Middle + Pointers * Pointers * BlockSize     \* BIG_FILE

OpenFilesAssumption ==
    /\ IsFiniteSet(File) /\ NumFd \in Nat \ {0}
    /\ BlockSize \in Nat \ {0} /\ Direct \in Nat \ {0} /\ Pointers \in 1 .. BlockSize
    /\ Access \subseteq {"r", "w", "rw"}
    /\ NumBlocks \in Nat /\ Cardinality(File) < NumBlocks
    /\ Limit \in [File -> Nat] /\ \A f \in File : Limit[f] <= Big
    /\ Discipline \subseteq Promises

Closed == [file |-> "none", mode |-> "none", readPos |-> 0, writePos |-> 0]
NoCall == [kind |-> "none"]
Blank  == [b \in Blocks |-> [c \in Cells |-> 0]]

\* touch has given each file its first block; block 0 is the root directory's.
Init ==
    /\ fds = [d \in Fd |-> Closed]
    /\ LET g == CHOOSE g \in Bijection(File, 1 .. Cardinality(File)) : TRUE
       IN inode = [f \in File |-> [direct |-> [i \in 0 .. Direct - 1 |-> IF i = 0 THEN g[f] ELSE 0],
                                    first |-> 0, second |-> 0]]
    /\ bmap = 0 .. Cardinality(File)
    /\ memory = Blank /\ card = Blank
    /\ call = NoCall
    /\ text = [f \in File |-> <<>>]
    /\ watched \in UNION {{f} \X Watch[f] : f \in File}

Quiet == call = NoCall
Lowest(S) == CHOOSE x \in S : \A y \in S : x <= y

----------------------------------------------------------------------------
(* Descriptors                                                             *)

Unused == {d \in Fd : fds[d].file = "none"}
Opened == Fd \ Unused

open(f, access) ==
    /\ Quiet /\ Unused # {}
    /\ fds' = [fds EXCEPT ![Lowest(Unused)] =
                  [file |-> f, mode |-> access, readPos |-> 0, writePos |-> 0]]
    /\ UNCHANGED <<store, call, text, watched>>

close(d) ==
    /\ Quiet
    /\ fds' = [fds EXCEPT ![d] = Closed]
    /\ UNCHANGED <<store, call, text, watched>>

\* fsearch takes any place; users stay inside the file.
fsearch(d, locate) ==
    /\ Quiet
    /\ \/ fds[d].mode # "r" /\ fds' = [fds EXCEPT ![d].writePos = locate]
       \/ fds[d].mode # "w" /\ fds' = [fds EXCEPT ![d].readPos = locate]
    /\ UNCHANGED <<store, call, text, watched>>

Restart ==
    /\ Quiet
    /\ memory' = Blank
    /\ fds' = [d \in Fd |-> Closed]
    /\ UNCHANGED <<inode, bmap, card, call, text, watched>>

----------------------------------------------------------------------------
(* The way from a position to its block                                    *)

Number(p) == p \div BlockSize
Offset(p) == p % BlockSize
Doubly(p) == Number(p) - Direct - Pointers

\* The index blocks on the way to position p of inode v in the blocks m, and the
\* block itself.
IndexBlocks(m, v, p) ==
    IF p < Small THEN <<>>
    ELSE IF p < Middle THEN <<v.first>>
    ELSE <<v.second, m[v.second][Doubly(p) \div Pointers]>>
DataBlock(m, v, p) ==
    IF p < Small THEN v.direct[Number(p)]
    ELSE IF p < Middle THEN m[v.first][Number(p) - Direct]
    ELSE m[m[v.second][Doubly(p) \div Pointers]][Doubly(p) % Pointers]
Way(m, v, p) == ToSet(IndexBlocks(m, v, p)) \cup {DataBlock(m, v, p)}

\* sd_wr_block(b, READ) of each block of S.  Mutant: it is left out.
NotLoaded(S) == memory
Loaded(S) == [b \in Blocks |-> IF b \in S THEN card[b] ELSE memory[b]]

----------------------------------------------------------------------------
(* read                                                                    *)

Begin(kind, d, pos, buffer) ==
    call' = [kind |-> kind, fd |-> d, from |-> pos, todo |-> Len(buffer), buffer |-> buffer]

ReadCall(d, n) ==
    LET p == fds[d].readPos
    IN /\ Quiet /\ fds[d].mode # "w"
       /\ p + n <= Len(text[fds[d].file])
       /\ "reads" \in Discipline => Offset(p) + n <= BlockSize
       /\ Begin("read", d, p, [i \in 1 .. n |-> 0])
       /\ UNCHANGED <<fds, store, text, watched>>

\* The cells of one iteration of the loops of read and write.
Chunk(p) == Lowest({call.todo, BlockSize - Offset(p)})

\* read_block puts the cells of every block at the start of the buffer.
ReadStep ==
    /\ call # NoCall /\ call.kind = "read" /\ call.todo > 0
    /\ LET d == call.fd
           p == fds[d].readPos
           v == inode[fds[d].file]
           n == Chunk(p)
           S == Way(card, v, p)
       IN /\ memory' = Loaded(S)
          /\ call' = [call EXCEPT !.todo = @ - n,
                                  !.buffer = [i \in DOMAIN @ |->
                                      IF i <= n THEN memory'[DataBlock(memory', v, p)][Offset(p) + i - 1] ELSE @[i]]]
          /\ fds' = [fds EXCEPT ![d].readPos = p + n]
    /\ UNCHANGED <<inode, bmap, card, text, watched>>

----------------------------------------------------------------------------
(* write                                                                   *)

\* What write(d) of n cells finds already there and changes.
Present(v, p) ==
    IF p < Small THEN IF Number(p) = 0 THEN {v.direct[0]} ELSE {}
    ELSE IF p < Middle THEN IF p = Small THEN {} ELSE {v.first}
    ELSE IF p = Middle THEN {} ELSE {v.second} \cup {card[v.second][i] : i \in 0 .. Doubly(p) \div Pointers}
PresentData(v, p) == IF p >= Small /\ Offset(p) > 0 THEN {DataBlock(card, v, p)} ELSE {}

Allowed(f, p, n) ==
    /\ p <= Len(text[f]) /\ p + n <= Limit[f]
    /\ "writes" \in Discipline => Offset(p) + n <= BlockSize
    /\ "append" \in Discipline => p < BlockSize \/ p = Len(text[f])
    /\ "start" \in Discipline  => p \notin BlockSize .. Small - 1 \/ Offset(p) = 0
    /\ "warm" \in Discipline   =>
        \A b \in Present(inode[f], p) \cup PresentData(inode[f], p) : memory[b] = card[b]

\* Only the datum at the watched place varies.
WriteCall(d, n) ==
    LET f == fds[d].file
        p == fds[d].writePos
    IN /\ Quiet /\ fds[d].mode # "r"
       /\ Allowed(f, p, n)
       /\ \E x \in {1, 2} :
           Begin("write", d, p, [i \in 1 .. n |-> IF watched = <<f, p + i - 1>> THEN x ELSE 3])
       /\ UNCHANGED <<fds, store, text, watched>>

\* alloc_datablock, called three times: each time the lowest block that is free.
Fresh ==
    LET free == Blocks \ bmap
        x == Lowest(free)
        y == Lowest(free \ {x})
    IN <<x, y, Lowest(free \ {x, y})>>

\* Which blocks one iteration at p allocates.  Mutant: the second index block of
\* a doubly indirect area is not.
First(p)  == p = Small
Second(p) == p = Middle
OneIndex(p)  == p = Middle
Index(p)  == p >= Middle /\ Offset(p) = 0 /\ Doubly(p) % Pointers = 0
Data(p)   == IF p < Small THEN Number(p) # 0 ELSE Offset(p) = 0

\* With these blocks the way to p is complete: inode, memory and block map.
Grown(v, p) ==
    LET new  == Fresh
        i1   == IF First(p) \/ Second(p) THEN 1 ELSE 0
        i2   == i1 + IF Index(p) THEN 1 ELSE 0
        i3   == i2 + IF Data(p) THEN 1 ELSE 0
        top  == IF First(p) \/ Second(p) THEN new[1] ELSE IF p < Middle THEN v.first ELSE v.second
        v1   == CASE First(p) -> [v EXCEPT !.first = top]
                  [] Second(p) -> [v EXCEPT !.second = top]
                  [] OTHER -> v
        m1   == IF Index(p) THEN [memory EXCEPT ![top][Doubly(p) \div Pointers] = new[i2]] ELSE memory
        leaf == IF p < Middle THEN top ELSE m1[top][Doubly(p) \div Pointers]
        slot == IF p < Middle THEN Number(p) - Direct ELSE Doubly(p) % Pointers
    IN [inode  |-> IF Data(p) /\ p < Small THEN [v1 EXCEPT !.direct[Number(p)] = new[1]] ELSE v1,
        memory |-> IF Data(p) /\ p >= Small THEN [m1 EXCEPT ![leaf][slot] = new[i3]] ELSE m1,
        bmap   |-> bmap \cup {new[i] : i \in 1 .. i3}]

\* The index blocks that go to the card at the end of a call that wrote from p to
\* q: inode.first, and inode.second with the blocks it names up to the first 0.
Flushed(m, v, p, q) ==
    (IF p < Middle /\ q > Small THEN {v.first} ELSE {}) \cup
    (IF q > Middle THEN {v.second} \cup
        {m[v.second][i] : i \in {j \in 0 .. Pointers - 1 : \A h \in 0 .. j : m[v.second][h] # 0}} ELSE {})

\* write_block takes the cells of every block from the start of the buffer.
WriteStep ==
    /\ call # NoCall /\ call.kind = "write" /\ call.todo > 0
    /\ LET d == call.fd
           f == fds[d].file
           p == fds[d].writePos
           n == Chunk(p)
           g == Grown(inode[f], p)
           b == DataBlock(g.memory, g.inode, p)
           m == [g.memory EXCEPT ![b] = [c \in Cells |->
                    IF c \in Offset(p) .. Offset(p) + n - 1 THEN call.buffer[c - Offset(p) + 1] ELSE @[c]]]
           S == {b} \cup IF call.todo = n THEN Flushed(m, g.inode, call.from, p + n) ELSE {}
       IN /\ Cardinality(Blocks \ bmap) >= 3
          /\ inode' = [inode EXCEPT ![f] = g.inode]
          /\ bmap' = g.bmap
          /\ memory' = m
          /\ card' = [c \in Blocks |-> IF c \in S THEN m[c] ELSE card[c]]
          /\ call' = [call EXCEPT !.todo = @ - n]
          /\ fds' = [fds EXCEPT ![d].writePos = p + n]
    /\ UNCHANGED <<text, watched>>

\* The call returns.  The history learns what a write has written.
Return ==
    /\ call # NoCall /\ call.todo = 0
    /\ text' = IF call.kind = "read" THEN text
               ELSE [text EXCEPT ![fds[call.fd].file] =
                        SubSeq(@, 1, call.from) \o call.buffer \o
                        SubSeq(@, call.from + Len(call.buffer) + 1, Len(@))]
    /\ call' = NoCall
    /\ UNCHANGED <<fds, store, watched>>

Next ==
    \/ \E f \in File, access \in Access : open(f, access)
    \/ \E d \in Opened :
        \/ close(d)
        \/ \E locate \in {0, Len(text[fds[d].file])} : fsearch(d, locate)
        \/ \E n \in 1 .. BlockSize + 1 : ReadCall(d, n) \/ WriteCall(d, n)
    \/ ReadStep \/ WriteStep \/ Return
    \/ Restart

Spec == Init /\ [][Next]_vars

----------------------------------------------------------------------------
(* Properties                                                              *)

\* A read returns what was written there last, however the way to the block is
\* indexed, whoever allocated in between, and across restarts.
ReadBack ==
    call # NoCall /\ call.kind = "read" /\ call.todo = 0 =>
        \A i \in DOMAIN call.buffer : call.buffer[i] = text[fds[call.fd].file][call.from + i]

\* The blocks on the ways to the data of a file.
BlocksOf(f) ==
    {inode[f].direct[0]} \cup
    UNION {Way(card, inode[f], p) : p \in 0 .. Len(text[f]) - 1}

\* Between calls the block map marks the blocks of the files and the root's, and
\* no block has two owners.
BlocksExact ==
    Quiet => /\ bmap = {0} \cup UNION {BlocksOf(f) : f \in File}
             /\ \A f, g \in File : f # g => BlocksOf(f) \cap BlocksOf(g) = {}

----------------------------------------------------------------------------
(* Why they hold: what the blocks of a file are for                        *)

\* A write that has changed the blocks and has not returned.
Written(f) == call # NoCall /\ call.kind = "write" /\ call.todo = 0 /\ fds[call.fd].file = f

\* The cells of file f, and what it comes to hold, as soon as the blocks have them.
Extent(f) ==
    IF Written(f) /\ call.from + Len(call.buffer) > Len(text[f]) THEN call.from + Len(call.buffer)
    ELSE Len(text[f])
Content(f, i) ==
    IF Written(f) /\ i \in call.from .. call.from + Len(call.buffer) - 1 THEN call.buffer[i - call.from + 1]
    ELSE text[f][i + 1]

\* Blocks of data for n cells; touch gives the first.
Count(n) == IF n = 0 THEN 1 ELSE Number(n - 1) + 1

\* The places in a file of n blocks of data, and the block of each.
Area == Direct + Pointers
Turn(k) == (k - Area) \div Pointers
Rest(k) == (k - Area) % Pointers
Places(n) ==
    ({"data"} \X (0 .. n - 1))
    \cup {x \in {"first"} \X {0} : n > Direct}
    \cup {x \in {"second"} \X {0} : n > Area}
    \cup {x \in {"index"} \X (0 .. Turn(n - 1)) : n > Area}

DataAt(m, v, k) ==
    IF k < Direct THEN v.direct[k]
    ELSE IF k < Area THEN m[v.first][k - Direct]
    ELSE m[m[v.second][Turn(k)]][Rest(k)]
At(m, v, x) ==
    IF x[1] = "data" THEN DataAt(m, v, x[2])
    ELSE IF x[1] = "first" THEN v.first
    ELSE IF x[1] = "second" THEN v.second
    ELSE m[v.second][x[2]]

BlockAt(f, x) == At(card, inode[f], x)
Has(f) == Places(Count(Extent(f)))

\* Every place has a block of its own, every block in use is some place's, and the blocks that
\* are free, and the slots for index blocks to come, are blank.
EachItsOwn ==
    \A f, g \in File : \A x \in Has(f), y \in Has(g) : BlockAt(f, x) = BlockAt(g, y) => f = g /\ x = y
AllMarked == \A f \in File : \A x \in Has(f) : BlockAt(f, x) \in bmap \ {0}
MarkedUsed == \A c \in bmap \ {0} : \E f \in File : \E x \in Has(f) : c = BlockAt(f, x)
FreeBlank == \A c \in Blocks \ bmap : card[c] = Blank[c] /\ memory[c] = Blank[c]
NoMoreIndices ==
    \A f \in File : LET n == Count(Extent(f)) IN
        n > Area => \A i \in Turn(n - 1) + 1 .. Pointers - 1 : card[inode[f].second][i] = 0

\* The blocks hold what was written.
Holds ==
    \A f \in File : \A i \in 0 .. Extent(f) - 1 :
        card[DataAt(card, inode[f], Number(i))][Offset(i)] = Content(f, i)

\* What a call that is at work goes on with.
Calling ==
    \/ call = NoCall
    \/ LET f == fds[call.fd].file
           p == call.from
           n == Len(call.buffer)
       IN /\ call.fd \in Fd /\ f \in File /\ n > 0 /\ p \in Nat
          /\ \/ /\ call.kind = "read" /\ p + n <= Len(text[f]) /\ call.todo \in {0, n}
                /\ call.todo = n => fds[call.fd].readPos = p /\ Offset(p) + n <= BlockSize
                /\ call.todo = 0 => \A i \in 1 .. n : call.buffer[i] = text[f][p + i]
             \/ call.kind = "write" /\ call.todo = n /\ fds[call.fd].writePos = p /\ Allowed(f, p, n)
             \/ call.kind = "write" /\ call.todo = 0 /\ p <= Len(text[f]) /\ p + n <= Limit[f]

FilesTyped ==
    /\ fds \in [Fd -> [file : File \cup {"none"}, mode : {"none"} \cup Access, readPos : Nat, writePos : Nat]]
    /\ inode \in [File -> [direct : [0 .. Direct - 1 -> Blocks], first : Blocks, second : Blocks]]
    /\ bmap \subseteq Blocks /\ 0 \in bmap
    /\ memory \in [Blocks -> [Cells -> Nat]] /\ card \in [Blocks -> [Cells -> Nat]]
    /\ call # NoCall => call \in [kind : {"read", "write"}, fd : Fd, from : Nat, todo : Nat, buffer : Seq(Nat)]
    /\ text \in [File -> Seq(Nat)] /\ \A f \in File : Len(text[f]) <= Limit[f]

FilesInv ==
    /\ FilesTyped /\ Calling
    /\ EachItsOwn /\ AllMarked /\ MarkedUsed /\ FreeBlank /\ NoMoreIndices
    /\ Holds
=============================================================================
