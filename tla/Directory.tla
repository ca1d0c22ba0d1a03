------------------------------ MODULE Directory ------------------------------
(***************************************************************************)
(* The directory tree of fs/fs.c: inodes, the two maps and the directory   *)
(* blocks, on the SD card and in memory.  An operation reads what it needs *)
(* from the card, changes the copy in memory and writes it back one region *)
(* at a time; the power may fail between two writes.                       *)
(***************************************************************************)
EXTENDS Integers, FiniteSets, SequencesExt

CONSTANTS
    Names,       \* names the user gives
    NumInodes,   \* bytes of inode_map, 2048
    NumBlocks,   \* bytes of block_map, 131072
    MaxEntries   \* entries of a directory block, 204

DirectoryAssumption ==
    /\ Names \cap {"", ".", ".."} = {}
    /\ NumInodes \in Nat \ {0} /\ NumBlocks \in Nat \ {0}
    /\ MaxEntries \in Nat /\ MaxEntries > 2

VARIABLES
    disk,    \* the regions on the card
    op,      \* the operation at work: its name, the copy of the regions in
             \*   memory, the writes still to do, the disk it began with
    cwd,     \* current_dir_entry
    damaged  \* history: a write was lost

vars == <<disk, op, cwd, damaged>>

Inodes == 0 .. NumInodes - 1
Blocks == 0 .. NumBlocks - 1
Places == 0 .. MaxEntries - 1
Root   == 0

NoEntry == [name |-> "", type |-> "none", inode |-> Root]
NoInode == [size |-> 0, block |-> 0, reference |-> 0]

\* init_dentry: the first two entries; what follows them stays.  Mutant: the
\* parent is taken for its own child.
SelfParent(old, i, parent) ==
    [old EXCEPT ![0] = [name |-> ".", type |-> "dot", inode |-> i],
                ![1] = [name |-> "..", type |-> "dotdot", inode |-> i]]
Dentry(old, i, parent) ==
    [old EXCEPT ![0] = [name |-> ".", type |-> "dot", inode |-> i],
                ![1] = [name |-> "..", type |-> "dotdot", inode |-> parent]]

\* What do_mkfs leaves, in memory whose blocks held old.
Formatted(old) ==
    [imap  |-> {Root},
     bmap  |-> {0},
     inode |-> [i \in Inodes |-> IF i = Root THEN [NoInode EXCEPT !.size = 2] ELSE NoInode],
     block |-> [old EXCEPT ![0] = Dentry(@, Root, Root)]]

Idle == [kind |-> "none"]

\* The regions that are written one at a time.
Inode    == <<"inode">>
Imap     == <<"imap">>
Bmap     == <<"bmap">>
Block(b) == <<"block", b>>

Init ==
    /\ disk = Formatted([b \in Blocks |-> [k \in Places |-> NoEntry]])
    /\ op = Idle
    /\ cwd = Root
    /\ damaged = FALSE

----------------------------------------------------------------------------
(* Reading                                                                 *)

BlockOf(d, i)    == d.inode[i].block
EntryAt(d, i, k) == d.block[BlockOf(d, i)][k]

\* The places of the entries of a directory; those behind them are stale.
Used(d, i) == {k \in Places : k < d.inode[i].size}
Found(d, i, n) == {k \in Used(d, i) : EntryAt(d, i, k).name = n}
Lowest(S) == CHOOSE x \in S : \A y \in S : x <= y

\* find_path takes the place behind the last entry for a name it does not find.
FindPath(from, path) ==
    FoldLeft(LAMBDA i, n :
                 LET found == Found(disk, i, n)
                 IN EntryAt(disk, i, IF found = {} THEN disk.inode[i].size ELSE Lowest(found)).inode,
             from, path)

\* What users must see to, for find_path does not: every name of a path is the
\* name of a directory.
IsPath(from, path) ==
    \A j \in 1 .. Len(path) :
        \E k \in Found(disk, FindPath(from, SubSeq(path, 1, j - 1)), path[j]) :
            EntryAt(disk, FindPath(from, SubSeq(path, 1, j - 1)), k).type # "file"

Paths == {<<>>} \cup {<<n>> : n \in Names \cup {".."}}
Starts == {<<m, p>> : m \in {Root, cwd}, p \in Paths}
Resolvable == {FindPath(q[1], q[2]) : q \in {x \in Starts : IsPath(x[1], x[2])}}

----------------------------------------------------------------------------
(* Changing the copy in memory                                             *)

\* alloc_inode and alloc_datablock.  They run on behind a full map; here an
\* operation that would is not taken.
FirstFree(S, used) == Lowest(S \ used)
HasRoom(i) ==
    /\ disk.imap # Inodes /\ disk.bmap # Blocks
    /\ disk.inode[i].size < MaxEntries

\* init_inode(0) and, for a directory, its first entries.  Mutant: the block is
\* not marked.
UnmarkedInode(d, i, b, size, reference) ==
    [d EXCEPT !.imap = @ \cup {i},
              !.inode[i] = [size |-> size, block |-> b, reference |-> reference]]
NewInode(d, i, b, size, reference) ==
    [d EXCEPT !.imap = @ \cup {i}, !.bmap = @ \cup {b},
              !.inode[i] = [size |-> size, block |-> b, reference |-> reference]]

\* A new entry at the end of directory i.
WithEntry(d, i, n, type, v) ==
    [d EXCEPT !.block[BlockOf(d, i)][d.inode[i].size] = [name |-> n, type |-> type, inode |-> v],
              !.inode[i].size = @ + 1]

\* The entries behind place k move forward; the last one stays as well.
MovedUp(entries, k, size) ==
    [j \in Places |-> IF j \in k .. size - 2 THEN entries[j + 1] ELSE entries[j]]

\* The entry at place k of directory i, its inode and its block are gone.
WithoutEntry(d, i, k) ==
    LET v == EntryAt(d, i, k).inode
        b == BlockOf(d, v)
    IN [imap  |-> d.imap \ {v},
        bmap  |-> d.bmap \ {b},
        inode |-> [d.inode EXCEPT ![v] = NoInode, ![i].size = @ - 1],
        block |-> [d.block EXCEPT ![b] = [j \in Places |-> NoEntry],
                                  ![BlockOf(d, i)] = MovedUp(@, k, d.inode[i].size)]]

----------------------------------------------------------------------------
(* The operations                                                          *)

Quiet == op.kind = "none"
Whole == Quiet /\ ~ damaged

\* There is no repair: on a damaged card only do_mkfs is tried.
Begin(kind, mem, writes) ==
    /\ Quiet
    /\ damaged => kind = "format"
    /\ op' = [kind |-> kind, mem |-> mem, writes |-> writes, before |-> disk]
    /\ damaged' = FALSE
    /\ UNCHANGED disk

\* What users must see to, for the search of mkdir looks at every twentieth entry
\* only and the others do not look: names are new.
Fresh(i, n) == Found(disk, i, n) = {}

\* The order of the writes.  Mutant: the inodes first.
InodesFirst(blocks) == <<Inode>> \o blocks \o <<Imap, Bmap>>
BlocksFirst(blocks) == blocks \o <<Inode, Imap, Bmap>>

mkdir(n) ==
    LET i == FirstFree(Inodes, disk.imap)
        b == FirstFree(Blocks, disk.bmap)
        made == NewInode([disk EXCEPT !.block[b] = Dentry(@, i, cwd)], i, b, 2, 2)
    IN /\ ~ damaged /\ HasRoom(cwd) /\ Fresh(cwd, n)
       /\ Begin("create", WithEntry(made, cwd, n, "dir", i), BlocksFirst(<<Block(b), Block(BlockOf(disk, cwd))>>))
       /\ UNCHANGED cwd

do_touch(n) ==
    LET i == FirstFree(Inodes, disk.imap)
        b == FirstFree(Blocks, disk.bmap)
    IN /\ ~ damaged /\ HasRoom(cwd) /\ Fresh(cwd, n)
       /\ Begin("create", WithEntry(NewInode(disk, i, b, 0, 1), cwd, n, "file", i),
                BlocksFirst(<<Block(BlockOf(disk, cwd))>>))
       /\ UNCHANGED cwd

\* What users must see to, for rmdir does not: the directory is empty, the file
\* has no other link.
Removable(e) ==
    \/ e.type = "dir" /\ disk.inode[e.inode].size = 2
    \/ /\ e.type = "file" /\ disk.inode[e.inode].reference = 1
       /\ \A i \in disk.imap \ {e.inode} : BlockOf(disk, i) # BlockOf(disk, e.inode)

rmdir(n) ==
    /\ ~ damaged
    /\ IF Fresh(cwd, n) THEN Begin("remove", disk, <<Inode, Imap, Bmap>>)
       ELSE LET k == Lowest(Found(disk, cwd, n))
                e == EntryAt(disk, cwd, k)
            IN /\ Removable(e)
               /\ Begin("remove", WithoutEntry(disk, cwd, k),
                        BlocksFirst(<<Block(BlockOf(disk, e.inode)), Block(BlockOf(disk, cwd))>>))
    /\ UNCHANGED cwd

do_cd ==
    /\ Whole
    /\ cwd' \in Resolvable
    /\ UNCHANGED <<disk, op, damaged>>

\* Hard link: the same inode under a second name.
Counted(d, v) == [d EXCEPT !.inode[v].reference = @ + 1]
do_ln(old, n, new, m) ==
    /\ ~ damaged /\ disk.inode[new].size < MaxEntries /\ Fresh(new, m)
    /\ \E k \in Found(disk, old, n) :
        LET v == EntryAt(disk, old, k).inode
        IN /\ EntryAt(disk, old, k).type = "file"
           /\ Begin("link", Counted(WithEntry(disk, new, m, "file", v), v),
                    <<Inode, Block(BlockOf(disk, new))>>)
    /\ UNCHANGED cwd

\* Soft link: a copy of the inode; the block it was given is given back.
do_ln_s(old, n, new, m) ==
    /\ ~ damaged /\ HasRoom(new) /\ Fresh(new, m)
    /\ \E k \in Found(disk, old, n) :
        LET v == EntryAt(disk, old, k).inode
            i == FirstFree(Inodes, disk.imap)
            made == [disk EXCEPT !.imap = @ \cup {i}, !.inode[i] = disk.inode[v]]
        IN /\ EntryAt(disk, old, k).type = "file"
           /\ Begin("link", WithEntry(made, new, m, "file", i),
                    <<Inode, Imap, Bmap, Block(BlockOf(disk, new))>>)
    /\ UNCHANGED cwd

do_mkfs ==
    /\ cwd' = Root
    /\ Begin("format", Formatted(disk.block), <<Block(0), Imap, Bmap, Inode>>)

----------------------------------------------------------------------------
(* The card                                                                *)

\* sd_wr_block, sd_wr_inodemap, sd_wr_blockmap, sd_wr_inode.
Written(region) ==
    CASE region = Inode -> [disk EXCEPT !.inode = op.mem.inode]
      [] region = Imap  -> [disk EXCEPT !.imap = op.mem.imap]
      [] region = Bmap  -> [disk EXCEPT !.bmap = op.mem.bmap]
      [] OTHER            -> [disk EXCEPT !.block[region[2]] = op.mem.block[region[2]]]

Write ==
    /\ ~ Quiet
    /\ disk' = Written(Head(op.writes))
    /\ op' = IF Len(op.writes) = 1 THEN Idle ELSE [op EXCEPT !.writes = Tail(@)]
    /\ UNCHANGED <<cwd, damaged>>

PowerFails ==
    /\ ~ Quiet
    /\ op' = Idle
    /\ cwd' = Root
    /\ damaged' = TRUE
    /\ UNCHANGED disk

Next ==
    \/ \E n \in Names : mkdir(n) \/ do_touch(n) \/ rmdir(n)
    \/ /\ Whole
       /\ \E old, new \in Resolvable, n, m \in Names : do_ln(old, n, new, m) \/ do_ln_s(old, n, new, m)
    \/ do_cd \/ do_mkfs
    \/ Write \/ PowerFails

Spec == Init /\ [][Next]_vars

----------------------------------------------------------------------------
(* Properties                                                              *)

\* The entries of the directories the user can come to, step by step.
EntriesOf(d, i) ==
    {[dir |-> i, name |-> EntryAt(d, i, k).name, type |-> EntryAt(d, i, k).type, to |-> EntryAt(d, i, k).inode] :
        k \in {j \in Used(d, i) : j > 1}}
\* level[n] are the entries n directories below the root.
Tree(d) ==
    LET level[n \in 0 .. NumInodes - 1] ==
          IF n = 0 THEN EntriesOf(d, Root)
          ELSE UNION {EntriesOf(d, e.to) : e \in {x \in level[n - 1] : x.type = "dir"}}
    IN UNION {level[n] : n \in 0 .. NumInodes - 1}

\* Between operations the maps mark exactly the inodes that a name leads to and
\* the blocks these inodes own: nothing is leaked, nothing is given out twice.
MapsExact ==
    Whole => LET I == {Root} \cup {e.to : e \in Tree(disk)}
             IN /\ disk.imap = I
                /\ disk.bmap = {BlockOf(disk, i) : i \in I}

\* The directories form a tree: one name leads to each, its ".." leads back, its
\* block is its own; and the user stands in one of them.
TreeShaped ==
    Whole => LET T == {e \in Tree(disk) : e.type = "dir"}
             IN /\ cwd \in {Root} \cup {e.to : e \in T}
                /\ \A e, f \in T : e.to = f.to => e = f
                /\ \A e \in T : /\ e.to # Root
                                /\ EntryAt(disk, e.to, 0).inode = e.to
                                /\ EntryAt(disk, e.to, 1).inode = e.dir
                                /\ \A i \in disk.imap \ {e.to} : BlockOf(disk, i) # BlockOf(disk, e.to)

\* reference is no less than the number of names of a file (a soft link copies it).
LinksCounted ==
    Whole => \A i \in disk.imap \ {Root} :
        Cardinality({e \in Tree(disk) : e.type = "file" /\ e.to = i}) <= disk.inode[i].reference

\* mkdir and touch are atomic: whenever the power fails the tree on the card is
\* the one before the operation or the one after it.
CreateAtomic == op.kind = "create" => Tree(disk) \in {Tree(op.before), Tree(op.mem)}
=============================================================================
