------------------------------ MODULE Resources ------------------------------
(***************************************************************************)
(* What the kernel hands out, side by side: a behaviour is one of the      *)
(* pages of memory, the directory tree or the open files.  They share no   *)
(* state in the code, apart from the maps of the card, which a file grows  *)
(* with while no directory changes.  The variables of the part are kept in *)
(* a, b, c and so on; two are of the pages alone.                          *)
(***************************************************************************)
EXTENDS Integers, FiniteSets, TLC

CONSTANTS
    Pids, NumPages, NumPairs, LowSlots, MaxShared, Keys, PgSz, MaxFrame, MaxCopies,   \* of Memory
    Names, NumInodes, DirBlocks, MaxEntries,                        \* of Directory
    File, NumFd, BlockSize, Direct, Pointers, NumBlocks, Limit,     \* of OpenFiles
    Watch, Access, Discipline

VARIABLES part, a, b, c, d, e, f, g, h, running, index

pageVars == <<running, index>>
vars     == <<part, a, b, c, d, e, f, g, h, pageVars>>

Pages == INSTANCE Memory WITH
            ptable <- a, tlb <- b, nextFrame <- c, shared <- d, nextPage <- e, overrun <- f,
            attached <- g, disturbed <- h
Tree  == INSTANCE Directory WITH NumBlocks <- DirBlocks, disk <- a, op <- b, cwd <- c, damaged <- d
Files == INSTANCE OpenFiles WITH
            fds <- a, inode <- b, bmap <- c, memory <- d, card <- e, call <- f, text <- g, watched <- h

ASSUME ResourcesAssumption ==
    Pages!MemoryAssumption /\ Tree!DirectoryAssumption /\ Files!OpenFilesAssumption

Unused == running = "off" /\ index = "off"
Init ==
    \/ part = "pages" /\ Pages!Init
    \/ part = "tree" /\ Tree!Init /\ e = "off" /\ f = "off" /\ g = "off" /\ h = "off" /\ Unused
    \/ part = "files" /\ Files!Init /\ Unused

Next ==
    \/ part = "pages" /\ Pages!Next /\ UNCHANGED part
    \/ part = "tree" /\ Tree!Next /\ UNCHANGED <<part, e, f, g, h, pageVars>>
    \/ part = "files" /\ Files!Next /\ UNCHANGED <<part, pageVars>>

Spec == Init /\ [][Next]_vars

----------------------------------------------------------------------------

\* No access matches two refilled entries of the TLB, and an undisturbed page has one
\* entry in the page table, with which its refilled one agrees.
TlbUnique == part = "pages" => Pages!TlbUnique /\ Pages!TlbAgrees

\* Two pages share memory only as the same page of one shared segment, and processes
\* that attached a segment reach the same frame; what scheduler() copies leads to a page
\* at the same address.
FramesRight == part = "pages" => 
    Pages!TypeOK /\ Pages!FramesApart /\ Pages!SharedIsShared /\ Pages!CopiesInPlace

\* The maps mark the inodes and blocks the tree leads to, and no others.
MapsExact == part = "tree" => Tree!MapsExact

\* The directories form a tree, and the user stands in it; a file is not counted for
\* fewer names than it has.
TreeCounted == part = "tree" => Tree!TreeShaped /\ Tree!LinksCounted

\* A power failure leaves the tree as it was before mkdir or touch, or as after it.
CreateAtomic == part = "tree" => Tree!CreateAtomic

\* A read returns what was written last.
ReadBack == part = "files" => Files!ReadBack

\* No block belongs to two files or to none.
BlocksExact == part = "files" => Files!BlocksExact

----------------------------------------------------------------------------
(* The instances that are checked: one long file and a short one.  No definition tells *)
(* the processes apart, or the names.                                                 *)

Symmetric == Permutations(Pids) \cup Permutations(Names)

\* The long file ends with the first cell that the second index block leads to.
Cut     == BlockSize * (Direct + Pointers + Pointers) + 1
MCLimit == [x \in File |-> IF x = "long" THEN Cut ELSE BlockSize + 1]
MCWatch == [x \in File |-> {IF x = "long" THEN Cut - 1 ELSE BlockSize}]
=============================================================================
