------------------------------- MODULE Memory -------------------------------
(***************************************************************************)
(* Pages of user programs: the software refill of the TLB and the shared   *)
(* segments of mm/memory.c.                                                *)
(*                                                                         *)
(* The code keeps pages in pairs: an even entry of ptable and its odd      *)
(* neighbour are written, refilled and cleared together, as are the two    *)
(* halves of a TLB entry.  So a "page" here is a VPN2, an entry is a pair  *)
(* and a "frame" is the two frames of two calls of palloc.  What the TLB   *)
(* holds at boot matches no page of a program: EmptySlot.                  *)
(***************************************************************************)
EXTENDS Integers, FiniteSets

CONSTANTS
    Pids,       \* processes that run programs
    NumPages,   \* pages are 0 .. NumPages - 1
    NumPairs,   \* 64 pairs of entries in ptable
    LowSlots,   \* 32 slots of the TLB that no refill writes
    MaxShared,  \* MAX_SHARED_NUM
    Keys,       \* keys of shared segments
    PgSz,       \* PG_SZ
    MaxFrame,   \* bound on the frames ever allocated
    MaxCopies   \* bound on the entries of the TLB that are copies at a time

MemoryAssumption ==
    /\ 0 \notin Pids
    /\ {NumPages, NumPairs, MaxShared, PgSz} \subseteq Nat \ {0}
    /\ NumPairs % 2 = 0
    /\ {LowSlots, MaxFrame, MaxCopies} \subseteq Nat
    /\ Keys \subseteq Nat \ {0}

Pages    == 0 .. NumPages - 1
Pairs    == 0 .. NumPairs - 1
Slots    == 0 .. LowSlots + (NumPairs \div 2) - 1
Segments == 0 .. MaxShared - 1

VARIABLES
    ptable,     \* the page table
    tlb,        \* the TLB
    nextFrame,  \* pa_init: the next frame of palloc
    shared,     \* shared_mem, without its count, which nothing reads
    nextPage,   \* shared_mem_start
    overrun,    \* do_shmdt has cleared what lies behind ptable
    running,    \* the pid of current_running, 0 for one that runs no program
    index,      \* CP0_INDEX: the slot written last
    attached,   \* history: <<p, s>> when p has attached s and not detached it
    disturbed   \* history: <<p, v>> whose entry was evicted, or attached or
                \*   detached while a translation of it existed

tableVars == <<ptable, nextFrame, shared, nextPage, overrun>>
pastVars  == <<attached, disturbed>>
vars      == <<tableVars, tlb, running, index, pastVars>>

----------------------------------------------------------------------------

\* What bzero leaves.
NoEntry   == [vpn |-> 0, frame |-> 0, flag |-> 0, asid |-> 0]
NoSegment == [vaddr |-> 0, frame |-> 0, key |-> 0]
EmptySlot == [vpn |-> 0, frame |-> 0, asid |-> 0, copied |-> FALSE]

Entry(p, v, f) == [vpn |-> v, frame |-> f, flag |-> 1, asid |-> p]

\* An entry of the TLB; copied is history: scheduler() wrote it, not a refill.
Slot(p, v, f) == [vpn |-> v, frame |-> f, asid |-> p, copied |-> FALSE]

\* The slots a refill writes, 32 to 63: one for two pairs of the table, or any.
RefillSlots == LowSlots .. LowSlots + (NumPairs \div 2) - 1
SlotOf(i)   == LowSlots + (i \div 2)

\* The comparison of the refill and of do_shmdt: it does not look at the flag.
\* Mutant: it does not look at the process either.
MatchesAnyProcess(p, v) == {i \in Pairs : ptable[i].vpn = v /\ ptable[i].flag = 1}
Matches(p, v) == {i \in Pairs : ptable[i].vpn = v /\ ptable[i].asid = p}

\* tlbp.  Mutant: its answer is always "not found".
NeverFound(p, v) == {}
Hits(p, v) == {i \in Slots : tlb[i].vpn = v /\ tlb[i].asid = p}

\* The first index that a loop over the table, or over the segments, stops at.
First(S) == CHOOSE i \in S : \A j \in S : i <= j

\* find_empty, and the entry that goes when the table is full: pa_init is a
\* multiple of the page size.
Free   == {i \in Pairs : ptable[i].flag = 0}
Victim == (2 * PgSz * nextFrame) % NumPairs
Base   == IF Free # {} THEN First(Free) ELSE Victim

\* The page whose entry a write to Base overwrites.
Evicted == IF Free # {} THEN {} ELSE {<<ptable[Base].asid, ptable[Base].vpn>>}

----------------------------------------------------------------------------

Init ==
    /\ ptable = [i \in Pairs |-> NoEntry]
    /\ tlb = [i \in Slots |-> EmptySlot]
    /\ nextFrame = 1
    /\ shared = [s \in Segments |-> NoSegment]
    /\ nextPage = 0
    /\ overrun = FALSE
    /\ running = 0
    /\ index \in Slots
    /\ attached = {}
    /\ disturbed = {}

\* do_TLB_Refill of a page that the table has.
RefillFromTable(p, v) ==
    /\ Hits(p, v) = {}
    /\ Matches(p, v) # {}
    /\ index' = SlotOf(First(Matches(p, v)))
    /\ tlb' = [tlb EXCEPT ![index'] = Slot(p, v, ptable[First(Matches(p, v))].frame)]
    /\ UNCHANGED <<tableVars, running, pastVars>>

\* The slot is the time modulo 32: any.
RefillNew(p, v) ==
    /\ Hits(p, v) = {}
    /\ Matches(p, v) = {}
    /\ nextFrame <= MaxFrame
    /\ ptable' = [ptable EXCEPT ![Base] = Entry(p, v, nextFrame)]
    /\ index' \in RefillSlots
    /\ tlb' = [tlb EXCEPT ![index'] = Slot(p, v, nextFrame)]
    /\ nextFrame' = nextFrame + 1
    /\ disturbed' = disturbed \cup Evicted
    /\ UNCHANGED <<shared, nextPage, overrun, running, attached>>

----------------------------------------------------------------------------

\* "switch asid" of scheduler(): it reads the entry that CP0_INDEX names, gives it to
\* the next process and writes it to an index that nothing has set.
Copy(s, p) == IF s.frame = 0 THEN EmptySlot ELSE [s EXCEPT !.asid = p, !.copied = TRUE]
Switch(p) ==
    /\ running' = p
    /\ index' \in Slots
    /\ tlb' = [tlb EXCEPT ![index'] = Copy(tlb[index], p)]
    /\ Cardinality({i \in Slots : tlb'[i].copied}) <= MaxCopies
    /\ UNCHANGED <<tableVars, pastVars>>

----------------------------------------------------------------------------

WithKey(k) == {s \in Segments : shared[s].key = k}

\* do_shmget of a key that no segment has; one that exists only returns its number.
Shmget(k) ==
    /\ WithKey(k) = {}
    /\ WithKey(0) # {}
    /\ nextFrame <= MaxFrame
    /\ nextPage \in Pages
    /\ shared' = [shared EXCEPT ![First(WithKey(0))] = [key |-> k, frame |-> nextFrame, vaddr |-> nextPage]]
    /\ nextFrame' = nextFrame + 1
    /\ nextPage' = nextPage + 1
    /\ UNCHANGED <<ptable, tlb, overrun, running, index, pastVars>>

\* The frame do_shmat maps.
SegmentFrame(s) == shared[s].frame

\* do_shmat, of a segment that do_shmget has returned and p has not attached.
Shmat(p, s) ==
    LET v == shared[s].vaddr IN
    /\ shared[s].key # 0
    /\ <<p, s>> \notin attached
    /\ ptable' = [ptable EXCEPT ![Base] = Entry(p, v, SegmentFrame(s))]
    /\ attached' = attached \cup {<<p, s>>}
    /\ disturbed' = disturbed \cup Evicted
                      \cup (IF Matches(p, v) \cup Hits(p, v) = {} THEN {} ELSE {<<p, v>>})
    /\ UNCHANGED <<tlb, nextFrame, shared, nextPage, overrun, running, index>>

\* The segments the loop of do_shmdt takes for the one at v.  A slot without a
\* segment has vaddr 0.
AtPage(v) == {s \in Segments : shared[s].vaddr = v}

\* Every one of them clears an entry; when none is left the loop clears the
\* entry behind the table.
ClearedBy(p, v) ==
    {i \in Matches(p, v) : Cardinality({j \in Matches(p, v) : j < i}) < Cardinality(AtPage(v))}

\* do_shmdt of an address that the program has attached.
Shmdt(p, v) ==
    /\ \E s \in AtPage(v) : <<p, s>> \in attached
    /\ ptable' = [i \in Pairs |-> IF i \in ClearedBy(p, v) THEN NoEntry ELSE ptable[i]]
    /\ overrun' = (overrun \/ Cardinality(AtPage(v)) > Cardinality(Matches(p, v)))
    /\ attached' = attached \ ({p} \X AtPage(v))
    /\ disturbed' = disturbed \cup
                      (IF Hits(p, v) = {} /\ Matches(p, v) = ClearedBy(p, v) THEN {} ELSE {<<p, v>>})
    /\ UNCHANGED <<tlb, nextFrame, shared, nextPage, running, index>>

Next ==
    \/ running \in Pids /\ \E v \in Pages :
          RefillFromTable(running, v) \/ RefillNew(running, v) \/ Shmdt(running, v)
    \/ running \in Pids /\ \E s \in Segments : Shmat(running, s)
    \/ running \in Pids /\ \E k \in Keys : Shmget(k)
    \/ \E p \in Pids \cup {0} : Switch(p)

Spec == Init /\ [][Next]_vars

----------------------------------------------------------------------------

TypeOK ==
    /\ ptable \in [Pairs -> [vpn : Pages, frame : 0 .. MaxFrame, flag : {0, 1}, asid : Pids \cup {0}]]
    /\ tlb \in [Slots -> [vpn : Pages, frame : 0 .. MaxFrame, asid : Pids \cup {0}, copied : BOOLEAN]]
    /\ nextFrame \in 1 .. MaxFrame + 1
    /\ shared \in [Segments -> [vaddr : Pages, frame : 0 .. MaxFrame, key : Keys \cup {0}]]
    /\ nextPage \in 0 .. NumPages
    /\ overrun \in BOOLEAN
    /\ running \in Pids \cup {0}
    /\ index \in Slots
    /\ attached \subseteq Pids \X Segments
    /\ disturbed \subseteq Pids \X Pages

\* What a refill wrote and scheduler() has not overwritten.
Refilled == {i \in Slots : tlb[i].asid # 0 /\ ~ tlb[i].copied}

\* No access matches two TLB entries that refills wrote (do_TLB_Refill writes an index
\* of its own choice beside what is there).  An entry scheduler() copied may be the
\* second one, which the processor leaves undefined.
TlbUnique ==
    \A i, j \in Refilled : (tlb[i].asid = tlb[j].asid /\ tlb[i].vpn = tlb[j].vpn) => i = j

\* What the table and the refills translate: process, page and frame.
Translations ==
    {<<ptable[i].asid, ptable[i].vpn, ptable[i].frame>> : i \in {j \in Pairs : ptable[j].asid # 0}}
    \cup {<<tlb[i].asid, tlb[i].vpn, tlb[i].frame>> : i \in Refilled}

\* Two pages never share memory unless both are the same page of one shared
\* segment, whatever was evicted, refilled, attached or detached before.
FramesApart ==
    \A x, y \in Translations :
        x[3] = y[3] =>
            \/ x = y
            \/ x[2] = y[2] /\ \E s \in Segments : shared[s].frame = x[3] /\ shared[s].vaddr = x[2]

\* What scheduler() wrote in the TLB.
Copies == {i \in Slots : tlb[i].copied}

\* A copy has the frame of a page with the number of its own: it leads a process to
\* what another has at the same address, and to no other memory.
CopiesInPlace ==
    \A i \in Copies :
        /\ \A x \in Translations : x[3] = tlb[i].frame => x[2] = tlb[i].vpn
        /\ \A j \in Copies : tlb[j].frame = tlb[i].frame => tlb[j].vpn = tlb[i].vpn

\* As long as nobody evicts a page and no segment is attached over it, it has
\* one entry in the table, and what a refill put in the TLB agrees with that.
TlbAgrees ==
    \A p \in Pids, v \in Pages : <<p, v>> \notin disturbed =>
        /\ \A i, j \in Matches(p, v) : i = j
        /\ \A i \in Hits(p, v) \cap Refilled : \E j \in Matches(p, v) : ptable[j].frame = tlb[i].frame

\* A process that attached a segment at a page it had not used reaches the
\* frame of the segment, so all such processes share it.
SharedIsShared ==
    \A x \in attached :
        LET v == shared[x[2]].vaddr IN
        <<x[1], v>> \notin disturbed =>
            \E i \in Matches(x[1], v) : ptable[i].frame = shared[x[2]].frame

----------------------------------------------------------------------------
(* The invariant behind these properties                                   *)

\* What is in use was handed out before, and what is not in use is as bzero left it.
Known ==
    /\ \A i \in Pairs : ptable[i].flag = 0 <=> ptable[i].asid = 0
    /\ \A x \in Translations : x[3] \in 1 .. nextFrame - 1
    /\ \A s \in Segments : IF shared[s].key = 0 THEN shared[s] = NoSegment
                                                ELSE shared[s].frame \in 1 .. nextFrame - 1
    /\ \A x \in attached : shared[x[2]].key # 0

\* A frame is of one segment, and who maps it has it at the page of the segment.
SegmentsApart ==
    \A s \in Segments : shared[s].key # 0 =>
        /\ \A t \in Segments : shared[t].frame = shared[s].frame => s = t
        /\ \A x \in Translations : x[3] = shared[s].frame => x[2] = shared[s].vaddr

\* So are the frames of copies, and what no refill wrote is a copy or was there at boot.
CopiesKnown ==
    /\ \A i \in Slots : tlb[i].frame # 0 => i \in Refilled \cup Copies
    /\ \A i \in Copies : tlb[i].frame \in 1 .. nextFrame - 1
    /\ \A i \in Copies, s \in Segments :
          shared[s].key # 0 /\ shared[s].frame = tlb[i].frame => shared[s].vaddr = tlb[i].vpn

PagesInv ==
    CopiesKnown /\ TypeOK /\ Known /\ SegmentsApart /\ FramesApart /\ CopiesInPlace /\ TlbUnique /\ TlbAgrees /\ SharedIsShared
=============================================================================
