--------------------------- MODULE ResourcesProofs ---------------------------
(***************************************************************************)
(* The pages of Memory, for any number of processes, pages, entries and    *)
(* segments: frames stay apart, shared segments are shared, and the TLB    *)
(* never holds two entries of a page.  The files of OpenFiles, for any     *)
(* sizes of blocks, index blocks, files and card: the block map is exact,  *)
(* and a read returns what was written.  The tree of Directory, for any    *)
(* number of names, inodes, blocks and entries: the maps are exact, the    *)
(* directories form a tree, and mkdir and touch are atomic on the card.    *)
(***************************************************************************)
EXTENDS Resources, FiniteSetTheorems, FunctionTheorems, SequenceTheorems, WellFoundedInduction, TLAPS

----------------------------------------------------------------------------
(* Indices                                                                 *)

LEMMA Least ==
    ASSUME NEW T \in SUBSET Nat, T # {}
    PROVE  \E i \in T : \A j \in T : i <= j
<1>1. PICK i \in T : \A j \in T : ~ (<<j, i>> \in OpToRel(<, Nat))
  BY NatLessThanWellFounded, WFMin
<1>2. \A j \in T : ~ (j < i)
  BY <1>1 DEF OpToRel
<1>3. QED  BY <1>2

\* A loop that stops at the first index of a kind stops at one of the kind.
LEMMA FirstFound ==
    ASSUME NEW T \in SUBSET Nat, T # {}
    PROVE  Pages!First(T) \in T
BY Least DEF Pages!First

LEMMA Sizes ==
    /\ NumPages \in Nat \ {0} /\ NumPairs \in Nat \ {0} /\ MaxShared \in Nat \ {0} /\ PgSz \in Nat \ {0}
    /\ NumPairs % 2 = 0 /\ MaxFrame \in Nat /\ LowSlots \in Nat /\ 0 \notin Pids /\ Keys \subseteq Nat \ {0}
BY ResourcesAssumption DEF Pages!MemoryAssumption

\* The entry that is written is one of the table: a free one, or one that is evicted.
LEMMA BaseFound ==
    ASSUME Pages!TypeOK, Pages!Known
    PROVE  /\ Pages!Base \in Pages!Pairs
           /\ a[Pages!Base].asid # 0 => <<a[Pages!Base].asid, a[Pages!Base].vpn>> \in Pages!Evicted
<1>1. Pages!Free \in SUBSET Nat /\ Pages!Free \subseteq Pages!Pairs
  BY Sizes DEF Pages!Free, Pages!Pairs
<1>2. CASE Pages!Free # {}
  <2>1. Pages!Base \in Pages!Free
    BY <1>1, <1>2, FirstFound DEF Pages!Base
  <2>2. a[Pages!Base].flag = 0
    BY <2>1 DEF Pages!Free
  <2>3. QED  BY <1>1, <2>1, <2>2 DEF Pages!Known
<1>3. CASE Pages!Free = {}
  <2>1. Pages!Base = (2 * PgSz * c) % NumPairs
    BY <1>3 DEF Pages!Base, Pages!Victim
  <2>2. 2 * PgSz * c \in Nat
    BY Sizes DEF Pages!TypeOK
  <2>3. Pages!Base \in Pages!Pairs
    BY <2>1, <2>2, Sizes DEF Pages!Pairs
  <2>4. QED  BY <1>3, <2>3 DEF Pages!Evicted
<1>4. QED  BY <1>2, <1>3

----------------------------------------------------------------------------
(* What each step does to the translations                                 *)

\* What a step of the part "pages" may use.
Stepping == Pages!PagesInv /\ Pages!TypeOK /\ Pages!Known

\* A translation is of an entry or of a slot.
LEMMA TranslationFrom ==
    ASSUME NEW x
    PROVE  x \in Pages!Translations <=>
             \/ \E i \in Pages!Pairs : a[i].asid # 0 /\ x = <<a[i].asid, a[i].vpn, a[i].frame>>
             \/ \E i \in Pages!Slots : b[i].asid # 0 /\ ~ b[i].copied /\ x = <<b[i].asid, b[i].vpn, b[i].frame>>
BY DEF Pages!Translations, Pages!Refilled

LEMMA TranslationFromNext ==
    ASSUME NEW x
    PROVE  x \in Pages!Translations' <=>
             \/ \E i \in Pages!Pairs : a'[i].asid # 0 /\ x = <<a'[i].asid, a'[i].vpn, a'[i].frame>>
             \/ \E i \in Pages!Slots : b'[i].asid # 0 /\ ~ b'[i].copied /\ x = <<b'[i].asid, b'[i].vpn, b'[i].frame>>
BY DEF Pages!Translations, Pages!Refilled, Pages!Pairs, Pages!Slots

\* The entry a refill finds, and the slot it goes to.
LEMMA FoundEntry ==
    ASSUME Stepping, NEW p \in Pids, NEW v \in Pages!Pages, Pages!Matches(p, v) # {}
    PROVE  LET i == Pages!First(Pages!Matches(p, v))
           IN i \in Pages!Pairs /\ a[i].vpn = v /\ a[i].asid = p /\ Pages!SlotOf(i) \in Pages!Slots
<1> DEFINE i == Pages!First(Pages!Matches(p, v))
<1>1. Pages!Matches(p, v) \in SUBSET Nat
  BY Sizes DEF Pages!Matches, Pages!Pairs
<1>2. i \in Pages!Matches(p, v)
  BY <1>1, FirstFound
<1>3. i \in Pages!Pairs /\ a[i].vpn = v /\ a[i].asid = p
  BY <1>2 DEF Pages!Matches
<1>4. Pages!SlotOf(i) \in Pages!Slots
  BY <1>3, Sizes DEF Pages!Pairs, Pages!Slots, Pages!SlotOf
<1>5. QED  BY <1>3, <1>4

LEMMA RefillFromTableStep ==
    ASSUME Stepping, NEW p \in Pids, NEW v \in Pages!Pages, Pages!RefillFromTable(p, v)
    PROVE  Pages!TypeOK' /\ Pages!Translations' \subseteq Pages!Translations
<1> DEFINE i == Pages!First(Pages!Matches(p, v))
<1>1. i \in Pages!Pairs /\ a[i].vpn = v /\ a[i].asid = p /\ Pages!SlotOf(i) \in Pages!Slots
  BY FoundEntry DEF Pages!RefillFromTable
<1>2. /\ b' = [b EXCEPT ![Pages!SlotOf(i)] = [vpn |-> v, frame |-> a[i].frame, asid |-> p, copied |-> FALSE]]
      /\ index' = Pages!SlotOf(i) /\ UNCHANGED <<a, c, d, e, f, g, h, running>>
  BY DEF Pages!RefillFromTable, Pages!Slot, Pages!tableVars, Pages!pastVars
<1> DEFINE slot == Pages!SlotOf(i)
<1>7. /\ slot \in Pages!Slots /\ index' = slot
      /\ b' = [b EXCEPT ![slot] = [vpn |-> v, frame |-> a[i].frame, asid |-> p, copied |-> FALSE]]
  BY <1>1, <1>2
<1> HIDE DEF slot
<1> HIDE DEF i
<1>3. Pages!TypeOK'
  BY <1>1, <1>2, <1>7 DEF Stepping, Pages!TypeOK
<1>4. p # 0
  BY Sizes
<1>5. ASSUME NEW x \in Pages!Translations' PROVE x \in Pages!Translations
  BY <1>1, <1>2, <1>4, <1>7, TranslationFrom, TranslationFromNext DEF Stepping, Pages!TypeOK
<1>6. QED  BY <1>3, <1>5

LEMMA EvictedPages ==
    ASSUME Stepping
    PROVE  Pages!Evicted \subseteq Pids \X Pages!Pages
<1>1. Pages!Base \in Pages!Pairs
  BY BaseFound DEF Stepping
<1>2. CASE Pages!Free # {}
  BY <1>2 DEF Pages!Evicted
<1>3. CASE Pages!Free = {}
  <2>1. a[Pages!Base].flag # 0 /\ a[Pages!Base].asid # 0
    BY <1>1, <1>3 DEF Pages!Free, Stepping, Pages!Known
  <2>2. QED  BY <1>1, <1>3, <2>1 DEF Pages!Evicted, Stepping, Pages!TypeOK
<1>4. QED  BY <1>2, <1>3

LEMMA RefillFound == Pages!RefillSlots \subseteq Pages!Slots
BY Sizes DEF Pages!RefillSlots, Pages!Slots

LEMMA RefillNewStep ==
    ASSUME Stepping, NEW p \in Pids, NEW v \in Pages!Pages, Pages!RefillNew(p, v)
    PROVE  Pages!TypeOK' /\ Pages!Translations' \subseteq Pages!Translations \cup {<<p, v, c>>}
<1>1. Pages!Base \in Pages!Pairs
  BY BaseFound DEF Stepping
<1>2. PICK i \in Pages!Slots :
        index' = i /\ b' = [b EXCEPT ![i] = [vpn |-> v, frame |-> c, asid |-> p, copied |-> FALSE]]
  BY RefillFound DEF Pages!RefillNew, Pages!Slot
<1>3. /\ a' = [a EXCEPT ![Pages!Base] = [vpn |-> v, frame |-> c, flag |-> 1, asid |-> p]]
      /\ c' = c + 1 /\ c <= MaxFrame /\ h' = h \cup Pages!Evicted /\ UNCHANGED <<d, e, f, g, running>>
  BY DEF Pages!RefillNew, Pages!Entry
<1>4. Pages!Evicted \subseteq Pids \X Pages!Pages
  BY EvictedPages
<1>5. Pages!TypeOK'
  BY <1>1, <1>2, <1>3, <1>4, Sizes DEF Stepping, Pages!TypeOK
<1>6. ASSUME NEW x \in Pages!Translations' PROVE x \in Pages!Translations \cup {<<p, v, c>>}
  BY <1>1, <1>2, <1>3, TranslationFrom, TranslationFromNext DEF Stepping, Pages!TypeOK
<1>7. QED  BY <1>5, <1>6

\* The segment a new key gets is one that has none.
LEMMA NewSegment ==
    ASSUME Stepping, NEW k \in Keys, Pages!Shmget(k)
    PROVE  LET s == Pages!First(Pages!WithKey(0))
           IN /\ s \in Pages!Segments /\ d[s].key = 0
              /\ d' = [d EXCEPT ![s] = [key |-> k, frame |-> c, vaddr |-> e]]
<1> DEFINE s == Pages!First(Pages!WithKey(0))
<1>1. Pages!WithKey(0) # {}
  BY DEF Pages!Shmget
<1>2. Pages!WithKey(0) \in SUBSET Nat
  BY Sizes DEF Pages!WithKey, Pages!Segments
<1>3. s \in Pages!WithKey(0)
  BY <1>1, <1>2, FirstFound
<1>4. s \in Pages!Segments /\ d[s].key = 0
  BY <1>3 DEF Pages!WithKey
<1>5. QED  BY <1>4 DEF Pages!Shmget

LEMMA ShmgetStep ==
    ASSUME Stepping, NEW k \in Keys, Pages!Shmget(k)
    PROVE  Pages!TypeOK' /\ Pages!Translations' \subseteq Pages!Translations
<1> DEFINE s == Pages!First(Pages!WithKey(0))
<1>1. /\ s \in Pages!Segments
      /\ d' = [d EXCEPT ![s] = [key |-> k, frame |-> c, vaddr |-> e]]
  BY NewSegment
<1> HIDE DEF s
<1>2. c <= MaxFrame /\ e \in Pages!Pages /\ c' = c + 1 /\ e' = e + 1 /\ UNCHANGED <<a, b, f, g, h, running, index>>
  BY DEF Pages!Shmget, Pages!pastVars
<1>3. Pages!TypeOK'
  BY <1>1, <1>2, Sizes DEF Stepping, Pages!TypeOK, Pages!Pages
<1>4. Pages!Translations' = Pages!Translations
  BY <1>2 DEF Pages!Translations, Pages!Refilled
<1>5. QED  BY <1>3, <1>4

LEMMA ShmatStep ==
    ASSUME Stepping, NEW p \in Pids, NEW s \in Pages!Segments, Pages!Shmat(p, s)
    PROVE  /\ Pages!TypeOK'
           /\ Pages!Translations' \subseteq Pages!Translations \cup {<<p, d[s].vaddr, d[s].frame>>}
<1>1. Pages!Base \in Pages!Pairs
  BY BaseFound DEF Stepping
<1>2. /\ a' = [a EXCEPT ![Pages!Base] = [vpn |-> d[s].vaddr, frame |-> d[s].frame, flag |-> 1, asid |-> p]]
      /\ g' = g \cup {<<p, s>>} /\ UNCHANGED <<b, c, d, e, f, running, index>>
      /\ h' = h \cup Pages!Evicted \cup (IF Pages!Matches(p, d[s].vaddr) \cup Pages!Hits(p, d[s].vaddr) = {}
                                         THEN {} ELSE {<<p, d[s].vaddr>>})
  BY DEF Pages!Shmat, Pages!Entry, Pages!SegmentFrame
<1>3. d[s].vaddr \in Pages!Pages /\ d[s].frame \in 0 .. MaxFrame
  BY DEF Stepping, Pages!TypeOK
<1>4. Pages!Evicted \subseteq Pids \X Pages!Pages
  BY EvictedPages
<1>5. h' \subseteq Pids \X Pages!Pages
  BY <1>2, <1>3, <1>4 DEF Stepping, Pages!TypeOK
<1>6. Pages!TypeOK'
  BY <1>1, <1>2, <1>3, <1>5 DEF Stepping, Pages!TypeOK
<1>7. ASSUME NEW x \in Pages!Translations' PROVE x \in Pages!Translations \cup {<<p, d[s].vaddr, d[s].frame>>}
  BY <1>1, <1>2, TranslationFrom, TranslationFromNext DEF Stepping, Pages!TypeOK
<1>8. QED  BY <1>6, <1>7

LEMMA ShmdtStep ==
    ASSUME Stepping, NEW p \in Pids, NEW v \in Pages!Pages, Pages!Shmdt(p, v)
    PROVE  Pages!TypeOK' /\ Pages!Translations' \subseteq Pages!Translations
<1>1. /\ a' = [i \in Pages!Pairs |-> IF i \in Pages!ClearedBy(p, v) THEN Pages!NoEntry ELSE a[i]]
      /\ g' \subseteq g /\ h' \subseteq h \cup {<<p, v>>} /\ UNCHANGED <<b, c, d, e, running, index>>
  BY DEF Pages!Shmdt
<1>2. f' \in BOOLEAN
  BY DEF Pages!Shmdt
<1>3. Pages!NoEntry \in [vpn : Pages!Pages, frame : 0 .. MaxFrame, flag : {0, 1}, asid : Pids \cup {0}]
  BY Sizes DEF Pages!NoEntry, Pages!Pages
<1>4. Pages!TypeOK'
  BY <1>1, <1>2, <1>3 DEF Stepping, Pages!TypeOK
<1>5. ASSUME NEW x \in Pages!Translations' PROVE x \in Pages!Translations
  BY <1>1, TranslationFrom, TranslationFromNext DEF Stepping, Pages!TypeOK, Pages!NoEntry
<1>6. QED  BY <1>4, <1>5

\* The next process gets a copy of what CP0_INDEX names, in some slot.
LEMMA SwitchStep ==
    ASSUME Stepping, NEW p \in Pids \cup {0}, Pages!Switch(p)
    PROVE  /\ Pages!TypeOK' /\ Pages!Translations' \subseteq Pages!Translations
           /\ index \in Pages!Slots /\ index' \in Pages!Slots
           /\ b' = [b EXCEPT ![index'] = Pages!Copy(b[index], p)]
           /\ UNCHANGED <<a, c, d, e, f, g, h>>
<1>1. /\ running' = p /\ index' \in Pages!Slots /\ b' = [b EXCEPT ![index'] = Pages!Copy(b[index], p)]
      /\ UNCHANGED <<a, c, d, e, f, g, h>>
  BY DEF Pages!Switch, Pages!tableVars, Pages!pastVars
<1>2. index \in Pages!Slots /\ b \in [Pages!Slots -> [vpn : Pages!Pages, frame : 0 .. MaxFrame,
                                                      asid : Pids \cup {0}, copied : BOOLEAN]]
  BY DEF Stepping, Pages!TypeOK
<1>3. /\ Pages!Copy(b[index], p) \in [vpn : Pages!Pages, frame : 0 .. MaxFrame,
                                      asid : Pids \cup {0}, copied : BOOLEAN]
      /\ Pages!Copy(b[index], p).copied \/ Pages!Copy(b[index], p).asid = 0
  <2>1. 0 \in Pages!Pages /\ 0 \in 0 .. MaxFrame
    BY Sizes DEF Pages!Pages
  <2>2. b[index] \in [vpn : Pages!Pages, frame : 0 .. MaxFrame, asid : Pids \cup {0}, copied : BOOLEAN]
    BY <1>2
  <2>3. QED  BY <2>1, <2>2 DEF Pages!Copy, Pages!EmptySlot
<1> DEFINE cp == Pages!Copy(b[index], p)
<1>4. b' = [b EXCEPT ![index'] = cp] /\ (cp.copied \/ cp.asid = 0)
      /\ cp \in [vpn : Pages!Pages, frame : 0 .. MaxFrame, asid : Pids \cup {0}, copied : BOOLEAN]
  BY <1>1, <1>3
<1> HIDE DEF cp
<1>5. Pages!TypeOK'
  <2>1. b' \in [Pages!Slots -> [vpn : Pages!Pages, frame : 0 .. MaxFrame,
                                asid : Pids \cup {0}, copied : BOOLEAN]]
    BY <1>1, <1>2, <1>4
  <2>2. QED  BY <1>1, <2>1 DEF Stepping, Pages!TypeOK
<1>6. \A i \in Pages!Slots : b'[i] = IF i = index' THEN cp ELSE b[i]
  BY <1>1, <1>2, <1>4
<1>7. ASSUME NEW x \in Pages!Translations' PROVE x \in Pages!Translations
  BY <1>1, <1>4, <1>6, TranslationFrom, TranslationFromNext
<1>8. QED  BY <1>1, <1>2, <1>5, <1>7

----------------------------------------------------------------------------
(* Frames stay apart                                                       *)

\* What a step keeps: who is known, whose a frame is, and that frames are apart.
Sound == Pages!Known /\ Pages!SegmentsApart /\ Pages!FramesApart

\* Nothing new is translated.
LEMMA NothingNew ==
    ASSUME Stepping, Pages!Translations' \subseteq Pages!Translations, UNCHANGED <<c, d>>, g' \subseteq g,
           \A i \in Pages!Pairs : a'[i].flag = 0 <=> a'[i].asid = 0
    PROVE  Sound'
<1>1. /\ \A x \in Pages!Translations' : x[3] \in 1 .. c' - 1
      /\ \A s \in Pages!Segments : IF d'[s].key = 0 THEN d'[s] = Pages!NoSegment
                                                    ELSE d'[s].frame \in 1 .. c' - 1
      /\ \A x \in g' : d'[x[2]].key # 0
  BY DEF Stepping, Pages!Known
<1>2. Pages!Known'
  BY <1>1 DEF Pages!Known, Pages!Pairs, Pages!Segments, Pages!NoSegment
<1>3. Pages!SegmentsApart'
  BY DEF Stepping, Pages!PagesInv, Pages!SegmentsApart
<1>4. Pages!FramesApart'
  BY DEF Stepping, Pages!PagesInv, Pages!FramesApart
<1>5. QED  BY <1>2, <1>3, <1>4 DEF Sound

\* A new frame is nobody's.
LEMMA NewFrame ==
    ASSUME Stepping, NEW p \in Pids, NEW v \in Pages!Pages, Pages!RefillNew(p, v)
    PROVE  Sound'
<1>1. Pages!Translations' \subseteq Pages!Translations \cup {<<p, v, c>>}
  BY RefillNewStep
<1>2. Pages!Base \in Pages!Pairs
  BY BaseFound DEF Stepping
<1>3. /\ a' = [a EXCEPT ![Pages!Base] = [vpn |-> v, frame |-> c, flag |-> 1, asid |-> p]]
      /\ c' = c + 1 /\ c \in Nat \ {0} /\ UNCHANGED <<d, g>>
  BY DEF Pages!RefillNew, Pages!Entry, Stepping, Pages!TypeOK
<1>4. /\ \A x \in Pages!Translations : x[3] \in 1 .. c - 1
      /\ \A s \in Pages!Segments : d[s].frame \in 0 .. c - 1
      /\ \A s \in Pages!Segments : IF d[s].key = 0 THEN d[s] = Pages!NoSegment ELSE d[s].frame \in 1 .. c - 1
  <2>1. Pages!NoSegment.frame = 0
    BY DEF Pages!NoSegment
  <2>2. QED  BY <1>3, <2>1 DEF Stepping, Pages!Known
<1>5. \A i \in Pages!Pairs : a'[i].flag = 0 <=> a'[i].asid = 0
  BY <1>2, <1>3, Sizes DEF Stepping, Pages!Known, Pages!TypeOK
<1>6. Pages!Known'
  <2>1. \A x \in Pages!Translations' : x[3] \in 1 .. c' - 1
    BY <1>1, <1>3, <1>4
  <2>2. \A s \in Pages!Segments : IF d'[s].key = 0 THEN d'[s] = Pages!NoSegment ELSE d'[s].frame \in 1 .. c' - 1
    BY <1>3, <1>4
  <2>3. \A x \in g' : d'[x[2]].key # 0
    BY <1>3 DEF Stepping, Pages!Known
  <2>4. QED  BY <1>5, <2>1, <2>2, <2>3 DEF Pages!Known, Pages!Pairs, Pages!Segments, Pages!NoSegment
<1>7. Pages!SegmentsApart'
  BY <1>1, <1>3, <1>4 DEF Stepping, Pages!PagesInv, Pages!SegmentsApart, Pages!Segments
<1>8. Pages!FramesApart'
  BY <1>1, <1>3, <1>4 DEF Stepping, Pages!PagesInv, Pages!FramesApart, Pages!Segments
<1>9. QED  BY <1>6, <1>7, <1>8 DEF Sound

\* So is the frame of a new segment.
LEMMA NewSegmentFrame ==
    ASSUME Stepping, NEW k \in Keys, Pages!Shmget(k)
    PROVE  Sound'
<1> DEFINE s == Pages!First(Pages!WithKey(0))
<1>1. /\ s \in Pages!Segments /\ d[s].key = 0
      /\ d' = [d EXCEPT ![s] = [key |-> k, frame |-> c, vaddr |-> e]]
  BY NewSegment
<1> HIDE DEF s
<1>2. c' = c + 1 /\ c \in Nat \ {0} /\ UNCHANGED <<a, b, g>> /\ k # 0
  BY Sizes DEF Pages!Shmget, Pages!pastVars, Stepping, Pages!TypeOK
<1>3. Pages!Translations' = Pages!Translations
  BY <1>2 DEF Pages!Translations, Pages!Refilled
<1>4. /\ \A x \in Pages!Translations : x[3] \in 1 .. c - 1
      /\ \A t \in Pages!Segments : IF d[t].key = 0 THEN d[t] = Pages!NoSegment ELSE d[t].frame \in 1 .. c - 1
      /\ \A t \in Pages!Segments : d[t].frame \in 0 .. c - 1
  <2>1. Pages!NoSegment.frame = 0
    BY DEF Pages!NoSegment
  <2>2. QED  BY <1>2, <2>1 DEF Stepping, Pages!Known
<1>5. \A t \in Pages!Segments : d'[t] = IF t = s THEN [key |-> k, frame |-> c, vaddr |-> e] ELSE d[t]
  BY <1>1 DEF Stepping, Pages!TypeOK
<1>6. Pages!Known'
  <2>1. \A x \in Pages!Translations' : x[3] \in 1 .. c' - 1
    BY <1>2, <1>3, <1>4
  <2>2. \A t \in Pages!Segments : IF d'[t].key = 0 THEN d'[t] = Pages!NoSegment ELSE d'[t].frame \in 1 .. c' - 1
    BY <1>2, <1>4, <1>5
  <2>3. \A x \in g' : d'[x[2]].key # 0
    BY <1>2, <1>5 DEF Stepping, Pages!Known, Pages!TypeOK
  <2>4. \A i \in Pages!Pairs : a'[i].flag = 0 <=> a'[i].asid = 0
    BY <1>2 DEF Stepping, Pages!Known
  <2>5. QED  BY <2>1, <2>2, <2>3, <2>4 DEF Pages!Known, Pages!Pairs, Pages!Segments, Pages!NoSegment
<1>7. Pages!SegmentsApart'
  <2>1. \A t, u \in Pages!Segments : d'[t].key # 0 /\ d'[u].frame = d'[t].frame => t = u
    BY <1>2, <1>4, <1>5 DEF Stepping, Pages!PagesInv, Pages!SegmentsApart
  <2>2. \A t \in Pages!Segments, x \in Pages!Translations :
           d'[t].key # 0 /\ x[3] = d'[t].frame => x[2] = d'[t].vaddr
    BY <1>2, <1>4, <1>5 DEF Stepping, Pages!PagesInv, Pages!SegmentsApart
  <2>3. QED  BY <1>3, <2>1, <2>2 DEF Pages!SegmentsApart, Pages!Segments
<1>8. Pages!FramesApart'
  <2>1. ASSUME NEW x \in Pages!Translations, NEW y \in Pages!Translations, x[3] = y[3], x # y
        PROVE  x[2] = y[2] /\ \E t \in Pages!Segments : d'[t].frame = x[3] /\ d'[t].vaddr = x[2]
    <3>1. PICK t \in Pages!Segments : d[t].frame = x[3] /\ d[t].vaddr = x[2] /\ x[2] = y[2]
      BY <2>1 DEF Stepping, Pages!PagesInv, Pages!FramesApart
    <3>2. t # s
      BY <1>1, <1>4, <3>1 DEF Pages!NoSegment
    <3>3. QED  BY <1>5, <3>1, <3>2
  <2>2. QED  BY <1>3, <2>1 DEF Pages!FramesApart, Pages!Segments
<1>9. QED  BY <1>6, <1>7, <1>8 DEF Sound

\* Who attaches a segment gets its frame at its page.
LEMMA AttachedFrame ==
    ASSUME Stepping, NEW p \in Pids, NEW s \in Pages!Segments, Pages!Shmat(p, s)
    PROVE  Sound'
<1>1. Pages!Translations' \subseteq Pages!Translations \cup {<<p, d[s].vaddr, d[s].frame>>}
  BY ShmatStep
<1>2. Pages!Base \in Pages!Pairs
  BY BaseFound DEF Stepping
<1>3. /\ d[s].key # 0 /\ UNCHANGED <<c, d>> /\ g' = g \cup {<<p, s>>}
      /\ a' = [a EXCEPT ![Pages!Base] = [vpn |-> d[s].vaddr, frame |-> d[s].frame, flag |-> 1, asid |-> p]]
  BY DEF Pages!Shmat, Pages!Entry, Pages!SegmentFrame
<1>4. d[s].frame \in 1 .. c - 1
  BY <1>3 DEF Stepping, Pages!Known
<1>5. Pages!Known'
  <2>1. \A x \in Pages!Translations' : x[3] \in 1 .. c' - 1
    BY <1>1, <1>3, <1>4 DEF Stepping, Pages!Known
  <2>2. \A t \in Pages!Segments : IF d'[t].key = 0 THEN d'[t] = Pages!NoSegment ELSE d'[t].frame \in 1 .. c' - 1
    BY <1>3 DEF Stepping, Pages!Known
  <2>3. \A x \in g' : d'[x[2]].key # 0
    BY <1>3 DEF Stepping, Pages!Known
  <2>4. \A i \in Pages!Pairs : a'[i].flag = 0 <=> a'[i].asid = 0
    BY <1>2, <1>3, Sizes DEF Stepping, Pages!Known, Pages!TypeOK
  <2>5. QED  BY <2>1, <2>2, <2>3, <2>4 DEF Pages!Known, Pages!Pairs, Pages!Segments, Pages!NoSegment
<1>6. Pages!SegmentsApart'
  BY <1>1, <1>3 DEF Stepping, Pages!PagesInv, Pages!SegmentsApart, Pages!Segments
<1>7. Pages!FramesApart'
  BY <1>1, <1>3 DEF Stepping, Pages!PagesInv, Pages!FramesApart, Pages!SegmentsApart, Pages!Segments
<1>8. QED  BY <1>5, <1>6, <1>7 DEF Sound

LEMMA SoundStep ==
    ASSUME Stepping, Pages!Next
    PROVE  Sound' /\ Pages!TypeOK'
<1>1. ASSUME NEW p \in Pids, NEW v \in Pages!Pages, Pages!RefillFromTable(p, v) PROVE Sound' /\ Pages!TypeOK'
  <2>1. /\ UNCHANGED <<a, c, d, g>>
        /\ \A i \in Pages!Pairs : a'[i].flag = 0 <=> a'[i].asid = 0
    BY <1>1 DEF Pages!RefillFromTable, Pages!tableVars, Pages!pastVars, Stepping, Pages!Known
  <2>2. QED  BY <1>1, <2>1, NothingNew, RefillFromTableStep
<1>2. ASSUME NEW p \in Pids, NEW v \in Pages!Pages, Pages!RefillNew(p, v) PROVE Sound' /\ Pages!TypeOK'
  BY <1>2, NewFrame, RefillNewStep
<1>3. ASSUME NEW p \in Pids, NEW v \in Pages!Pages, Pages!Shmdt(p, v) PROVE Sound' /\ Pages!TypeOK'
  <2>1. /\ UNCHANGED <<c, d>> /\ g' \subseteq g
        /\ a' = [i \in Pages!Pairs |-> IF i \in Pages!ClearedBy(p, v) THEN Pages!NoEntry ELSE a[i]]
    BY <1>3 DEF Pages!Shmdt
  <2>2. \A i \in Pages!Pairs : a'[i].flag = 0 <=> a'[i].asid = 0
    BY <2>1 DEF Stepping, Pages!Known, Pages!NoEntry
  <2>3. QED  BY <1>3, <2>1, <2>2, NothingNew, ShmdtStep
<1>4. ASSUME NEW k \in Keys, Pages!Shmget(k) PROVE Sound' /\ Pages!TypeOK'
  BY <1>4, NewSegmentFrame, ShmgetStep
<1>5. ASSUME NEW p \in Pids, NEW s \in Pages!Segments, Pages!Shmat(p, s) PROVE Sound' /\ Pages!TypeOK'
  BY <1>5, AttachedFrame, ShmatStep
<1>6. ASSUME NEW p \in Pids \cup {0}, Pages!Switch(p) PROVE Sound' /\ Pages!TypeOK'
  <2>1. \A i \in Pages!Pairs : a'[i].flag = 0 <=> a'[i].asid = 0
    BY <1>6, SwitchStep DEF Stepping, Pages!Known
  <2>2. QED  BY <1>6, <2>1, SwitchStep, NothingNew
<1>7. QED  BY <1>1, <1>2, <1>3, <1>4, <1>5, <1>6 DEF Pages!Next

----------------------------------------------------------------------------
(* The TLB agrees with the table, and segments are shared                  *)

\* Who matches after a new entry of page v of p: those who did but for the entry that
\* was overwritten, whose page is then disturbed.
LEMMA NewEntry ==
    ASSUME Stepping, NEW p \in Pids, NEW v \in Pages!Pages, NEW fr,
           a' = [a EXCEPT ![Pages!Base] = [vpn |-> v, frame |-> fr, flag |-> 1, asid |-> p]],
           Pages!Evicted \subseteq h',
           NEW q \in Pids, NEW w \in Pages!Pages, <<q, w>> \notin h'
    PROVE  /\ \A i \in Pages!Matches(q, w) : i # Pages!Base /\ a'[i] = a[i] /\ i \in Pages!Matches(q, w)'
           /\ Pages!Matches(q, w)' = Pages!Matches(q, w) \cup (IF q = p /\ w = v THEN {Pages!Base} ELSE {})
           /\ a'[Pages!Base].frame = fr
<1>1. /\ Pages!Base \in Pages!Pairs
      /\ a[Pages!Base].asid # 0 => <<a[Pages!Base].asid, a[Pages!Base].vpn>> \in Pages!Evicted
  BY BaseFound DEF Stepping
<1>2. ~ (a[Pages!Base].asid = q /\ a[Pages!Base].vpn = w)
  BY <1>1, Sizes
<1> DEFINE bs == Pages!Base
<1>3. bs \in Pages!Pairs /\ ~ (a[bs].asid = q /\ a[bs].vpn = w)
  BY <1>1, <1>2
<1>4. \A i \in Pages!Pairs :
         a'[i] = IF i = bs THEN [vpn |-> v, frame |-> fr, flag |-> 1, asid |-> p] ELSE a[i]
  BY <1>1 DEF Stepping, Pages!TypeOK
<1> HIDE DEF bs
<1>5. /\ \A i : i \in Pages!Matches(q, w) <=> (i \in Pages!Pairs /\ a[i].vpn = w /\ a[i].asid = q)
      /\ \A i : i \in Pages!Matches(q, w)' <=> (i \in Pages!Pairs /\ a'[i].vpn = w /\ a'[i].asid = q)
  BY DEF Pages!Matches, Pages!Pairs
<1>6. /\ \A i \in Pages!Matches(q, w) : i # bs /\ a'[i] = a[i] /\ i \in Pages!Matches(q, w)'
      /\ Pages!Matches(q, w)' = Pages!Matches(q, w) \cup (IF q = p /\ w = v THEN {bs} ELSE {})
      /\ a'[bs].frame = fr
  BY <1>3, <1>4, <1>5
<1>7. QED  BY <1>6 DEF bs

\* Who hits after slot i got a translation of page v of p that no slot had.
LEMMA NewSlot ==
    ASSUME NEW p \in Pids, NEW v \in Pages!Pages, NEW i \in Pages!Slots,
           Pages!Hits(p, v) = {},
           b'[i].vpn = v, b'[i].asid = p, \A k \in Pages!Slots \ {i} : b'[k] = b[k]
    PROVE  \A q \in Pids, w \in Pages!Pages :
              \A j \in Pages!Hits(q, w)' :
                 IF q = p /\ w = v THEN j = i ELSE j \in Pages!Hits(q, w) /\ b'[j] = b[j]
<1>1. \A j \in Pages!Slots : ~ (b[j].vpn = v /\ b[j].asid = p)
  BY DEF Pages!Hits
<1>2. ASSUME NEW q \in Pids, NEW w \in Pages!Pages, NEW j \in Pages!Hits(q, w)'
      PROVE  IF q = p /\ w = v THEN j = i ELSE j \in Pages!Hits(q, w) /\ b'[j] = b[j]
  <2>1. j \in Pages!Slots /\ b'[j].vpn = w /\ b'[j].asid = q
    BY DEF Pages!Hits, Pages!Slots
  <2>2. QED  BY <1>1, <2>1 DEF Pages!Hits
<1>3. QED  BY <1>2

LEMMA StillUnique ==
    ASSUME Stepping, NEW p \in Pids, NEW v \in Pages!Pages, NEW fr, NEW i \in Pages!Slots,
           Pages!Hits(p, v) = {},
           b' = [b EXCEPT ![i] = [vpn |-> v, frame |-> fr, asid |-> p, copied |-> FALSE]]
    PROVE  Pages!TlbUnique'
<1>1. \A j \in Pages!Slots : b'[j] = IF j = i THEN [vpn |-> v, frame |-> fr, asid |-> p, copied |-> FALSE] ELSE b[j]
  BY DEF Stepping, Pages!TypeOK
<1>2. \A j \in Pages!Slots : ~ (b[j].vpn = v /\ b[j].asid = p)
  BY DEF Pages!Hits
<1>5. \A j \in Pages!Refilled' : j \in Pages!Slots /\ (j # i => j \in Pages!Refilled)
  BY <1>1 DEF Pages!Refilled, Pages!Slots
<1>3. \A j, k \in Pages!Refilled' : (b'[j].asid = b'[k].asid /\ b'[j].vpn = b'[k].vpn) => j = k
  BY <1>1, <1>2, <1>5 DEF Stepping, Pages!PagesInv, Pages!TlbUnique
<1>4. QED  BY <1>3 DEF Pages!TlbUnique

\* Who attached a segment and is not disturbed keeps its entry.
LEMMA StillShared ==
    ASSUME Stepping, UNCHANGED d, h \subseteq h',
           \A q \in Pids, w \in Pages!Pages : <<q, w>> \notin h' =>
              \A k \in Pages!Matches(q, w) : a'[k] = a[k],
           \A x \in g' \ g : <<x[1], d[x[2]].vaddr>> \notin h' =>
              \E k \in Pages!Pairs : /\ a'[k].asid = x[1] /\ a'[k].vpn = d[x[2]].vaddr
                                     /\ a'[k].frame = d[x[2]].frame
    PROVE  Pages!SharedIsShared'
<1>1. ASSUME NEW x \in g, <<x[1], d[x[2]].vaddr>> \notin h'
      PROVE  \E k \in Pages!Pairs : /\ a'[k].asid = x[1] /\ a'[k].vpn = d[x[2]].vaddr
                                    /\ a'[k].frame = d[x[2]].frame
  <2>1. x[1] \in Pids /\ d[x[2]].vaddr \in Pages!Pages
    BY DEF Stepping, Pages!TypeOK
  <2>2. PICK k \in Pages!Matches(x[1], d[x[2]].vaddr) : a[k].frame = d[x[2]].frame
    BY <1>1 DEF Stepping, Pages!PagesInv, Pages!SharedIsShared
  <2>3. a'[k] = a[k]
    BY <1>1, <2>1, <2>2
  <2>4. QED  BY <2>2, <2>3 DEF Pages!Matches
<1>2. QED  BY <1>1 DEF Pages!SharedIsShared, Pages!Matches, Pages!Pairs

Agreeing == Pages!TlbUnique /\ Pages!TlbAgrees /\ Pages!SharedIsShared

LEMMA AgreesFromTable ==
    ASSUME Stepping, NEW p \in Pids, NEW v \in Pages!Pages, Pages!RefillFromTable(p, v)
    PROVE  Agreeing'
<1> DEFINE i == Pages!First(Pages!Matches(p, v))
<1>1. i \in Pages!Pairs /\ a[i].vpn = v /\ a[i].asid = p /\ Pages!SlotOf(i) \in Pages!Slots
  BY FoundEntry DEF Pages!RefillFromTable
<1>2. /\ b' = [b EXCEPT ![Pages!SlotOf(i)] = [vpn |-> v, frame |-> a[i].frame, asid |-> p, copied |-> FALSE]]
      /\ Pages!Hits(p, v) = {} /\ UNCHANGED <<a, c, d, e, f, g, h>>
  BY DEF Pages!RefillFromTable, Pages!Slot, Pages!tableVars, Pages!pastVars
<1>3. i \in Pages!Matches(p, v)
  BY <1>1 DEF Pages!Matches
<1> DEFINE slot == Pages!SlotOf(i)
           fr   == a[i].frame
<1>4. slot \in Pages!Slots /\ b' = [b EXCEPT ![slot] = [vpn |-> v, frame |-> fr, asid |-> p, copied |-> FALSE]]
  BY <1>1, <1>2
<1> HIDE DEF slot, fr
<1>5. Pages!TlbUnique'
  BY <1>2, <1>4, StillUnique
<1>6. \A q \in Pids, w \in Pages!Pages : Pages!Matches(q, w)' = Pages!Matches(q, w)
  BY <1>2 DEF Pages!Matches
<1>7. Pages!TlbAgrees'
  <2>1. ASSUME NEW q \in Pids, NEW w \in Pages!Pages, <<q, w>> \notin h'
        PROVE  /\ \A j, k \in Pages!Matches(q, w)' : j = k
               /\ \A j \in Pages!Hits(q, w)' \cap Pages!Refilled' : \E k \in Pages!Matches(q, w)' : a'[k].frame = b'[j].frame
    <3>1. /\ b'[slot] = [vpn |-> v, frame |-> fr, asid |-> p, copied |-> FALSE]
          /\ \A k \in Pages!Slots \ {slot} : b'[k] = b[k]
      BY <1>4 DEF Stepping, Pages!TypeOK
    <3>4. \A j \in Pages!Hits(q, w)' \cap Pages!Refilled' : j = slot \/ j \in Pages!Refilled
      BY <3>1 DEF Pages!Refilled, Pages!Slots
    <3>2. \A j \in Pages!Hits(q, w)' :
             IF q = p /\ w = v THEN j = slot ELSE j \in Pages!Hits(q, w) /\ b'[j] = b[j]
      <4>1. b'[slot].vpn = v /\ b'[slot].asid = p /\ Pages!Hits(p, v) = {}
        BY <1>2, <3>1
      <4>2. slot \in Pages!Slots /\ \A k \in Pages!Slots \ {slot} : b'[k] = b[k]
        BY <1>4, <3>1
      <4>3. \A qq \in Pids, ww \in Pages!Pages :
               \A j \in Pages!Hits(qq, ww)' :
                  IF qq = p /\ ww = v THEN j = slot ELSE j \in Pages!Hits(qq, ww) /\ b'[j] = b[j]
        BY <4>1, <4>2, NewSlot
      <4>4. QED  BY <4>3
    <3>5. /\ \A j, k \in Pages!Matches(q, w) : j = k
          /\ \A j \in Pages!Hits(q, w) \cap Pages!Refilled : \E k \in Pages!Matches(q, w) : a[k].frame = b[j].frame
          /\ Pages!Matches(q, w)' = Pages!Matches(q, w) /\ a' = a
      BY <1>2, <1>6, <2>1 DEF Stepping, Pages!PagesInv, Pages!TlbAgrees
    <3>6. q = p /\ w = v => i \in Pages!Matches(q, w) /\ a[i].frame = fr
      BY <1>3 DEF fr
    <3>7. ASSUME NEW j \in Pages!Hits(q, w)' \cap Pages!Refilled'
          PROVE  \E k \in Pages!Matches(q, w)' : a'[k].frame = b'[j].frame
      <4>1. CASE q = p /\ w = v
        BY <3>1, <3>2, <3>5, <3>6, <4>1
      <4>2. CASE ~ (q = p /\ w = v)
        <5>1. j \in Pages!Hits(q, w) \cap Pages!Refilled /\ b'[j] = b[j]
          <6>1. j \in Pages!Hits(q, w) /\ b'[j] = b[j]
            BY <3>2, <4>2
          <6>2. b'[j].asid = q /\ b'[j].vpn = w
            BY <6>1 DEF Pages!Hits
          <6>3. j # slot
            BY <3>1, <4>2, <6>2
          <6>4. QED  BY <3>4, <6>1, <6>3
        <5>2. QED  BY <3>5, <5>1
      <4>3. QED  BY <4>1, <4>2
    <3>3. QED  BY <3>5, <3>7
  <2>2. QED  BY <2>1 DEF Pages!TlbAgrees, Pages!Pages
<1>8. Pages!SharedIsShared'
  BY <1>2, <1>6 DEF Stepping, Pages!PagesInv, Pages!SharedIsShared, Pages!Matches
<1>9. QED  BY <1>5, <1>7, <1>8 DEF Agreeing

LEMMA AgreesNew ==
    ASSUME Stepping, NEW p \in Pids, NEW v \in Pages!Pages, Pages!RefillNew(p, v)
    PROVE  Agreeing'
<1>1. PICK i \in Pages!Slots : b' = [b EXCEPT ![i] = [vpn |-> v, frame |-> c, asid |-> p, copied |-> FALSE]]
  BY RefillFound DEF Pages!RefillNew, Pages!Slot
<1>2. /\ a' = [a EXCEPT ![Pages!Base] = [vpn |-> v, frame |-> c, flag |-> 1, asid |-> p]]
      /\ Pages!Hits(p, v) = {} /\ Pages!Matches(p, v) = {}
      /\ h' = h \cup Pages!Evicted /\ UNCHANGED <<d, g>>
  BY DEF Pages!RefillNew, Pages!Entry
<1>3. Pages!TlbUnique'
  BY <1>1, <1>2, StillUnique
<1>4. \A q \in Pids, w \in Pages!Pages : <<q, w>> \notin h' =>
           /\ \A k \in Pages!Matches(q, w) : k # Pages!Base /\ a'[k] = a[k] /\ k \in Pages!Matches(q, w)'
           /\ Pages!Matches(q, w)' = Pages!Matches(q, w) \cup (IF q = p /\ w = v THEN {Pages!Base} ELSE {})
           /\ a'[Pages!Base].frame = c
  BY <1>2, NewEntry
<1>5. Pages!TlbAgrees'
  <2>1. ASSUME NEW q \in Pids, NEW w \in Pages!Pages, <<q, w>> \notin h'
        PROVE  /\ \A j, k \in Pages!Matches(q, w)' : j = k
               /\ \A j \in Pages!Hits(q, w)' \cap Pages!Refilled' : \E k \in Pages!Matches(q, w)' : a'[k].frame = b'[j].frame
    <3>1. /\ b'[i] = [vpn |-> v, frame |-> c, asid |-> p, copied |-> FALSE]
          /\ \A k \in Pages!Slots \ {i} : b'[k] = b[k]
      BY <1>1 DEF Stepping, Pages!TypeOK
    <3>4. \A j \in Pages!Hits(q, w)' \cap Pages!Refilled' : j = i \/ j \in Pages!Refilled
      BY <3>1 DEF Pages!Refilled, Pages!Slots
    <3>2. \A j \in Pages!Hits(q, w)' :
             IF q = p /\ w = v THEN j = i ELSE j \in Pages!Hits(q, w) /\ b'[j] = b[j]
      <4>1. b'[i].vpn = v /\ b'[i].asid = p /\ Pages!Hits(p, v) = {}
        BY <1>2, <3>1
      <4>2. QED  BY <3>1, <4>1, NewSlot
    <3>5. /\ \A j, k \in Pages!Matches(q, w) : j = k
          /\ \A j \in Pages!Hits(q, w) \cap Pages!Refilled : \E k \in Pages!Matches(q, w) : a[k].frame = b[j].frame
          /\ Pages!Matches(q, w) \subseteq Pages!Matches(q, w)' /\ \A k \in Pages!Matches(q, w) : a'[k] = a[k]
          /\ q = p /\ w = v => Pages!Base \in Pages!Matches(q, w)' /\ a'[Pages!Base].frame = c
      BY <1>2, <1>4, <2>1 DEF Stepping, Pages!PagesInv, Pages!TlbAgrees
    <3>6. \A j, k \in Pages!Matches(q, w)' : j = k
      BY <1>2, <1>4, <2>1, <3>5
    <3>7. ASSUME NEW j \in Pages!Hits(q, w)' \cap Pages!Refilled'
          PROVE  \E k \in Pages!Matches(q, w)' : a'[k].frame = b'[j].frame
      <4>1. CASE q = p /\ w = v
        BY <3>1, <3>2, <3>5, <4>1
      <4>2. CASE ~ (q = p /\ w = v)
        <5>1. j \in Pages!Hits(q, w) \cap Pages!Refilled /\ b'[j] = b[j]
          <6>1. j \in Pages!Hits(q, w) /\ b'[j] = b[j]
            BY <3>2, <4>2
          <6>2. b'[j].asid = q /\ b'[j].vpn = w
            BY <6>1 DEF Pages!Hits
          <6>3. j # i
            BY <3>1, <4>2, <6>2
          <6>4. QED  BY <3>4, <6>1, <6>3
        <5>2. QED  BY <3>5, <5>1
      <4>3. QED  BY <4>1, <4>2
    <3>3. QED  BY <3>6, <3>7
  <2>2. QED  BY <2>1 DEF Pages!TlbAgrees, Pages!Pages
<1>6. Pages!SharedIsShared'
  <2>1. /\ h \subseteq h' /\ g' \ g = {} /\ UNCHANGED d
        /\ \A q \in Pids, w \in Pages!Pages : <<q, w>> \notin h' => \A k \in Pages!Matches(q, w) : a'[k] = a[k]
    BY <1>2, <1>4
  <2>2. QED  BY <2>1, StillShared
<1>7. QED  BY <1>3, <1>5, <1>6 DEF Agreeing

LEMMA AgreesShmget ==
    ASSUME Stepping, NEW k \in Keys, Pages!Shmget(k)
    PROVE  Agreeing'
<1> DEFINE s == Pages!First(Pages!WithKey(0))
<1>1. /\ s \in Pages!Segments /\ d[s].key = 0
      /\ d' = [d EXCEPT ![s] = [key |-> k, frame |-> c, vaddr |-> e]]
  BY NewSegment
<1> HIDE DEF s
<1>2. UNCHANGED <<a, b, g, h>>
  BY DEF Pages!Shmget, Pages!pastVars
<1>3. \A x \in g : d'[x[2]] = d[x[2]]
  BY <1>1 DEF Stepping, Pages!Known, Pages!TypeOK
<1>4. Pages!SharedIsShared'
  BY <1>2, <1>3 DEF Stepping, Pages!PagesInv, Pages!SharedIsShared, Pages!Matches, Pages!Pairs
<1>5. Pages!TlbUnique' /\ Pages!TlbAgrees'
  BY <1>2 DEF Stepping, Pages!PagesInv, Pages!TlbUnique, Pages!TlbAgrees, Pages!Matches, Pages!Hits,
                 Pages!Refilled
<1>6. QED  BY <1>4, <1>5 DEF Agreeing

LEMMA AgreesAttached ==
    ASSUME Stepping, NEW p \in Pids, NEW s \in Pages!Segments, Pages!Shmat(p, s)
    PROVE  Agreeing'
<1> DEFINE v == d[s].vaddr
<1>1. /\ a' = [a EXCEPT ![Pages!Base] = [vpn |-> v, frame |-> d[s].frame, flag |-> 1, asid |-> p]]
      /\ g' = g \cup {<<p, s>>} /\ UNCHANGED <<b, c, d, e, f>>
      /\ h' = h \cup Pages!Evicted \cup (IF Pages!Matches(p, v) \cup Pages!Hits(p, v) = {} THEN {} ELSE {<<p, v>>})
  BY DEF Pages!Shmat, Pages!Entry, Pages!SegmentFrame
<1>2. v \in Pages!Pages
  BY DEF Stepping, Pages!TypeOK
<1> DEFINE fr == d[s].frame
<1>3. /\ a' = [a EXCEPT ![Pages!Base] = [vpn |-> v, frame |-> fr, flag |-> 1, asid |-> p]]
      /\ Pages!Evicted \subseteq h'
  BY <1>1
<1> HIDE DEF v, fr
<1>4. \A q \in Pids, w \in Pages!Pages : <<q, w>> \notin h' =>
           /\ \A k \in Pages!Matches(q, w) : k # Pages!Base /\ a'[k] = a[k] /\ k \in Pages!Matches(q, w)'
           /\ Pages!Matches(q, w)' = Pages!Matches(q, w) \cup (IF q = p /\ w = v THEN {Pages!Base} ELSE {})
           /\ a'[Pages!Base].frame = fr
  BY <1>2, <1>3, NewEntry, ZenonT(40)
<1>5. Pages!TlbUnique'
  BY <1>1 DEF Stepping, Pages!PagesInv, Pages!TlbUnique, Pages!Refilled
<1>6. /\ Pages!Refilled' = Pages!Refilled
      /\ \A q \in Pids, w \in Pages!Pages : Pages!Hits(q, w)' = Pages!Hits(q, w)
  BY <1>1 DEF Pages!Hits, Pages!Refilled
<1>7. Pages!TlbAgrees'
  <2>1. ASSUME NEW q \in Pids, NEW w \in Pages!Pages, <<q, w>> \notin h'
        PROVE  /\ \A j, k \in Pages!Matches(q, w)' : j = k
               /\ \A j \in Pages!Hits(q, w)' \cap Pages!Refilled' : \E k \in Pages!Matches(q, w)' : a'[k].frame = b'[j].frame
    <3>1. CASE q = p /\ w = v
      <4>1. Pages!Matches(q, w) = {} /\ Pages!Hits(q, w)' = {}
        BY <1>1, <1>6, <2>1, <3>1
      <4>2. QED  BY <1>4, <2>1, <4>1
    <3>2. CASE ~ (q = p /\ w = v)
      <4>1. <<q, w>> \notin h /\ b' = b
        BY <1>1, <2>1
      <4>2. QED  BY <1>4, <1>6, <2>1, <3>2, <4>1 DEF Stepping, Pages!PagesInv, Pages!TlbAgrees
    <3>3. QED  BY <3>1, <3>2
  <2>2. QED  BY <2>1 DEF Pages!TlbAgrees, Pages!Pages
<1>8. Pages!SharedIsShared'
  <2>1. h \subseteq h' /\ UNCHANGED d
    BY <1>1
  <2>2. \A q \in Pids, w \in Pages!Pages : <<q, w>> \notin h' => \A k \in Pages!Matches(q, w) : a'[k] = a[k]
    BY <1>4
  <2>3. Pages!Base \in Pages!Pairs
    BY BaseFound DEF Stepping
  <2>4. \A x \in g' \ g : \E k \in Pages!Pairs : /\ a'[k].asid = x[1] /\ a'[k].vpn = d[x[2]].vaddr
                                               /\ a'[k].frame = d[x[2]].frame
    BY <1>1, <2>3 DEF Stepping, Pages!TypeOK, v
  <2>5. QED  BY <2>1, <2>2, <2>4, StillShared
<1>9. QED  BY <1>5, <1>7, <1>8 DEF Agreeing

\* A detached page loses its entries; what else is there stays.
LEMMA AgreesDetached ==
    ASSUME Stepping, NEW p \in Pids, NEW v \in Pages!Pages, Pages!Shmdt(p, v)
    PROVE  Agreeing'
<1>1. /\ a' = [i \in Pages!Pairs |-> IF i \in Pages!ClearedBy(p, v) THEN Pages!NoEntry ELSE a[i]]
      /\ g' = g \ ({p} \X Pages!AtPage(v)) /\ UNCHANGED <<b, c, d, e>>
      /\ h' = h \cup (IF Pages!Hits(p, v) = {} /\ Pages!Matches(p, v) = Pages!ClearedBy(p, v)
                      THEN {} ELSE {<<p, v>>})
  BY DEF Pages!Shmdt
<1>2. Pages!ClearedBy(p, v) \subseteq Pages!Matches(p, v) /\ Pages!Matches(p, v) \subseteq Pages!Pairs
  BY DEF Pages!ClearedBy, Pages!Matches
<1>3. ASSUME NEW q \in Pids, NEW w \in Pages!Pages
      PROVE  /\ Pages!Matches(q, w)' = Pages!Matches(q, w) \ Pages!ClearedBy(p, v)
             /\ \A k \in Pages!Matches(q, w)' : a'[k] = a[k]
             /\ ~ (q = p /\ w = v) => Pages!Matches(q, w)' = Pages!Matches(q, w)
  <2>1. /\ \A k : k \in Pages!Matches(q, w) <=> (k \in Pages!Pairs /\ a[k].vpn = w /\ a[k].asid = q)
        /\ \A k : k \in Pages!Matches(q, w)' <=> (k \in Pages!Pairs /\ a'[k].vpn = w /\ a'[k].asid = q)
        /\ \A k : k \in Pages!Matches(p, v) <=> (k \in Pages!Pairs /\ a[k].vpn = v /\ a[k].asid = p)
    BY DEF Pages!Matches, Pages!Pairs
  <2>2. \A k \in Pages!Pairs : IF k \in Pages!ClearedBy(p, v) THEN a'[k].asid = 0 ELSE a'[k] = a[k]
    BY <1>1 DEF Pages!NoEntry
  <2>3. q # 0
    BY Sizes
  <2>4. \A k : k \in Pages!Matches(q, w)' <=> (k \in Pages!Matches(q, w) /\ k \notin Pages!ClearedBy(p, v))
    BY <1>2, <2>1, <2>2, <2>3
  <2>5. Pages!Matches(q, w)' = Pages!Matches(q, w) \ Pages!ClearedBy(p, v)
    BY <2>4
  <2>6. \A k \in Pages!Matches(q, w)' : a'[k] = a[k]
    BY <2>1, <2>2, <2>4
  <2>7. ~ (q = p /\ w = v) => \A k \in Pages!Matches(q, w) : k \notin Pages!ClearedBy(p, v)
    BY <1>2, <2>1
  <2>8. QED  BY <2>5, <2>6, <2>7
<1>4. Pages!TlbUnique'
  BY <1>1 DEF Stepping, Pages!PagesInv, Pages!TlbUnique, Pages!Refilled
<1>5. /\ Pages!Refilled' = Pages!Refilled
      /\ \A q \in Pids, w \in Pages!Pages : Pages!Hits(q, w)' = Pages!Hits(q, w)
  BY <1>1 DEF Pages!Hits, Pages!Refilled
<1>6. Pages!TlbAgrees'
  <2>1. ASSUME NEW q \in Pids, NEW w \in Pages!Pages, <<q, w>> \notin h'
        PROVE  /\ \A j, k \in Pages!Matches(q, w)' : j = k
               /\ \A j \in Pages!Hits(q, w)' \cap Pages!Refilled' : \E k \in Pages!Matches(q, w)' : a'[k].frame = b'[j].frame
    <3>1. CASE q = p /\ w = v
      <4>1. Pages!Matches(q, w)' = {} /\ Pages!Hits(q, w)' = {}
        BY <1>1, <1>3, <1>5, <2>1, <3>1
      <4>2. QED  BY <4>1
    <3>2. CASE ~ (q = p /\ w = v)
      <4>1. <<q, w>> \notin h /\ b' = b
        BY <1>1, <2>1
      <4>2. QED  BY <1>3, <1>5, <2>1, <3>2, <4>1 DEF Stepping, Pages!PagesInv, Pages!TlbAgrees
    <3>3. QED  BY <3>1, <3>2
  <2>2. QED  BY <2>1 DEF Pages!TlbAgrees, Pages!Pages
<1>7. Pages!SharedIsShared'
  <2>1. ASSUME NEW x \in g', <<x[1], d[x[2]].vaddr>> \notin h'
        PROVE  \E k \in Pages!Pairs : /\ a'[k].asid = x[1] /\ a'[k].vpn = d[x[2]].vaddr
                                      /\ a'[k].frame = d[x[2]].frame
    <3>1. /\ x \in g /\ x[1] \in Pids /\ x[2] \in Pages!Segments /\ d[x[2]].vaddr \in Pages!Pages
          /\ x = <<x[1], x[2]>>
      BY <1>1 DEF Stepping, Pages!TypeOK
    <3>2. PICK k \in Pages!Matches(x[1], d[x[2]].vaddr) : a[k].frame = d[x[2]].frame
      BY <1>1, <2>1, <3>1 DEF Stepping, Pages!PagesInv, Pages!SharedIsShared
    <3>3. ~ (x[1] = p /\ d[x[2]].vaddr = v)
      BY <1>1, <3>1 DEF Pages!AtPage
    <3>4. k \in Pages!Pairs /\ k \notin Pages!ClearedBy(p, v)
      BY <1>2, <3>2, <3>3 DEF Pages!Matches
    <3>5. a'[k] = a[k]
      BY <1>1, <3>4
    <3>6. QED  BY <3>2, <3>4, <3>5 DEF Pages!Matches
  <2>2. QED  BY <1>1, <2>1 DEF Pages!SharedIsShared, Pages!Matches, Pages!Pairs
<1>8. QED  BY <1>4, <1>6, <1>7 DEF Agreeing

\* A copy is no refill's: what the refills wrote is less than before.
LEMMA AgreesSwitched ==
    ASSUME Stepping, NEW p \in Pids \cup {0}, Pages!Switch(p)
    PROVE  Agreeing'
<1>1. /\ index' \in Pages!Slots /\ b' = [b EXCEPT ![index'] = Pages!Copy(b[index], p)]
      /\ UNCHANGED <<a, c, d, e, f, g, h>>
  BY SwitchStep
<1> DEFINE cp == Pages!Copy(b[index], p)
<1>2. cp.copied \/ cp.asid = 0
  <2>1. b[index] \in [vpn : Pages!Pages, frame : 0 .. MaxFrame, asid : Pids \cup {0}, copied : BOOLEAN]
    BY SwitchStep DEF Stepping, Pages!TypeOK
  <2>2. QED  BY <2>1 DEF Pages!Copy, Pages!EmptySlot
<1>3. b' = [b EXCEPT ![index'] = cp]
  BY <1>1
<1> HIDE DEF cp
<1>4. \A i \in Pages!Slots : b'[i] = IF i = index' THEN cp ELSE b[i]
  BY <1>1, <1>3 DEF Stepping, Pages!TypeOK
<1>5. \A i \in Pages!Refilled' : i \in Pages!Refilled /\ b'[i] = b[i]
  BY <1>2, <1>4 DEF Pages!Refilled, Pages!Slots
<1>6. Pages!TlbUnique'
  BY <1>5 DEF Stepping, Pages!PagesInv, Pages!TlbUnique
<1>7. \A q \in Pids, w \in Pages!Pages :
         /\ Pages!Matches(q, w)' = Pages!Matches(q, w)
         /\ \A i \in Pages!Hits(q, w)' \cap Pages!Refilled' : i \in Pages!Hits(q, w)
  BY <1>1, <1>5 DEF Pages!Matches, Pages!Hits, Pages!Slots
<1>8. Pages!TlbAgrees'
  BY <1>1, <1>5, <1>7 DEF Stepping, Pages!PagesInv, Pages!TlbAgrees, Pages!Pages
<1>9. Pages!SharedIsShared'
  BY <1>1 DEF Stepping, Pages!PagesInv, Pages!SharedIsShared, Pages!Matches
<1>10. QED  BY <1>6, <1>8, <1>9 DEF Agreeing

----------------------------------------------------------------------------
(* What scheduler() copies                                                 *)

Copying == Pages!CopiesKnown /\ Pages!CopiesInPlace

\* No copy is new, and a new translation, if there is one, is of a new frame or of a
\* segment at its page.
LEMMA CopiesStay ==
    ASSUME Stepping,
           \A i \in Pages!Slots : b'[i] = b[i] \/ (b'[i].asid # 0 /\ ~ b'[i].copied),
           c' \in {c, c + 1},
           NEW x,
           Pages!Translations' \subseteq Pages!Translations \cup {x},
           x \in Pages!Translations \/ x[3] = c
              \/ \E s \in Pages!Segments : d[s].key # 0 /\ x[3] = d[s].frame /\ x[2] = d[s].vaddr,
           \A s \in Pages!Segments : d'[s] = d[s] \/ d'[s].frame = c
    PROVE  Copying'
<1>1. /\ \A i \in Pages!Slots : b[i].frame # 0 => i \in Pages!Refilled \cup Pages!Copies
      /\ \A i \in Pages!Copies : b[i].frame \in 1 .. c - 1
      /\ \A i \in Pages!Copies, s \in Pages!Segments :
            d[s].key # 0 /\ d[s].frame = b[i].frame => d[s].vaddr = b[i].vpn
      /\ c \in Nat \ {0}
  BY DEF Stepping, Pages!PagesInv, Pages!CopiesKnown, Pages!TypeOK
<1>2. \A i \in Pages!Copies' : i \in Pages!Copies /\ b'[i] = b[i]
  BY DEF Pages!Copies, Pages!Slots
<1>3. \A i \in Pages!Slots : b'[i].frame # 0 => i \in Pages!Refilled' \cup Pages!Copies'
  BY <1>1 DEF Pages!Refilled, Pages!Copies, Pages!Slots
<1>4. \A i \in Pages!Copies' : b'[i].frame \in 1 .. c' - 1 /\ b[i].frame # c
  BY <1>1, <1>2
<1>5. \A i \in Pages!Copies', s \in Pages!Segments :
         d'[s].key # 0 /\ d'[s].frame = b'[i].frame => d'[s].vaddr = b'[i].vpn
  BY <1>1, <1>2, <1>4
<1>6. Pages!CopiesKnown'
  BY <1>3, <1>4, <1>5 DEF Pages!CopiesKnown, Pages!Slots, Pages!Segments
<1>7. ASSUME NEW i \in Pages!Copies', NEW y \in Pages!Translations', y[3] = b'[i].frame
      PROVE  y[2] = b'[i].vpn
  <2>1. y \in Pages!Translations \/ y = x
    OBVIOUS
  <2>2. y \in Pages!Translations => y[2] = b[i].vpn
    BY <1>2, <1>7 DEF Stepping, Pages!PagesInv, Pages!CopiesInPlace
  <2>3. y[3] # c
    BY <1>2, <1>4, <1>7
  <2>4. QED  BY <1>1, <1>2, <1>7, <2>1, <2>2, <2>3
<1>8. \A i, j \in Pages!Copies' : b'[j].frame = b'[i].frame => b'[j].vpn = b'[i].vpn
  BY <1>2 DEF Stepping, Pages!PagesInv, Pages!CopiesInPlace
<1>9. Pages!CopiesInPlace'
  BY <1>7, <1>8 DEF Pages!CopiesInPlace
<1>10. QED  BY <1>6, <1>9 DEF Copying

\* A new copy has the page and the frame of the slot it is a copy of.
LEMMA CopiesSwitched ==
    ASSUME Stepping, NEW p \in Pids \cup {0}, Pages!Switch(p)
    PROVE  Copying'
<1>1. /\ index \in Pages!Slots /\ index' \in Pages!Slots
      /\ b' = [b EXCEPT ![index'] = Pages!Copy(b[index], p)]
      /\ Pages!Translations' \subseteq Pages!Translations
      /\ UNCHANGED <<a, c, d, e, f, g, h>>
  BY SwitchStep
<1> DEFINE cp == Pages!Copy(b[index], p)
           from == b[index]
<1>2. IF from.frame = 0 THEN cp.frame = 0 /\ ~ cp.copied
                        ELSE cp.copied /\ cp.frame = from.frame /\ cp.vpn = from.vpn
  <2>1. b[index] \in [vpn : Pages!Pages, frame : 0 .. MaxFrame, asid : Pids \cup {0}, copied : BOOLEAN]
    BY <1>1 DEF Stepping, Pages!TypeOK
  <2>2. QED  BY <2>1 DEF Pages!Copy, Pages!EmptySlot
<1>3. b' = [b EXCEPT ![index'] = cp]
  BY <1>1
<1>4. from.frame # 0 => index \in Pages!Refilled \cup Pages!Copies
  BY <1>1 DEF Stepping, Pages!PagesInv, Pages!CopiesKnown
<1>5. index \in Pages!Refilled => <<from.asid, from.vpn, from.frame>> \in Pages!Translations
  BY <1>1, TranslationFrom DEF Pages!Refilled
<1>6. /\ \A i \in Pages!Slots : b[i].frame # 0 => i \in Pages!Refilled \cup Pages!Copies
      /\ \A i \in Pages!Copies : b[i].frame \in 1 .. c - 1
      /\ \A i \in Pages!Copies, s \in Pages!Segments :
            d[s].key # 0 /\ d[s].frame = b[i].frame => d[s].vaddr = b[i].vpn
  BY DEF Stepping, Pages!PagesInv, Pages!CopiesKnown
<1>7. /\ \A i \in Pages!Copies, y \in Pages!Translations : y[3] = b[i].frame => y[2] = b[i].vpn
      /\ \A i, j \in Pages!Copies : b[j].frame = b[i].frame => b[j].vpn = b[i].vpn
  BY DEF Stepping, Pages!PagesInv, Pages!CopiesInPlace
\* What holds of copies holds of what is copied.
<1>8. from.frame # 0 =>
        /\ from.frame \in 1 .. c - 1
        /\ \A s \in Pages!Segments : d[s].key # 0 /\ d[s].frame = from.frame => d[s].vaddr = from.vpn
        /\ \A y \in Pages!Translations : y[3] = from.frame => y[2] = from.vpn
        /\ \A i \in Pages!Copies : b[i].frame = from.frame => b[i].vpn = from.vpn
  <2>1. CASE index \in Pages!Copies
    BY <1>6, <1>7, <2>1
  <2>2. CASE index \in Pages!Refilled
    <3>1. PICK t \in Pages!Translations : t[2] = from.vpn /\ t[3] = from.frame
      BY <1>5, <2>2
    <3>2. t[3] \in 1 .. c - 1 /\ \A s \in Pages!Segments : d[s].key # 0 /\ t[3] = d[s].frame => t[2] = d[s].vaddr
      BY <3>1 DEF Stepping, Pages!Known, Pages!PagesInv, Pages!SegmentsApart
    <3>3. \A y \in Pages!Translations : y[3] = t[3] => y[2] = t[2]
      BY <3>1 DEF Stepping, Pages!PagesInv, Pages!FramesApart
    <3>4. QED  BY <1>7, <3>1, <3>2, <3>3
  <2>3. QED  BY <1>4, <2>1, <2>2
<1> HIDE DEF cp, from
<1>9. \A i \in Pages!Slots : b'[i] = IF i = index' THEN cp ELSE b[i]
  BY <1>1, <1>3 DEF Stepping, Pages!TypeOK
<1>10. \A i \in Pages!Copies' :
          \/ i \in Pages!Copies /\ b'[i] = b[i]
          \/ b'[i].frame = from.frame /\ b'[i].vpn = from.vpn /\ from.frame # 0
  BY <1>2, <1>9 DEF Pages!Copies, Pages!Slots
<1>11. \A i \in Pages!Slots : b'[i].frame # 0 => i \in Pages!Refilled' \cup Pages!Copies'
  BY <1>2, <1>6, <1>9 DEF Pages!Refilled, Pages!Copies, Pages!Slots
<1>12. Pages!CopiesKnown'
  <2>1. \A i \in Pages!Copies' : b'[i].frame \in 1 .. c' - 1
    BY <1>1, <1>6, <1>8, <1>10
  <2>2. \A i \in Pages!Copies', s \in Pages!Segments :
           d'[s].key # 0 /\ d'[s].frame = b'[i].frame => d'[s].vaddr = b'[i].vpn
    BY <1>1, <1>6, <1>8, <1>10
  <2>3. QED  BY <1>11, <2>1, <2>2 DEF Pages!CopiesKnown, Pages!Slots, Pages!Segments
<1>13. Pages!CopiesInPlace'
  <2>1. \A i \in Pages!Copies', y \in Pages!Translations' : y[3] = b'[i].frame => y[2] = b'[i].vpn
    BY <1>1, <1>7, <1>8, <1>10
  <2>2. \A i, j \in Pages!Copies' : b'[j].frame = b'[i].frame => b'[j].vpn = b'[i].vpn
    BY <1>7, <1>8, <1>10
  <2>3. QED  BY <2>1, <2>2 DEF Pages!CopiesInPlace
<1>14. QED  BY <1>12, <1>13 DEF Copying

LEMMA CopyingStep ==
    ASSUME Stepping, Pages!Next
    PROVE  Copying'
<1>0. c \in Nat
  BY DEF Stepping, Pages!TypeOK
<1>1. ASSUME NEW p \in Pids, NEW v \in Pages!Pages, Pages!RefillFromTable(p, v) PROVE Copying'
  <2> DEFINE found == Pages!First(Pages!Matches(p, v))
             slot == Pages!SlotOf(found)
             fr == a[found].frame
  <2>1. /\ b' = [b EXCEPT ![slot] = [vpn |-> v, frame |-> fr, asid |-> p, copied |-> FALSE]]
        /\ UNCHANGED <<a, c, d>>
    BY <1>1 DEF Pages!RefillFromTable, Pages!Slot, Pages!tableVars
  <2>2. slot \in Pages!Slots /\ found \in Pages!Pairs /\ a[found].vpn = v /\ a[found].asid = p
    BY <1>1, FoundEntry DEF Pages!RefillFromTable
  <2>3. <<p, v, fr>> \in Pages!Translations
    BY <2>2, Sizes, TranslationFrom
  <2> HIDE DEF slot, fr
  <2>4. \A i \in Pages!Slots : b'[i] = b[i] \/ (b'[i].asid # 0 /\ ~ b'[i].copied)
    BY <2>1, <2>2, Sizes DEF Stepping, Pages!TypeOK
  <2>5. Pages!Translations' \subseteq Pages!Translations \cup {<<p, v, fr>>}
    BY <1>1, RefillFromTableStep
  <2>6. c' \in {c, c + 1} /\ \A s \in Pages!Segments : d'[s] = d[s] \/ d'[s].frame = c
    BY <2>1
  <2>7. QED  BY <2>3, <2>4, <2>5, <2>6, CopiesStay
<1>2. ASSUME NEW p \in Pids, NEW v \in Pages!Pages, Pages!RefillNew(p, v) PROVE Copying'
  <2>1. PICK i \in Pages!Slots : b' = [b EXCEPT ![i] = [vpn |-> v, frame |-> c, asid |-> p, copied |-> FALSE]]
    BY <1>2, RefillFound DEF Pages!RefillNew, Pages!Slot
  <2>2. c' = c + 1 /\ UNCHANGED d
    BY <1>2 DEF Pages!RefillNew
  <2>3. \A k \in Pages!Slots : b'[k] = b[k] \/ (b'[k].asid # 0 /\ ~ b'[k].copied)
    BY <2>1, Sizes DEF Stepping, Pages!TypeOK
  <2>4. Pages!Translations' \subseteq Pages!Translations \cup {<<p, v, c>>} /\ <<p, v, c>>[3] = c
    BY <1>2, RefillNewStep
  <2>5. c' \in {c, c + 1} /\ \A s \in Pages!Segments : d'[s] = d[s] \/ d'[s].frame = c
    BY <2>2
  <2>6. QED  BY <2>3, <2>4, <2>5, CopiesStay
<1>3. ASSUME NEW p \in Pids, NEW v \in Pages!Pages, Pages!Shmdt(p, v) PROVE Copying'
  <2>1. UNCHANGED <<b, c, d>>
    BY <1>3 DEF Pages!Shmdt
  <2>2. Pages!Translations' \subseteq Pages!Translations \cup {<<0, 0, c>>} /\ <<0, 0, c>>[3] = c
    BY <1>3, ShmdtStep
  <2>3. /\ \A k \in Pages!Slots : b'[k] = b[k] \/ (b'[k].asid # 0 /\ ~ b'[k].copied)
        /\ c' \in {c, c + 1} /\ \A s \in Pages!Segments : d'[s] = d[s] \/ d'[s].frame = c
    BY <2>1
  <2>4. QED  BY <2>2, <2>3, CopiesStay
<1>4. ASSUME NEW k \in Keys, Pages!Shmget(k) PROVE Copying'
  <2> DEFINE new == Pages!First(Pages!WithKey(0))
  <2>1. c' = c + 1 /\ b' = b
    BY <1>4 DEF Pages!Shmget
  <2>2. new \in Pages!Segments /\ d' = [d EXCEPT ![new] = [key |-> k, frame |-> c, vaddr |-> e]]
    BY <1>4, NewSegment
  <2> HIDE DEF new
  <2>3. Pages!Translations' \subseteq Pages!Translations \cup {<<0, 0, c>>} /\ <<0, 0, c>>[3] = c
    BY <1>4, ShmgetStep
  <2>4. /\ \A q \in Pages!Slots : b'[q] = b[q] \/ (b'[q].asid # 0 /\ ~ b'[q].copied)
        /\ c' \in {c, c + 1} /\ \A s \in Pages!Segments : d'[s] = d[s] \/ d'[s].frame = c
    BY <2>1, <2>2 DEF Stepping, Pages!TypeOK
  <2>5. QED  BY <2>3, <2>4, CopiesStay
<1>5. ASSUME NEW p \in Pids, NEW s \in Pages!Segments, Pages!Shmat(p, s) PROVE Copying'
  <2>1. UNCHANGED <<b, c, d>> /\ d[s].key # 0
    BY <1>5 DEF Pages!Shmat
  <2> DEFINE x == <<p, d[s].vaddr, d[s].frame>>
  <2>2. /\ Pages!Translations' \subseteq Pages!Translations \cup {x}
        /\ x[3] = d[s].frame /\ x[2] = d[s].vaddr
    BY <1>5, ShmatStep
  <2> HIDE DEF x
  <2>3. /\ \A k \in Pages!Slots : b'[k] = b[k] \/ (b'[k].asid # 0 /\ ~ b'[k].copied)
        /\ c' \in {c, c + 1} /\ \A t \in Pages!Segments : d'[t] = d[t] \/ d'[t].frame = c
    BY <2>1
  <2>4. QED  BY <2>1, <2>2, <2>3, CopiesStay
<1>6. QED  BY <1>1, <1>2, <1>3, <1>4, <1>5, CopiesSwitched DEF Pages!Next

----------------------------------------------------------------------------
(* The invariant                                                           *)

LEMMA PagesInit ==
    ASSUME Pages!Init
    PROVE  Pages!PagesInv
<1>1. /\ a = [i \in Pages!Pairs |-> Pages!NoEntry] /\ b = [i \in Pages!Slots |-> Pages!EmptySlot]
      /\ c = 1 /\ d = [s \in Pages!Segments |-> Pages!NoSegment] /\ e = 0 /\ f = FALSE /\ g = {} /\ h = {}
      /\ running = 0 /\ index \in Pages!Slots
  BY DEF Pages!Init
<1>2. Pages!TypeOK
  <2>1. 0 \in Pages!Pages /\ 0 \in 0 .. MaxFrame /\ c \in 1 .. MaxFrame + 1 /\ e \in 0 .. NumPages
    BY <1>1, Sizes DEF Pages!Pages
  <2>2. /\ Pages!NoEntry \in [vpn : Pages!Pages, frame : 0 .. MaxFrame, flag : {0, 1}, asid : Pids \cup {0}]
        /\ Pages!EmptySlot \in [vpn : Pages!Pages, frame : 0 .. MaxFrame, asid : Pids \cup {0}, copied : BOOLEAN]
        /\ Pages!NoSegment \in [vaddr : Pages!Pages, frame : 0 .. MaxFrame, key : Keys \cup {0}]
    BY <2>1 DEF Pages!NoEntry, Pages!NoSegment, Pages!EmptySlot
  <2>3. QED  BY <1>1, <2>1, <2>2 DEF Pages!TypeOK
<1>3. Pages!Translations = {}
  BY <1>1, TranslationFrom DEF Pages!NoEntry, Pages!EmptySlot
<1>4. Pages!Known /\ Pages!SegmentsApart /\ Pages!FramesApart
  BY <1>1, <1>3 DEF Pages!Known, Pages!SegmentsApart, Pages!FramesApart, Pages!NoEntry, Pages!NoSegment
<1>5. Pages!TlbUnique /\ Pages!TlbAgrees /\ Pages!SharedIsShared
  BY <1>1, Sizes DEF Pages!TlbUnique, Pages!TlbAgrees, Pages!SharedIsShared, Pages!Matches, Pages!Hits,
                     Pages!NoEntry, Pages!EmptySlot, Pages!Refilled
<1>7. Pages!CopiesKnown /\ Pages!CopiesInPlace
  BY <1>1 DEF Pages!CopiesKnown, Pages!CopiesInPlace, Pages!Copies, Pages!EmptySlot
<1>6. QED  BY <1>2, <1>4, <1>5, <1>7 DEF Pages!PagesInv

LEMMA PagesStep ==
    ASSUME Pages!PagesInv, Pages!Next
    PROVE  Pages!PagesInv'
<1>1. Stepping
  BY DEF Stepping, Pages!PagesInv
<1>2. Agreeing'
  BY <1>1, AgreesFromTable, AgreesNew, AgreesAttached, AgreesDetached, AgreesShmget, AgreesSwitched
     DEF Pages!Next
<1>3. QED  BY <1>1, <1>2, SoundStep, CopyingStep DEF Agreeing, Sound, Copying, Pages!PagesInv

LEMMA PagesStutter ==
    ASSUME Pages!PagesInv, UNCHANGED <<a, b, c, d, e, f, g, h, running, index>>
    PROVE  Pages!PagesInv'
BY DEF Pages!PagesInv, Pages!CopiesKnown, Pages!CopiesInPlace, Pages!Copies, Pages!Refilled, Pages!TypeOK, Pages!Known, Pages!SegmentsApart, Pages!FramesApart, Pages!TlbUnique,
       Pages!TlbAgrees, Pages!SharedIsShared, Pages!Translations, Pages!Matches, Pages!Hits

LEMMA PagesInvAlways == Spec => [](part = "pages" => Pages!PagesInv)
<1> DEFINE Inv == part = "pages" => Pages!PagesInv
<1>1. Init => Inv
  BY PagesInit DEF Init
<1>2. Inv /\ [Next]_vars => Inv'
  <2> SUFFICES ASSUME Inv, [Next]_vars, part' = "pages" PROVE Pages!PagesInv'
    OBVIOUS
  <2>1. part = "pages" /\ Pages!PagesInv
    BY DEF Next, vars
  <2>2. CASE Pages!Next
    BY <2>1, <2>2, PagesStep
  <2>3. CASE UNCHANGED vars
    BY <2>1, <2>3, PagesStutter DEF vars, pageVars
  <2>4. QED  BY <2>1, <2>2, <2>3 DEF Next
<1>3. QED  BY <1>1, <1>2, PTL DEF Spec

\* Two pages share memory only as the same page of one shared segment, and processes
\* that attached a segment reach the same frame, for any number of processes and pages;
\* what scheduler() copies at a switch leads to a page at the same address.
THEOREM FramesRightAlways == Spec => []FramesRight
<1>1. (part = "pages" => Pages!PagesInv) => FramesRight
  BY DEF Pages!PagesInv, FramesRight
<1>2. QED  BY <1>1, PagesInvAlways, PTL

\* No access matches two refilled entries of the TLB, and the table agrees with them.
THEOREM TlbUniqueAlways == Spec => []TlbUnique
<1>1. (part = "pages" => Pages!PagesInv) => TlbUnique
  BY DEF Pages!PagesInv, TlbUnique
<1>2. QED  BY <1>1, PagesInvAlways, PTL

----------------------------------------------------------------------------
(* Positions, blocks and places of a file                                  *)

LEMMA FileSizes ==
    /\ BlockSize \in Nat \ {0} /\ Direct \in Nat \ {0} /\ Pointers \in Nat \ {0} /\ Pointers <= BlockSize
    /\ NumBlocks \in Nat /\ IsFiniteSet(File) /\ Cardinality(File) < NumBlocks
    /\ Limit \in [File -> Nat] /\ \A x \in File : Limit[x] <= Files!Big
    /\ Files!Small = Direct * BlockSize
    /\ Files!Middle = Files!Small + Pointers * BlockSize
    /\ Files!Big = Files!Middle + Pointers * Pointers * BlockSize
    /\ Files!Area = Direct + Pointers
BY ResourcesAssumption
   DEF Files!OpenFilesAssumption, Files!Small, Files!Middle, Files!Big, Files!Area,
       Files!IsFiniteSet, IsFiniteSet, Files!Cardinality, Cardinality

\* The same, without what Z3 would multiply out.
LEMMA Widths ==
    /\ BlockSize \in Nat \ {0} /\ Direct \in Nat \ {0} /\ Pointers \in Nat \ {0} /\ Pointers <= BlockSize
    /\ Files!Area = Direct + Pointers /\ NumBlocks \in Nat
BY FileSizes

LEMMA Division ==
    ASSUME NEW p \in Nat, NEW s \in Nat \ {0}
    PROVE  /\ p \div s \in Nat /\ p % s \in 0 .. s - 1
           /\ p = s * (p \div s) + (p % s)
<1>1. s \in Nat /\ s > 0
  OBVIOUS
<1>2. p = s * (p \div s) + (p % s)
  BY <1>1, SMTT(30)
<1>3. p \div s \in Nat /\ p % s \in 0 .. s - 1
  OBVIOUS
<1>4. QED  BY <1>2, <1>3

LEMMA Order ==
    ASSUME NEW i \in Nat, NEW j \in Nat, NEW s \in Nat, i <= j
    PROVE  s * i <= s * j /\ s * i \in Nat
OBVIOUS

\* Quotient and remainder are the only ones.
LEMMA QuotientIs ==
    ASSUME NEW q \in Nat, NEW s \in Nat \ {0}, NEW r \in 0 .. s - 1
    PROVE  (s * q + r) \div s = q /\ (s * q + r) % s = r
<1> DEFINE p == s * q + r  k == p \div s  z == p % s
<1>1. p \in Nat
  OBVIOUS
<1>2. k \in Nat /\ z \in 0 .. s - 1 /\ p = s * k + z
  BY <1>1, Division
<1> HIDE DEF k, z
<1>3. ~ (k < q)
  <2>1. SUFFICES ASSUME k + 1 <= q PROVE FALSE
    BY <1>2
  <2>2. s * (k + 1) <= s * q
    BY <1>2, <2>1, Order
  <2>3. s * (k + 1) = s * k + s
    BY <1>2
  <2>4. QED  BY <1>2, <2>2, <2>3
<1>4. ~ (q < k)
  <2>1. SUFFICES ASSUME q + 1 <= k PROVE FALSE
    BY <1>2
  <2>2. s * (q + 1) <= s * k
    BY <1>2, <2>1, Order
  <2>3. s * (q + 1) = s * q + s
    OBVIOUS
  <2>4. QED  BY <1>2, <2>2, <2>3
<1>5. k = q
  BY <1>2, <1>3, <1>4
<1>6. z = r
  BY <1>2, <1>5
<1>7. QED  BY <1>5, <1>6 DEF k, z

LEMMA Position ==
    ASSUME NEW p \in Nat
    PROVE  /\ Files!Number(p) \in Nat /\ Files!Offset(p) \in Nat
           /\ Files!Offset(p) < BlockSize /\ Files!Offset(p) \in Files!Cells
           /\ p = BlockSize * Files!Number(p) + Files!Offset(p)
<1>1. /\ p \div BlockSize \in Nat /\ p % BlockSize \in 0 .. BlockSize - 1
      /\ p = BlockSize * (p \div BlockSize) + (p % BlockSize)
  <2>1. BlockSize \in Nat \ {0}
    BY Widths
  <2>2. QED  BY <2>1, Division, Zenon
<1>2. BlockSize \in Nat
  BY Widths
<1>3. QED  BY <1>1, <1>2 DEF Files!Number, Files!Offset, Files!Cells

LEMMA PositionIs ==
    ASSUME NEW q \in Nat, NEW r \in Nat, r < BlockSize
    PROVE  Files!Number(BlockSize * q + r) = q /\ Files!Offset(BlockSize * q + r) = r
BY Widths, QuotientIs DEF Files!Number, Files!Offset

LEMMA Below ==
    ASSUME NEW p \in Nat, NEW q \in Nat
    PROVE  /\ p < q * BlockSize <=> Files!Number(p) < q
           /\ p = q * BlockSize <=> Files!Number(p) = q /\ Files!Offset(p) = 0
<1> DEFINE k == Files!Number(p)  r == Files!Offset(p)
<1>1. k \in Nat /\ r \in Nat /\ r < BlockSize /\ p = BlockSize * k + r
  BY Position
<1> HIDE DEF k, r
<1>2. BlockSize \in Nat /\ q * BlockSize = BlockSize * q /\ BlockSize * q \in Nat /\ BlockSize * k \in Nat
  BY Widths, <1>1
<1>3. CASE k < q
  <2>1. BlockSize * (k + 1) <= BlockSize * q
    BY <1>1, <1>2, <1>3, Order
  <2>2. BlockSize * (k + 1) = BlockSize * k + BlockSize
    BY <1>1, <1>2
  <2>3. p < q * BlockSize
    BY <1>1, <1>2, <2>1, <2>2
  <2>4. QED  BY <1>1, <1>2, <1>3, <2>3 DEF k, r
<1>4. CASE k >= q
  <2>1. BlockSize * q <= BlockSize * k
    BY <1>1, <1>2, <1>4, Order
  <2>2. p >= q * BlockSize
    BY <1>1, <1>2, <2>1
  <2>3. ASSUME p = q * BlockSize PROVE k = q /\ r = 0
    <3>1. p = BlockSize * q + 0
      BY <1>1, <1>2, <2>3
    <3>2. Files!Number(BlockSize * q + 0) = q /\ Files!Offset(BlockSize * q + 0) = 0
      <4>1. 0 \in Nat /\ 0 < BlockSize
        BY Widths
      <4>2. QED  BY <4>1, PositionIs, Zenon
    <3>3. QED  BY <3>1, <3>2 DEF k, r
  <2>4. k = q /\ r = 0 => p = q * BlockSize
    BY <1>1, <1>2
  <2>5. QED  BY <1>1, <1>2, <1>4, <2>2, <2>3, <2>4 DEF k, r
<1>5. QED  BY <1>1, <1>3, <1>4

LEMMA Areas ==
    ASSUME NEW p \in Nat
    PROVE  /\ p < Files!Small <=> Files!Number(p) < Direct
           /\ p = Files!Small <=> Files!Number(p) = Direct /\ Files!Offset(p) = 0
           /\ p < Files!Middle <=> Files!Number(p) < Files!Area
           /\ p = Files!Middle <=> Files!Number(p) = Files!Area /\ Files!Offset(p) = 0
           /\ p < Files!Big => Files!Number(p) < Files!Area + Pointers * Pointers
           /\ p < BlockSize <=> Files!Number(p) = 0
<1>1. Files!Middle = Files!Area * BlockSize /\ Files!Area \in Nat
  BY FileSizes
<1>2. Files!Big = (Files!Area + Pointers * Pointers) * BlockSize /\ Pointers * Pointers \in Nat
  BY FileSizes
<1>3. p < 1 * BlockSize <=> Files!Number(p) < 1
  BY Below
<1>4. p < BlockSize <=> Files!Number(p) = 0
  BY <1>3, Widths, Position
<1>5. QED  BY <1>1, <1>2, <1>4, Below, FileSizes

LEMMA Counts ==
    ASSUME NEW n \in Nat
    PROVE  /\ Files!Count(n) \in Nat \ {0}
           /\ \A i \in 0 .. n - 1 : Files!Number(i) < Files!Count(n)
           /\ n > 0 /\ Files!Offset(n) = 0 => Files!Count(n) = Files!Number(n)
           /\ Files!Offset(n) > 0 => Files!Count(n) = Files!Number(n) + 1
           /\ n <= BlockSize => Files!Count(n) = 1
           /\ \A j \in 1 .. Files!Count(n) - 1 : BlockSize * j < n
           /\ n <= Files!Big => Files!Count(n) <= Files!Area + Pointers * Pointers
<1>0. BlockSize \in Nat \ {0}
  BY Widths
<1>1. CASE n = 0
  <2>1. Files!Number(0) = 0 /\ Files!Offset(0) = 0
    BY <1>0, PositionIs
  <2>2. Files!Count(n) = 1
    BY <1>1 DEF Files!Count
  <2>3. Files!Area + Pointers * Pointers >= 1
    BY FileSizes
  <2>4. QED  BY <1>1, <2>1, <2>2, <2>3
<1>2. CASE n > 0
  <2> DEFINE k == Files!Number(n - 1)  r == Files!Offset(n - 1)
  <2>1. Files!Count(n) = k + 1 /\ n - 1 \in Nat
    BY <1>2 DEF Files!Count
  <2>2. k \in Nat /\ r \in Nat /\ r < BlockSize /\ n = BlockSize * k + r + 1
    BY <2>1, Position
  <2>3. ASSUME NEW i \in 0 .. n - 1 PROVE Files!Number(i) < k + 1
    <3>1. n - 1 < (k + 1) * BlockSize
      BY <2>1, <2>2, Below
    <3>2. i < (k + 1) * BlockSize /\ i \in Nat
      BY <3>1, <2>2, <1>0
    <3>3. QED  BY <3>2, <2>2, Below
  <2>4. ASSUME r + 1 = BlockSize
        PROVE  /\ Files!Offset(n) = 0 => Files!Count(n) = Files!Number(n)
               /\ Files!Offset(n) > 0 => Files!Count(n) = Files!Number(n) + 1
    <3>1. n = BlockSize * (k + 1) + 0 /\ k + 1 \in Nat
      BY <2>2, <2>4, <1>0
    <3>2. Files!Number(n) = k + 1 /\ Files!Offset(n) = 0
      BY <3>1, <1>0, PositionIs
    <3>3. QED  BY <3>2, <2>1, <2>2
  <2>5. ASSUME r + 1 < BlockSize
        PROVE  /\ Files!Offset(n) = 0 => Files!Count(n) = Files!Number(n)
               /\ Files!Offset(n) > 0 => Files!Count(n) = Files!Number(n) + 1
    <3>1. n = BlockSize * k + (r + 1) /\ r + 1 \in Nat
      BY <2>2, <1>0
    <3>2. Files!Number(n) = k /\ Files!Offset(n) = r + 1
      BY <3>1, <2>2, <2>5, <1>0, PositionIs
    <3>3. QED  BY <3>2, <2>1, <2>2
  <2>6. ASSUME n <= BlockSize PROVE k = 0
    BY <2>1, <2>6, <1>0, Areas
  <2>7. ASSUME NEW j \in 1 .. k PROVE BlockSize * j < n
    <3>1. BlockSize * j <= BlockSize * k
      BY <2>2, <1>0, Order
    <3>2. QED  BY <3>1, <2>2, <1>0
  <2>8. ASSUME n <= Files!Big PROVE k + 1 <= Files!Area + Pointers * Pointers
    <3>1. n - 1 < Files!Big /\ Files!Area + Pointers * Pointers \in Nat
      BY <2>1, <2>8, FileSizes
    <3>2. QED  BY <3>1, <2>1, <2>2, Areas
  <2> HIDE DEF k, r
  <2>9. Files!Offset(n) = 0 => Files!Count(n) = Files!Number(n)
    <3>1. r + 1 = BlockSize \/ r + 1 < BlockSize
      BY <2>2, <1>0
    <3>2. QED  BY <3>1, <2>1, <2>2, <2>4, <2>5, Position DEF k, r
  <2>10. Files!Offset(n) > 0 => Files!Count(n) = Files!Number(n) + 1
    <3>1. r + 1 = BlockSize \/ r + 1 < BlockSize
      BY <2>2, <1>0
    <3>2. QED  BY <3>1, <2>1, <2>2, <2>4, <2>5, Position DEF k, r
  <2>11. QED  BY <2>1, <2>2, <2>3, <2>6, <2>7, <2>8, <2>9, <2>10
<1>3. QED  BY <1>1, <1>2

LEMMA Turns ==
    ASSUME NEW k \in Nat, k >= Files!Area
    PROVE  /\ Files!Turn(k) \in Nat /\ Files!Rest(k) \in Nat /\ Files!Rest(k) < Pointers
           /\ k = Files!Area + Pointers * Files!Turn(k) + Files!Rest(k)
<1>1. k - Files!Area \in Nat /\ Pointers \in Nat \ {0} /\ Files!Area \in Nat
  BY Widths
<1> DEFINE j == k - Files!Area
<1>2. /\ j \div Pointers \in Nat /\ j % Pointers \in 0 .. Pointers - 1
      /\ j = Pointers * (j \div Pointers) + (j % Pointers)
  BY <1>1, Division, Zenon
<1> DEFINE t == j \div Pointers  r == j % Pointers
<1>3. t \in Nat /\ r \in Nat /\ r < Pointers /\ j = Pointers * t + r
  BY <1>1, <1>2
<1> HIDE DEF t, r
<1>4. k = Files!Area + Pointers * t + r
  BY <1>1, <1>3
<1>5. Files!Turn(k) = t /\ Files!Rest(k) = r
  BY DEF Files!Turn, Files!Rest, t, r
<1>6. QED  BY <1>3, <1>4, <1>5

LEMMA TurnIs ==
    ASSUME NEW t \in Nat, NEW r \in Nat, r < Pointers
    PROVE  LET k == Files!Area + Pointers * t + r
           IN k \in Nat /\ k >= Files!Area /\ Files!Turn(k) = t /\ Files!Rest(k) = r
<1>1. Pointers \in Nat \ {0} /\ Files!Area \in Nat /\ r \in 0 .. Pointers - 1
  BY Widths
<1> DEFINE j == Pointers * t + r  k == Files!Area + Pointers * t + r
<1>2. j \div Pointers = t /\ j % Pointers = r
  BY <1>1, QuotientIs, Zenon
<1>3. Pointers * t \in Nat
  BY <1>1
<1>4. k \in Nat /\ k >= Files!Area /\ k - Files!Area = j
  BY <1>1, <1>3
<1>5. QED  BY <1>2, <1>4 DEF Files!Turn, Files!Rest

\* How the turns follow each other.
LEMMA TurnNext ==
    ASSUME NEW k \in Nat, k >= Files!Area
    PROVE  /\ k < Files!Area + Pointers * Pointers => Files!Turn(k) < Pointers
           /\ k = Files!Area => Files!Turn(k) = 0 /\ Files!Rest(k) = 0
           /\ k > Files!Area /\ Files!Rest(k) = 0 => Files!Turn(k - 1) = Files!Turn(k) - 1
           /\ Files!Rest(k) > 0 => k > Files!Area /\ Files!Turn(k - 1) = Files!Turn(k)
<1>1. Pointers \in Nat \ {0} /\ Files!Area \in Nat
  BY Widths
<1> DEFINE t == Files!Turn(k)  r == Files!Rest(k)
<1>2. t \in Nat /\ r \in Nat /\ r < Pointers /\ k = Files!Area + Pointers * t + r
  BY Turns
<1> HIDE DEF t, r
<1>0. Pointers * t \in Nat
  BY <1>1, <1>2
<1>3. ASSUME k < Files!Area + Pointers * Pointers, Pointers <= t PROVE FALSE
  <2>1. Pointers * Pointers <= Pointers * t
    BY <1>1, <1>2, <1>3, Order
  <2>2. Pointers * Pointers \in Nat
    BY <1>1
  <2>3. QED  BY <1>0, <1>1, <1>2, <1>3, <2>1, <2>2
<1>4. ASSUME t > 0 PROVE Pointers * t = Pointers * (t - 1) + Pointers /\ Pointers * t > 0
  <2>1. Pointers * 1 <= Pointers * t
    BY <1>1, <1>2, <1>4, Order
  <2>2. QED  BY <1>1, <1>2, <1>4, <2>1
<1>5. ASSUME k = Files!Area PROVE t = 0 /\ r = 0
  <2>1. Pointers * t + r = 0
    BY <1>0, <1>1, <1>2, <1>5
  <2>2. QED  BY <1>0, <1>1, <1>2, <1>4, <2>1
<1>6. ASSUME k > Files!Area, r = 0 PROVE Files!Turn(k - 1) = t - 1
  <2>1. t > 0
    <3>1. t = 0 => Pointers * t = 0
      BY <1>1
    <3>2. QED  BY <1>1, <1>2, <1>6, <3>1
  <2>2. t - 1 \in Nat /\ Pointers - 1 \in Nat /\ Pointers - 1 < Pointers /\ Pointers * (t - 1) \in Nat
    BY <2>1, <1>1, <1>2
  <2>3. k - 1 = Files!Area + Pointers * (t - 1) + (Pointers - 1)
    BY <1>1, <1>2, <1>4, <1>6, <2>1, <2>2
  <2>4. QED  BY <2>2, <2>3, TurnIs
<1>7. ASSUME r > 0 PROVE k > Files!Area /\ Files!Turn(k - 1) = t
  <2>1. r - 1 \in Nat /\ r - 1 < Pointers
    BY <1>1, <1>2, <1>7
  <2>2. k - 1 = Files!Area + Pointers * t + (r - 1)
    BY <1>0, <1>1, <1>2
  <2>3. Files!Turn(Files!Area + Pointers * t + (r - 1)) = t
    BY <1>2, <2>1, TurnIs, Zenon
  <2>4. t > 0 \/ r > 0 => k > Files!Area
    BY <1>0, <1>1, <1>2, <1>7
  <2>5. QED  BY <1>7, <2>2, <2>3, <2>4
<1>8. ~ (Pointers <= t) => t < Pointers
  BY <1>1, <1>2
<1>9. QED  BY <1>3, <1>5, <1>6, <1>7, <1>8 DEF t, r

LEMMA TurnsGrow ==
    ASSUME NEW j \in Nat, NEW k \in Nat, j >= Files!Area, j <= k
    PROVE  /\ Files!Turn(j) <= Files!Turn(k)
           /\ Files!Turn(j) = Files!Turn(k) /\ Files!Rest(j) = Files!Rest(k) => j = k
<1>1. Pointers \in Nat \ {0} /\ Files!Area \in Nat /\ k >= Files!Area
  BY Widths
<1> DEFINE t == Files!Turn(k)  r == Files!Rest(k)  u == Files!Turn(j)  s == Files!Rest(j)
<1>2. /\ t \in Nat /\ r \in Nat /\ r < Pointers /\ k = Files!Area + Pointers * t + r
      /\ u \in Nat /\ s \in Nat /\ s < Pointers /\ j = Files!Area + Pointers * u + s
  BY <1>1, Turns
<1> HIDE DEF t, r, u, s
<1>3. ASSUME t + 1 <= u PROVE FALSE
  <2>1. Pointers * (t + 1) <= Pointers * u /\ Pointers * (t + 1) = Pointers * t + Pointers
    BY <1>1, <1>2, <1>3, Order
  <2>2. Pointers * t \in Nat /\ Pointers * u \in Nat
    BY <1>1, <1>2
  <2>3. QED  BY <1>1, <1>2, <2>1, <2>2
<1>4. t + 1 <= u \/ u <= t
  BY <1>2
<1>5. QED  BY <1>2, <1>3, <1>4 DEF t, r, u, s

LEMMA InPlaces ==
    ASSUME NEW n \in Nat \ {0}, NEW x
    PROVE  x \in Files!Places(n) <=>
             \/ \E j \in 0 .. n - 1 : x = <<"data", j>>
             \/ n > Direct /\ x = <<"first", 0>>
             \/ n > Files!Area /\ x = <<"second", 0>>
             \/ n > Files!Area /\ \E i \in 0 .. Files!Turn(n - 1) : x = <<"index", i>>
<1>1. x \in {"data"} \X (0 .. n - 1) <=> \E j \in 0 .. n - 1 : x = <<"data", j>>
  OBVIOUS
<1>2. x \in {y \in {"first"} \X {0} : n > Direct} <=> n > Direct /\ x = <<"first", 0>>
  OBVIOUS
<1>3. x \in {y \in {"second"} \X {0} : n > Files!Area} <=> n > Files!Area /\ x = <<"second", 0>>
  OBVIOUS
<1>4. x \in {y \in {"index"} \X (0 .. Files!Turn(n - 1)) : n > Files!Area} <=>
          n > Files!Area /\ \E i \in 0 .. Files!Turn(n - 1) : x = <<"index", i>>
  OBVIOUS
<1>5. QED  BY <1>1, <1>2, <1>3, <1>4, Zenon DEF Files!Places

\* The places that one more block of data needs.
LEMMA PlacesGrow ==
    ASSUME NEW k \in Nat \ {0}, NEW x
    PROVE  x \in Files!Places(k + 1) <=>
             \/ x \in Files!Places(k)
             \/ x = <<"data", k>>
             \/ k = Direct /\ x = <<"first", 0>>
             \/ k = Files!Area /\ x = <<"second", 0>>
             \/ k >= Files!Area /\ Files!Rest(k) = 0 /\ x = <<"index", Files!Turn(k)>>
<1>1. k + 1 \in Nat \ {0} /\ Direct \in Nat /\ Files!Area \in Nat /\ (k + 1) - 1 = k
  BY Widths
<1>2. x \in Files!Places(k + 1) <=>
             \/ \E j \in 0 .. k : x = <<"data", j>>
             \/ k + 1 > Direct /\ x = <<"first", 0>>
             \/ k + 1 > Files!Area /\ x = <<"second", 0>>
             \/ k + 1 > Files!Area /\ \E i \in 0 .. Files!Turn(k) : x = <<"index", i>>
  BY <1>1, InPlaces
<1>3. x \in Files!Places(k) <=>
             \/ \E j \in 0 .. k - 1 : x = <<"data", j>>
             \/ k > Direct /\ x = <<"first", 0>>
             \/ k > Files!Area /\ x = <<"second", 0>>
             \/ k > Files!Area /\ \E i \in 0 .. Files!Turn(k - 1) : x = <<"index", i>>
  BY InPlaces
<1>4. CASE k < Files!Area
  BY <1>1, <1>2, <1>3, <1>4
<1>5. CASE k = Files!Area
  <2>1. Files!Turn(k) = 0 /\ Files!Rest(k) = 0
    BY <1>1, <1>5, TurnNext
  <2>2. QED  BY <1>1, <1>2, <1>3, <1>5, <2>1
<1>6. CASE k > Files!Area
  <2>1. /\ Files!Turn(k) \in Nat /\ Files!Rest(k) \in Nat
        /\ k > Files!Area /\ Files!Rest(k) = 0 => Files!Turn(k - 1) = Files!Turn(k) - 1
        /\ Files!Rest(k) > 0 => k > Files!Area /\ Files!Turn(k - 1) = Files!Turn(k)
    BY <1>1, <1>6, TurnNext, Turns
  <2>2. CASE Files!Rest(k) = 0
    BY <1>1, <1>2, <1>3, <1>6, <2>1, <2>2
  <2>3. CASE Files!Rest(k) > 0
    BY <1>1, <1>2, <1>3, <1>6, <2>1, <2>3
  <2>4. QED  BY <2>1, <2>2, <2>3
<1>7. QED  BY <1>1, <1>4, <1>5, <1>6

\* Places of blocks of data, and of the index blocks on the way.
LEMMA OnTheWay ==
    ASSUME NEW n \in Nat \ {0}, NEW j \in 0 .. n - 1
    PROVE  /\ <<"data", j>> \in Files!Places(n)
           /\ j >= Direct => <<"first", 0>> \in Files!Places(n)
           /\ j >= Files!Area => /\ <<"second", 0>> \in Files!Places(n)
                                 /\ Files!Turn(j) \in Nat /\ <<"index", Files!Turn(j)>> \in Files!Places(n)
<1>1. Direct \in Nat /\ Files!Area \in Nat /\ n - 1 \in Nat
  BY Widths
<1>2. j >= Files!Area => Files!Turn(j) \in Nat /\ Files!Turn(j) <= Files!Turn(n - 1) /\ Files!Turn(n - 1) \in Nat
  BY <1>1, TurnsGrow, Turns
<1>3. QED  BY <1>1, <1>2, InPlaces

LEMMA PlacesMonotone ==
    ASSUME NEW n \in Nat \ {0}
    PROVE  /\ Files!Places(n) \subseteq Files!Places(n + 1)
           /\ <<"data", 0>> \in Files!Places(n)
<1>1. 0 \in 0 .. n - 1
  OBVIOUS
<1>2. <<"data", 0>> \in Files!Places(n)
  BY <1>1, OnTheWay
<1>3. QED  BY <1>2, PlacesGrow

\* The block of a place depends on the index blocks only.
LEMMA AtStays ==
    ASSUME NEW m1, NEW m2, NEW v, NEW n \in Nat \ {0},
           \A x \in Files!Places(n) : x[1] # "data" => m2[Files!At(m1, v, x)] = m1[Files!At(m1, v, x)]
    PROVE  \A x \in Files!Places(n) : Files!At(m2, v, x) = Files!At(m1, v, x)
<1>1. Direct \in Nat /\ Files!Area \in Nat /\ Files!Area >= Direct
  BY Widths
<1>2. <<"first", 0>> \in Files!Places(n) => m2[v.first] = m1[v.first]
  BY DEF Files!At
<1>3. <<"second", 0>> \in Files!Places(n) => m2[v.second] = m1[v.second]
  BY DEF Files!At
<1>4. ASSUME NEW i, <<"index", i>> \in Files!Places(n)
      PROVE  m2[m1[v.second][i]] = m1[m1[v.second][i]]
  BY <1>4 DEF Files!At
<1>5. ASSUME NEW j \in 0 .. n - 1 PROVE Files!DataAt(m2, v, j) = Files!DataAt(m1, v, j)
  <2>1. j \in Nat
    OBVIOUS
  <2>2. CASE j < Direct
    BY <2>2 DEF Files!DataAt
  <2>3. CASE j >= Direct /\ j < Files!Area
    <3>1. m2[v.first] = m1[v.first]
      BY <2>3, <1>2, OnTheWay
    <3>2. ~ (j < Direct)
      BY <1>1, <2>1, <2>3
    <3>3. QED  BY <2>3, <3>1, <3>2 DEF Files!DataAt
  <2>4. CASE j >= Files!Area
    <3>1. <<"second", 0>> \in Files!Places(n) /\ <<"index", Files!Turn(j)>> \in Files!Places(n)
      BY <2>4, OnTheWay
    <3>2. m2[v.second] = m1[v.second]
      BY <3>1, <1>3
    <3>3. m2[m1[v.second][Files!Turn(j)]] = m1[m1[v.second][Files!Turn(j)]]
      BY <3>1, <1>4
    <3>4. ~ (j < Direct) /\ ~ (j < Files!Area)
      BY <1>1, <2>1, <2>4
    <3>5. QED  BY <3>2, <3>3, <3>4 DEF Files!DataAt
  <2>5. QED  BY <1>1, <2>1, <2>2, <2>3, <2>4
<1>6. ASSUME NEW i \in 0 .. Files!Turn(n - 1), n > Files!Area
      PROVE  m2[v.second][i] = m1[v.second][i]
  BY <1>3, <1>6, InPlaces
<1>7. QED  BY <1>5, <1>6, InPlaces DEF Files!At

\* The way to a position, by the number of its block.
LEMMA WayIs ==
    ASSUME NEW m, NEW v, NEW p \in Nat
    PROVE  LET k == Files!Number(p) IN
           /\ Files!DataBlock(m, v, p) = Files!DataAt(m, v, k)
           /\ \A y : y \in Files!Way(m, v, p) <=>
                 \/ y = Files!DataAt(m, v, k)
                 \/ k >= Direct /\ k < Files!Area /\ y = v.first
                 \/ k >= Files!Area /\ (y = v.second \/ y = m[v.second][Files!Turn(k)])
<1> DEFINE k == Files!Number(p)
<1>1. k \in Nat /\ Direct \in Nat /\ Files!Area \in Nat /\ Files!Area >= Direct
  BY Position, Widths
<1>2. (p < Files!Small <=> k < Direct) /\ (p < Files!Middle <=> k < Files!Area)
  BY Areas
<1>3. Files!Doubly(p) = k - Files!Area
  BY <1>1, Widths DEF Files!Doubly
<1>4. Files!DataBlock(m, v, p) = Files!DataAt(m, v, k)
  <2>1. CASE k < Direct
    BY <1>2, <2>1 DEF Files!DataBlock, Files!DataAt
  <2>2. CASE ~ (k < Direct) /\ k < Files!Area
    BY <1>2, <2>2 DEF Files!DataBlock, Files!DataAt
  <2>3. CASE ~ (k < Direct) /\ ~ (k < Files!Area)
    BY <1>2, <1>3, <2>3 DEF Files!DataBlock, Files!DataAt, Files!Turn, Files!Rest
  <2>4. QED  BY <1>1, <2>1, <2>2, <2>3
<1> HIDE DEF k
<1>5. ASSUME NEW y
      PROVE  y \in Files!Way(m, v, p) <=>
                 \/ y = Files!DataAt(m, v, k)
                 \/ k >= Direct /\ k < Files!Area /\ y = v.first
                 \/ k >= Files!Area /\ (y = v.second \/ y = m[v.second][Files!Turn(k)])
  <2>1. CASE k < Direct
    <3>1. Files!IndexBlocks(m, v, p) = <<>>
      BY <1>2, <2>1 DEF Files!IndexBlocks
    <3>2. Files!ToSet(<<>>) = {}
      BY DEF Files!ToSet
    <3>3. QED  BY <1>1, <1>4, <2>1, <3>1, <3>2 DEF Files!Way, k
  <2>2. CASE ~ (k < Direct) /\ k < Files!Area
    <3>1. Files!IndexBlocks(m, v, p) = <<v.first>>
      BY <1>2, <2>2 DEF Files!IndexBlocks
    <3>2. Files!ToSet(<<v.first>>) = {v.first}
      BY DEF Files!ToSet
    <3>3. QED  BY <1>1, <1>4, <2>2, <3>1, <3>2 DEF Files!Way, k
  <2>3. CASE ~ (k < Direct) /\ ~ (k < Files!Area)
    <3>1. Files!IndexBlocks(m, v, p) = <<v.second, m[v.second][Files!Turn(k)]>>
      BY <1>2, <1>3, <2>3 DEF Files!IndexBlocks, Files!Turn
    <3>2. Files!ToSet(<<v.second, m[v.second][Files!Turn(k)]>>) = {v.second, m[v.second][Files!Turn(k)]}
      BY DEF Files!ToSet
    <3>3. QED  BY <1>1, <1>4, <2>3, <3>1, <3>2 DEF Files!Way, k
  <2>4. QED  BY <1>1, <2>1, <2>2, <2>3
<1>6. QED  BY <1>4, <1>5 DEF k

----------------------------------------------------------------------------
(* Allocation                                                              *)

LEMMA LowestIn ==
    ASSUME NEW S \in SUBSET Nat, S # {}
    PROVE  Files!Lowest(S) \in S /\ \A y \in S : Files!Lowest(S) <= y
BY Least DEF Files!Lowest

\* Each time a free block, and another one.
LEMMA FreshBlocks ==
    ASSUME c \in SUBSET Files!Blocks, Files!Cardinality(Files!Blocks \ c) >= 3
    PROVE  /\ Files!Fresh[1] \in Files!Blocks \ c /\ Files!Fresh[2] \in Files!Blocks \ c
           /\ Files!Fresh[3] \in Files!Blocks \ c
           /\ Files!Fresh[1] # Files!Fresh[2] /\ Files!Fresh[1] # Files!Fresh[3] /\ Files!Fresh[2] # Files!Fresh[3]
<1> DEFINE S == Files!Blocks \ c
           x == Files!Lowest(S)
           y == Files!Lowest(S \ {x})
           z == Files!Lowest(S \ {x, y})
<1>1. S \in SUBSET Nat /\ IsFiniteSet(S)
  <2>1. IsFiniteSet(0 .. NumBlocks - 1) /\ 0 .. NumBlocks - 1 \subseteq Nat
    BY FS_Interval, Widths
  <2>2. QED  BY <2>1, FS_Subset DEF Files!Blocks
<1>2. Cardinality(S) >= 3 /\ Cardinality(S) \in Nat
  <2>1. Files!Cardinality(S) = Cardinality(S)
    BY DEF Files!Cardinality, Cardinality, Files!IsFiniteSet, IsFiniteSet
  <2>2. QED  BY <1>1, <2>1, FS_CardinalityType
<1> HIDE DEF S
<1>3. Cardinality({}) = 0
  BY FS_EmptySet
<1>4. x \in S
  <2>1. S # {}
    BY <1>2, <1>3
  <2>2. QED  BY <1>1, <2>1, LowestIn
<1> HIDE DEF x
<1>5. IsFiniteSet(S \ {x}) /\ Cardinality(S \ {x}) = Cardinality(S) - 1
  BY <1>1, <1>4, FS_RemoveElement
<1>6. y \in S \ {x}
  <2>1. S \ {x} # {}
    BY <1>2, <1>3, <1>5
  <2>2. QED  BY <1>1, <2>1, LowestIn
<1> HIDE DEF y
<1>7. Cardinality((S \ {x}) \ {y}) = Cardinality(S) - 2
  <2>1. Cardinality((S \ {x}) \ {y}) = Cardinality(S \ {x}) - 1
    BY <1>5, <1>6, FS_RemoveElement
  <2>2. QED  BY <1>2, <1>5, <2>1
<1>8. z \in S \ {x, y}
  <2>1. (S \ {x}) \ {y} = S \ {x, y}
    OBVIOUS
  <2>2. S \ {x, y} # {}
    BY <1>2, <1>3, <1>7, <2>1
  <2>3. QED  BY <1>1, <2>2, LowestIn
<1>9. Files!Fresh = <<x, y, z>>
  BY DEF Files!Fresh, S, x, y
<1>10. QED  BY <1>4, <1>6, <1>8, <1>9 DEF S

\* The same when the inode changes too, or slots of index blocks that no place uses.
SlotsSame(m1, m2, v1, v2, n) ==
    /\ \A j \in 0 .. n - 1 :
           /\ j < Direct => v2.direct[j] = v1.direct[j]
           /\ j >= Direct => v2.first = v1.first
           /\ j >= Direct /\ j < Files!Area => m2[v1.first][j - Direct] = m1[v1.first][j - Direct]
           /\ j >= Files!Area =>
                 m2[m1[v1.second][Files!Turn(j)]][Files!Rest(j)] = m1[m1[v1.second][Files!Turn(j)]][Files!Rest(j)]
    /\ n > Files!Area => /\ v2.second = v1.second
                         /\ \A i \in 0 .. Files!Turn(n - 1) : m2[v1.second][i] = m1[v1.second][i]

LEMMA AtSame ==
    ASSUME NEW m1, NEW m2, NEW v1, NEW v2, NEW n \in Nat \ {0}, SlotsSame(m1, m2, v1, v2, n)
    PROVE  \A x \in Files!Places(n) : Files!At(m2, v2, x) = Files!At(m1, v1, x)
<1>0. /\ \A j \in 0 .. n - 1 :
           /\ j < Direct => v2.direct[j] = v1.direct[j]
           /\ j >= Direct => v2.first = v1.first
           /\ j >= Direct /\ j < Files!Area => m2[v1.first][j - Direct] = m1[v1.first][j - Direct]
           /\ j >= Files!Area =>
                 m2[m1[v1.second][Files!Turn(j)]][Files!Rest(j)] = m1[m1[v1.second][Files!Turn(j)]][Files!Rest(j)]
      /\ n > Files!Area => /\ v2.second = v1.second
                           /\ \A i \in 0 .. Files!Turn(n - 1) : m2[v1.second][i] = m1[v1.second][i]
  BY DEF SlotsSame
<1>1. Direct \in Nat /\ Files!Area \in Nat /\ Files!Area >= Direct
  BY Widths
<1>2. ASSUME NEW j \in 0 .. n - 1 PROVE Files!DataAt(m2, v2, j) = Files!DataAt(m1, v1, j)
  <2>1. j \in Nat
    OBVIOUS
  <2>2. CASE j < Direct
    BY <1>0, <2>2 DEF Files!DataAt
  <2>3. CASE ~ (j < Direct) /\ j < Files!Area
    BY <1>0, <1>1, <2>1, <2>3 DEF Files!DataAt
  <2>4. CASE ~ (j < Direct) /\ ~ (j < Files!Area)
    <3>1. n > Files!Area /\ Files!Turn(j) \in 0 .. Files!Turn(n - 1)
      <4>1. j >= Files!Area /\ n - 1 \in Nat /\ j <= n - 1 /\ n - 1 >= Files!Area
        BY <1>1, <2>1, <2>4
      <4>2. QED  BY <4>1, <1>1, TurnsGrow, Turns
    <3>2. v2.second = v1.second /\ m2[v1.second][Files!Turn(j)] = m1[v1.second][Files!Turn(j)]
      BY <1>0, <3>1
    <3>3. j >= Files!Area
      BY <1>1, <2>1, <2>4
    <3>4. QED  BY <1>0, <2>4, <3>2, <3>3 DEF Files!DataAt
  <2>5. QED  BY <2>2, <2>3, <2>4
<1>3. QED
  <2>1. SUFFICES ASSUME NEW x \in Files!Places(n) PROVE Files!At(m2, v2, x) = Files!At(m1, v1, x)
    OBVIOUS
  <2>2. CASE \E j \in 0 .. n - 1 : x = <<"data", j>>
    BY <1>2, <2>2 DEF Files!At
  <2>3. CASE n > Direct /\ x = <<"first", 0>>
    <3>1. Direct \in 0 .. n - 1
      BY <1>1, <2>3
    <3>2. v2.first = v1.first
      BY <1>0, <1>1, <3>1
    <3>3. QED  BY <2>3, <3>2 DEF Files!At
  <2>4. CASE n > Files!Area /\ x = <<"second", 0>>
    BY <1>0, <2>4 DEF Files!At
  <2>5. CASE n > Files!Area /\ \E i \in 0 .. Files!Turn(n - 1) : x = <<"index", i>>
    BY <1>0, <2>5 DEF Files!At
  <2>6. QED  BY <2>2, <2>3, <2>4, <2>5, InPlaces

----------------------------------------------------------------------------
(* A call of write                                                         *)

\* Users keep every promise.
KeepAll == Files!Promises \subseteq Discipline

\* A write of n cells at p, in block k of file o, whose inode is v.
Writing(o, p, n, k, v) ==
    /\ KeepAll /\ Files!FilesInv /\ Files!WriteStep
    /\ o = a[f.fd].file /\ p = f.from /\ n = f.todo /\ k = Files!Number(p) /\ v = b[o]

Inodes == [direct : [0 .. Direct - 1 -> Files!Blocks], first : Files!Blocks, second : Files!Blocks]
Stores == [Files!Blocks -> [Files!Cells -> Nat]]

LEMMA WritingFacts ==
    ASSUME NEW o, NEW p, NEW n, NEW k, NEW v, Writing(o, p, n, k, v)
    PROVE  /\ f # Files!NoCall /\ f.kind = "write" /\ f.buffer \in Seq(Nat) /\ Len(f.buffer) = n
           /\ f.fd \in Files!Fd /\ a[f.fd].writePos = p /\ Files!Chunk(p) = n
           /\ o \in File /\ p \in Nat /\ n \in Nat \ {0} /\ k \in Nat /\ v \in Inodes
           /\ p <= Len(g[o]) /\ p + n <= Limit[o] /\ Files!Offset(p) + n <= BlockSize
           /\ k = 0 \/ p = Len(g[o])
           /\ k = 0 \/ k >= Direct \/ Files!Offset(p) = 0
           /\ \A y \in Files!Present(v, p) \cup Files!PresentData(v, p) : d[y] = e[y]
           /\ \A x \in File : Files!Extent(x) = Len(g[x]) /\ Len(g[x]) \in Nat
           /\ d \in Stores /\ e \in Stores
<1>1. /\ f # Files!NoCall /\ f.kind = "write" /\ f.todo > 0
      /\ Files!FilesTyped /\ Files!Calling
      /\ o = a[f.fd].file /\ p = f.from /\ n = f.todo /\ k = Files!Number(p) /\ v = b[o]
  BY Zenon DEF Writing, Files!FilesInv, Files!WriteStep
<1>2. f.buffer \in Seq(Nat) /\ n \in Nat /\ g \in [File -> Seq(Nat)] /\ b \in [File -> Inodes]
      /\ d \in Stores /\ e \in Stores
  BY <1>1 DEF Files!FilesTyped, Inodes, Stores
<1>3. /\ f.fd \in Files!Fd /\ o \in File /\ p \in Nat /\ Len(f.buffer) = n
      /\ a[f.fd].writePos = p /\ Files!Allowed(o, p, n)
  BY <1>1, <1>2 DEF Files!Calling
<1>4. {"writes", "append", "start", "warm"} \subseteq Discipline
  BY DEF Writing, KeepAll, Files!Promises
<1>5. /\ p <= Len(g[o]) /\ p + n <= Limit[o]
      /\ Files!Offset(p) + n <= BlockSize
      /\ p < BlockSize \/ p = Len(g[o])
      /\ p \notin BlockSize .. Files!Small - 1 \/ Files!Offset(p) = 0
      /\ \A y \in Files!Present(v, p) \cup Files!PresentData(v, p) : d[y] = e[y]
  BY <1>1, <1>3, <1>4 DEF Files!Allowed
<1>6. k \in Nat /\ (p < BlockSize <=> k = 0) /\ (p < Files!Small <=> k < Direct) /\ Files!Offset(p) \in Nat
  BY <1>1, <1>3, Areas, Position
<1>7. k = 0 \/ k >= Direct \/ Files!Offset(p) = 0
  <2>1. BlockSize \in Nat /\ Direct \in Nat /\ Files!Small \in Nat
    BY FileSizes
  <2>2. QED  BY <1>3, <1>5, <1>6, <2>1
<1>8. Files!Chunk(p) = n
  <2>1. {f.todo, BlockSize - Files!Offset(p)} \in SUBSET Nat /\ n <= BlockSize - Files!Offset(p)
    BY <1>1, <1>2, <1>5, <1>6, Widths
  <2> DEFINE S == {f.todo, BlockSize - Files!Offset(p)}
  <2>2. Files!Lowest(S) \in S /\ \A y \in S : Files!Lowest(S) <= y
    BY <2>1, LowestIn
  <2>3. Files!Lowest(S) <= n /\ Files!Lowest(S) \in {n, BlockSize - Files!Offset(p)}
    BY <1>1, <2>2
  <2>4. Files!Lowest(S) = n
    BY <1>2, <2>1, <2>3
  <2>5. QED  BY <2>4 DEF Files!Chunk
<1>9. \A x \in File : Files!Extent(x) = Len(g[x]) /\ Len(g[x]) \in Nat
  <2>1. \A x \in File : ~ Files!Written(x)
    BY <1>1, <1>2 DEF Files!Written
  <2>2. QED  BY <1>2, <2>1 DEF Files!Extent
<1>10. n \in Nat \ {0} /\ v \in Inodes
  BY <1>1, <1>2, <1>3
<1>11. QED  BY <1>1, <1>2, <1>3, <1>5, <1>6, <1>7, <1>8, <1>9, <1>10

\* What write may count on in the blocks of its file: they are apart, none is block 0, and
\* there are slots for what is to come.
LEMMA OwnBlocks ==
    ASSUME NEW o, NEW p, NEW n, NEW k, NEW v, Writing(o, p, n, k, v), NEW n1, n1 = Files!Count(Len(g[o]))
    PROVE  /\ n1 \in Nat \ {0} /\ Files!Places(n1) = Files!Has(o)
           /\ \A x \in Files!Places(n1) : Files!At(e, v, x) \in c /\ Files!At(e, v, x) # 0
                                          /\ Files!At(e, v, x) \in Files!Blocks
           /\ \A x, y \in Files!Places(n1) : Files!At(e, v, x) = Files!At(e, v, y) => x = y
           /\ n1 > Files!Area => \A i \in Files!Turn(n1 - 1) + 1 .. Pointers - 1 : e[v.second][i] = 0
           /\ \A y \in Files!Blocks \ c : e[y] = Files!Blank[y] /\ d[y] = Files!Blank[y]
           /\ c \subseteq Files!Blocks /\ 0 \in c
<1>1. /\ o \in File /\ v = b[o] /\ Files!Extent(o) = Len(g[o]) /\ Len(g[o]) \in Nat
      /\ Files!FilesTyped /\ Files!EachItsOwn /\ Files!AllMarked /\ Files!FreeBlank /\ Files!NoMoreIndices
  BY WritingFacts DEF Writing, Files!FilesInv
<1>2. n1 \in Nat \ {0}
  BY <1>1, Counts
<1>3. Files!Places(n1) = Files!Has(o) /\ \A x : Files!BlockAt(o, x) = Files!At(e, v, x)
  BY <1>1 DEF Files!Has, Files!BlockAt
<1>4. c \subseteq Files!Blocks /\ 0 \in c
  BY <1>1 DEF Files!FilesTyped
<1>5. \A x \in Files!Places(n1) : Files!At(e, v, x) \in c \ {0}
  BY <1>1, <1>3 DEF Files!AllMarked
<1>6. \A x, y \in Files!Places(n1) : Files!At(e, v, x) = Files!At(e, v, y) => x = y
  BY <1>1, <1>3 DEF Files!EachItsOwn
<1>7. n1 > Files!Area => \A i \in Files!Turn(n1 - 1) + 1 .. Pointers - 1 : e[v.second][i] = 0
  BY <1>1 DEF Files!NoMoreIndices
<1>8. \A y \in Files!Blocks \ c : e[y] = Files!Blank[y] /\ d[y] = Files!Blank[y]
  BY <1>1 DEF Files!FreeBlank
<1>9. QED  BY <1>2, <1>3, <1>4, <1>5, <1>6, <1>7, <1>8

\* How many blocks of data there are before and after.
LEMMA CountsOfWrite ==
    ASSUME NEW o, NEW p, NEW n, NEW k, NEW v, Writing(o, p, n, k, v),
           NEW n1, n1 = Files!Count(Len(g[o])),
           NEW n2, n2 = Files!Count(IF p + n > Len(g[o]) THEN p + n ELSE Len(g[o]))
    PROVE  /\ n1 \in Nat \ {0} /\ n2 \in Nat \ {0} /\ k < n2
           /\ k < Files!Area + Pointers * Pointers
           /\ k = 0 => n1 = n2
           /\ k # 0 => n2 = k + 1
           /\ k # 0 /\ Files!Offset(p) = 0 => n1 = k
           /\ k # 0 /\ Files!Offset(p) # 0 => n1 = k + 1
<1>1. /\ p \in Nat /\ n \in Nat \ {0} /\ k \in Nat /\ k = Files!Number(p)
      /\ Files!Offset(p) \in Nat /\ Files!Offset(p) + n <= BlockSize /\ p <= Len(g[o]) /\ Len(g[o]) \in Nat
      /\ k = 0 \/ p = Len(g[o])
      /\ o \in File /\ p + n <= Limit[o]
      /\ BlockSize \in Nat \ {0}
  <2>1. /\ p \in Nat /\ n \in Nat \ {0} /\ k \in Nat
        /\ Files!Offset(p) + n <= BlockSize /\ p <= Len(g[o]) /\ o \in File /\ p + n <= Limit[o]
        /\ \A x \in File : Len(g[x]) \in Nat
        /\ k = 0 \/ p = Len(g[o])
    BY WritingFacts
  <2>2. k = Files!Number(p)
    BY DEF Writing
  <2>3. QED  BY <2>1, <2>2, Position, Widths
<1> DEFINE E == IF p + n > Len(g[o]) THEN p + n ELSE Len(g[o])
<1>2. E \in Nat /\ E > p /\ E >= p + n
  <2>1. CASE p + n > Len(g[o])
    BY <1>1, <2>1
  <2>2. CASE ~ (p + n > Len(g[o]))
    BY <1>1, <2>2
  <2>3. QED  BY <2>1, <2>2
<1>3. n1 \in Nat \ {0} /\ n2 \in Nat \ {0} /\ k < n2
  <2>1. p \in 0 .. E - 1
    BY <1>1, <1>2
  <2>2. QED  BY <1>1, <1>2, <2>1, Counts
<1>4. k < Files!Area + Pointers * Pointers
  <2>1. Limit[o] <= Files!Big /\ Limit[o] \in Nat /\ Files!Big \in Nat
    BY <1>1, FileSizes
  <2>2. p < Files!Big
    BY <1>1, <2>1
  <2>3. QED  BY <1>1, <2>2, Areas
<1>5. ASSUME k = 0 PROVE n1 = n2
  <2>1. CASE E = Len(g[o])
    BY <2>1
  <2>2. CASE E = p + n /\ p + n > Len(g[o])
    <3>0. p = BlockSize * 0 + Files!Offset(p) /\ BlockSize * 0 = 0
      <4>1. p = BlockSize * Files!Number(p) + Files!Offset(p)
        BY <1>1, Position
      <4>2. BlockSize * 0 = 0
        BY <1>1
      <4>3. Files!Number(p) = 0
        BY <1>1, <1>5
      <4>4. QED  BY <4>1, <4>2, <4>3, Zenon
    <3>1. E <= BlockSize /\ Len(g[o]) <= BlockSize
      BY <1>1, <2>2, <3>0
    <3>2. QED  BY <1>1, <1>2, <3>1, Counts
  <2>3. QED  BY <1>1, <2>1, <2>2
<1>6. ASSUME k # 0 PROVE n2 = k + 1
  <2>1. E = p + n /\ p = Len(g[o])
    BY <1>1, <1>6
  <2> DEFINE r == Files!Offset(p)
  <2>0. p = BlockSize * k + r /\ BlockSize * k \in Nat /\ r \in Nat
    <3>1. p = BlockSize * Files!Number(p) + Files!Offset(p)
      BY <1>1, Position
    <3>2. BlockSize * k \in Nat
      BY <1>1
    <3>3. QED  BY <1>1, <3>1, <3>2
  <2> HIDE DEF r
  <2>2. p + n - 1 = BlockSize * k + (r + n - 1) /\ r + n - 1 \in Nat
        /\ r + n - 1 < BlockSize
    <3>1. r + n <= BlockSize
      BY <1>1 DEF r
    <3>2. QED  BY <1>1, <2>0, <3>1
  <2>3. Files!Number(p + n - 1) = k
    BY <1>1, <2>2, PositionIs
  <2>4. QED  BY <1>1, <2>1, <2>3 DEF Files!Count
<1>7. ASSUME k # 0 PROVE /\ Files!Offset(p) = 0 => n1 = k
                         /\ Files!Offset(p) # 0 => n1 = k + 1
  <2>1. p = Len(g[o]) /\ p > 0
    BY <1>1, <1>7, Areas
  <2>2. /\ p > 0 /\ Files!Offset(p) = 0 => Files!Count(p) = Files!Number(p)
        /\ Files!Offset(p) > 0 => Files!Count(p) = Files!Number(p) + 1
    BY <1>1, Counts
  <2>3. QED  BY <1>1, <2>1, <2>2
<1>8. QED  BY <1>3, <1>4, <1>5, <1>6, <1>7

----------------------------------------------------------------------------
(* What Grown allocates                                                    *)

LEMMA Needs ==
    ASSUME NEW p \in Nat
    PROVE  LET k == Files!Number(p) IN
           /\ k \in Nat
           /\ Files!First(p) <=> k = Direct /\ Files!Offset(p) = 0
           /\ Files!Second(p) <=> k = Files!Area /\ Files!Offset(p) = 0
           /\ Files!Index(p) <=> k >= Files!Area /\ Files!Offset(p) = 0 /\ Files!Rest(k) = 0
           /\ Files!Data(p) <=> IF k < Direct THEN k # 0 ELSE Files!Offset(p) = 0
           /\ Files!Doubly(p) \div Pointers = Files!Turn(k) /\ Files!Doubly(p) % Pointers = Files!Rest(k)
           /\ p < Files!Small <=> k < Direct
           /\ p < Files!Middle <=> k < Files!Area
           /\ p >= Files!Small <=> ~ (k < Direct)
<1> DEFINE k == Files!Number(p)
<1>1. /\ p < Files!Small <=> k < Direct
      /\ p = Files!Small <=> k = Direct /\ Files!Offset(p) = 0
      /\ p < Files!Middle <=> k < Files!Area
      /\ p = Files!Middle <=> k = Files!Area /\ Files!Offset(p) = 0
  BY Areas
<1>2. k \in Nat /\ Direct \in Nat /\ Files!Area \in Nat /\ Files!Area = Direct + Pointers /\ Pointers \in Nat
  BY Position, Widths
<1>3. Files!Doubly(p) = k - Files!Area
  BY <1>2 DEF Files!Doubly
<1>4. Files!Small \in Nat /\ Files!Middle \in Nat
  BY FileSizes
<1>5. p >= Files!Middle <=> k >= Files!Area
  BY <1>1, <1>2, <1>4
<1>6. p >= Files!Small <=> ~ (k < Direct)
  BY <1>1, <1>2, <1>4
<1>7. Files!Doubly(p) \div Pointers = Files!Turn(k) /\ Files!Doubly(p) % Pointers = Files!Rest(k)
  BY <1>3 DEF Files!Turn, Files!Rest
<1>8. QED  BY <1>1, <1>2, <1>5, <1>6, <1>7 DEF Files!First, Files!Second, Files!Index, Files!Data

\* Its memory, step by step.
GrownBy(v, p, i2, i3, top, m1, leaf, slot) ==
    /\ i2 = (IF Files!First(p) \/ Files!Second(p) THEN 1 ELSE 0) + (IF Files!Index(p) THEN 1 ELSE 0)
    /\ i3 = i2 + (IF Files!Data(p) THEN 1 ELSE 0)
    /\ top = IF Files!First(p) \/ Files!Second(p) THEN Files!Fresh[1]
             ELSE IF p < Files!Middle THEN v.first ELSE v.second
    /\ m1 = IF Files!Index(p) THEN [d EXCEPT ![top][Files!Doubly(p) \div Pointers] = Files!Fresh[i2]]
            ELSE d
    /\ leaf = IF p < Files!Middle THEN top ELSE m1[top][Files!Doubly(p) \div Pointers]
    /\ slot = IF p < Files!Middle THEN Files!Number(p) - Direct ELSE Files!Doubly(p) % Pointers
    /\ Files!Grown(v, p).memory =
          IF Files!Data(p) /\ p >= Files!Small THEN [m1 EXCEPT ![leaf][slot] = Files!Fresh[i3]] ELSE m1

LEMMA GrownMemory ==
    ASSUME NEW p, NEW v
    PROVE  \E i2, i3, top, m1, leaf, slot : GrownBy(v, p, i2, i3, top, m1, leaf, slot)
<1> DEFINE i2 == (IF Files!First(p) \/ Files!Second(p) THEN 1 ELSE 0) + (IF Files!Index(p) THEN 1 ELSE 0)
           i3 == i2 + (IF Files!Data(p) THEN 1 ELSE 0)
           top == IF Files!First(p) \/ Files!Second(p) THEN Files!Fresh[1]
                  ELSE IF p < Files!Middle THEN v.first ELSE v.second
           m1 == IF Files!Index(p) THEN [d EXCEPT ![top][Files!Doubly(p) \div Pointers] = Files!Fresh[i2]] ELSE d
           leaf == IF p < Files!Middle THEN top ELSE m1[top][Files!Doubly(p) \div Pointers]
           slot == IF p < Files!Middle THEN Files!Number(p) - Direct ELSE Files!Doubly(p) % Pointers
<1>1. Files!Grown(v, p).memory =
          IF Files!Data(p) /\ p >= Files!Small THEN [m1 EXCEPT ![leaf][slot] = Files!Fresh[i3]] ELSE m1
  BY DEF Files!Grown
<1>2. GrownBy(v, p, i2, i3, top, m1, leaf, slot)
  BY <1>1, Zenon DEF GrownBy
<1> HIDE DEF i2, i3, top, m1, leaf, slot
<1>3. QED  BY <1>2

\* The six ways in which an iteration allocates, and that in which it does not.
LEMMA GrownNot ==
    ASSUME NEW p \in Nat, NEW k, k = Files!Number(p), NEW v,
           k = 0 \/ (Files!Offset(p) # 0 /\ k >= Direct)
    PROVE  /\ Files!Grown(v, p).inode = v
           /\ Files!Grown(v, p).memory = d
           /\ Files!Grown(v, p).bmap = c
<1>1. ~ Files!First(p) /\ ~ Files!Second(p) /\ ~ Files!Index(p) /\ ~ Files!Data(p)
  BY Needs, Widths
<1>2. {Files!Fresh[i] : i \in 1 .. 0} = {}
  OBVIOUS
<1>3. Files!Grown(v, p).inode = v
  BY <1>1, <1>2 DEF Files!Grown
<1>4. Files!Grown(v, p).memory = d
  BY <1>1, <1>2 DEF Files!Grown
<1>5. Files!Grown(v, p).bmap = c
  BY <1>1, <1>2 DEF Files!Grown
<1>6. QED  BY <1>3, <1>4, <1>5

LEMMA GrownDirect ==
    ASSUME NEW p \in Nat, NEW k, k = Files!Number(p), NEW v, k # 0, k < Direct
    PROVE  /\ Files!Grown(v, p).inode = [v EXCEPT !.direct[k] = Files!Fresh[1]]
           /\ Files!Grown(v, p).memory = d
           /\ Files!Grown(v, p).bmap = c \cup {Files!Fresh[1]}
<1>1. ~ Files!First(p) /\ ~ Files!Second(p) /\ ~ Files!Index(p) /\ Files!Data(p)
      /\ p < Files!Small /\ ~ (p >= Files!Small)
  BY Needs, Widths
<1>2. {Files!Fresh[i] : i \in 1 .. 1} = {Files!Fresh[1]}
  OBVIOUS
<1>3. Files!Grown(v, p).inode = [v EXCEPT !.direct[k] = Files!Fresh[1]]
  BY <1>1, <1>2 DEF Files!Grown
<1>4. Files!Grown(v, p).memory = d
  BY <1>1, <1>2 DEF Files!Grown
<1>5. Files!Grown(v, p).bmap = c \cup {Files!Fresh[1]}
  BY <1>1, <1>2 DEF Files!Grown
<1>6. QED  BY <1>3, <1>4, <1>5

LEMMA GrownFirst ==
    ASSUME NEW p \in Nat, NEW k, k = Files!Number(p), NEW v, k = Direct, Files!Offset(p) = 0
    PROVE  /\ Files!Grown(v, p).inode = [v EXCEPT !.first = Files!Fresh[1]]
           /\ Files!Grown(v, p).memory = [d EXCEPT ![Files!Fresh[1]][0] = Files!Fresh[2]]
           /\ Files!Grown(v, p).bmap = c \cup {Files!Fresh[1], Files!Fresh[2]}
<1>1. Files!First(p) /\ ~ Files!Second(p) /\ ~ Files!Index(p) /\ Files!Data(p)
      /\ ~ (p < Files!Small) /\ p >= Files!Small /\ p < Files!Middle /\ k - Direct = 0
  <2>1. k < Files!Area /\ ~ (k >= Files!Area) /\ ~ (k < Direct) /\ k - Direct = 0 /\ k # Files!Area
    BY Widths
  <2>2. QED  BY <2>1, Needs
<1>2. {Files!Fresh[i] : i \in 1 .. 2} = {Files!Fresh[1], Files!Fresh[2]}
  OBVIOUS
<1>3. Files!Grown(v, p).inode = [v EXCEPT !.first = Files!Fresh[1]]
  BY <1>1, <1>2 DEF Files!Grown
<1>4. Files!Grown(v, p).memory = [d EXCEPT ![Files!Fresh[1]][0] = Files!Fresh[2]]
  <2>1. PICK i2, i3, top, m1, leaf, slot : GrownBy(v, p, i2, i3, top, m1, leaf, slot)
    BY GrownMemory, Zenon
  <2>2. top = Files!Fresh[1] /\ i3 = 2 /\ m1 = d /\ leaf = Files!Fresh[1] /\ slot = 0
    <3>1. top = Files!Fresh[1] /\ m1 = d /\ leaf = top /\ slot = Files!Number(p) - Direct
      BY <1>1, <2>1, Zenon DEF GrownBy
    <3>2. i2 = 1 /\ i3 = i2 + 1
      BY <1>1, <2>1 DEF GrownBy
    <3>3. i3 = 2
      BY <3>2
    <3>4. QED  BY <1>1, <3>1, <3>3, Zenon
  <2>3. QED  BY <1>1, <2>1, <2>2, Zenon DEF GrownBy
<1>5. Files!Grown(v, p).bmap = c \cup {Files!Fresh[1], Files!Fresh[2]}
  BY <1>1, <1>2 DEF Files!Grown
<1>6. QED  BY <1>3, <1>4, <1>5

LEMMA GrownSingle ==
    ASSUME NEW p \in Nat, NEW k, k = Files!Number(p), NEW v, k > Direct, k < Files!Area, Files!Offset(p) = 0
    PROVE  /\ Files!Grown(v, p).inode = v
           /\ Files!Grown(v, p).memory = [d EXCEPT ![v.first][k - Direct] = Files!Fresh[1]]
           /\ Files!Grown(v, p).bmap = c \cup {Files!Fresh[1]}
<1>1. ~ Files!First(p) /\ ~ Files!Second(p) /\ ~ Files!Index(p) /\ Files!Data(p)
      /\ ~ (p < Files!Small) /\ p >= Files!Small /\ p < Files!Middle
  BY Needs, Widths
<1>2. {Files!Fresh[i] : i \in 1 .. 1} = {Files!Fresh[1]}
  OBVIOUS
<1>3. Files!Grown(v, p).inode = v
  BY <1>1, <1>2 DEF Files!Grown
<1>4. Files!Grown(v, p).memory = [d EXCEPT ![v.first][k - Direct] = Files!Fresh[1]]
  <2>1. PICK i2, i3, top, m1, leaf, slot : GrownBy(v, p, i2, i3, top, m1, leaf, slot)
    BY GrownMemory, Zenon
  <2>2. i3 = 1 /\ m1 = d /\ leaf = v.first /\ slot = k - Direct
    BY <1>1, <2>1 DEF GrownBy
  <2>3. QED  BY <1>1, <2>1, <2>2, Zenon DEF GrownBy
<1>5. Files!Grown(v, p).bmap = c \cup {Files!Fresh[1]}
  BY <1>1, <1>2 DEF Files!Grown
<1>6. QED  BY <1>3, <1>4, <1>5

LEMMA GrownSecond ==
    ASSUME NEW p \in Nat, NEW k, k = Files!Number(p), NEW v, k = Files!Area, Files!Offset(p) = 0,
           d \in Stores, Files!Fresh[1] \in Files!Blocks
    PROVE  /\ Files!Grown(v, p).inode = [v EXCEPT !.second = Files!Fresh[1]]
           /\ Files!Grown(v, p).memory = [[d EXCEPT ![Files!Fresh[1]][0] = Files!Fresh[2]] EXCEPT ![Files!Fresh[2]][0] = Files!Fresh[3]]
           /\ Files!Grown(v, p).bmap = c \cup {Files!Fresh[1], Files!Fresh[2], Files!Fresh[3]}
<1>1. ~ Files!First(p) /\ Files!Second(p) /\ Files!Index(p) /\ Files!Data(p)
      /\ ~ (p < Files!Small) /\ p >= Files!Small /\ ~ (p < Files!Middle)
      /\ Files!Doubly(p) \div Pointers = 0 /\ Files!Doubly(p) % Pointers = 0
  <2>1. k \in Nat /\ k # Direct /\ k >= Files!Area /\ ~ (k < Direct) /\ ~ (k < Files!Area)
    BY Widths
  <2>2. Files!Turn(k) = 0 /\ Files!Rest(k) = 0
    BY <2>1, TurnNext
  <2>3. QED  BY <2>1, <2>2, Needs
<1>2. {Files!Fresh[i] : i \in 1 .. 3} = {Files!Fresh[1], Files!Fresh[2], Files!Fresh[3]}
  OBVIOUS
<1>3. [d EXCEPT ![Files!Fresh[1]][0] = Files!Fresh[2]][Files!Fresh[1]][0] = Files!Fresh[2]
  BY Widths DEF Stores, Files!Cells
<1>4. Files!Grown(v, p).inode = [v EXCEPT !.second = Files!Fresh[1]]
  BY <1>1, <1>2, <1>3 DEF Files!Grown
<1>5. Files!Grown(v, p).memory = [[d EXCEPT ![Files!Fresh[1]][0] = Files!Fresh[2]] EXCEPT ![Files!Fresh[2]][0] = Files!Fresh[3]]
  <2>1. PICK i2, i3, top, m1, leaf, slot : GrownBy(v, p, i2, i3, top, m1, leaf, slot)
    BY GrownMemory, Zenon
  <2>2. top = Files!Fresh[1] /\ i2 = 2 /\ i3 = 3 /\ slot = 0
    BY <1>1, <2>1 DEF GrownBy
  <2>3. m1 = [d EXCEPT ![Files!Fresh[1]][0] = Files!Fresh[2]]
    BY <1>1, <2>1, <2>2, Zenon DEF GrownBy
  <2>4. leaf = Files!Fresh[2]
    BY <1>1, <2>1, <2>2, <2>3, <1>3, Zenon DEF GrownBy
  <2>5. QED  BY <1>1, <2>1, <2>2, <2>3, <2>4, Zenon DEF GrownBy
<1>6. Files!Grown(v, p).bmap = c \cup {Files!Fresh[1], Files!Fresh[2], Files!Fresh[3]}
  BY <1>1, <1>2, <1>3 DEF Files!Grown
<1>7. QED  BY <1>4, <1>5, <1>6

LEMMA GrownIndex ==
    ASSUME NEW p \in Nat, NEW k, k = Files!Number(p), NEW v, k > Files!Area, Files!Rest(k) = 0,
           k < Files!Area + Pointers * Pointers, Files!Offset(p) = 0,
           d \in Stores, v \in Inodes
    PROVE  /\ Files!Grown(v, p).inode = v
           /\ Files!Grown(v, p).memory = [[d EXCEPT ![v.second][Files!Turn(k)] = Files!Fresh[1]] EXCEPT ![Files!Fresh[1]][0] = Files!Fresh[2]]
           /\ Files!Grown(v, p).bmap = c \cup {Files!Fresh[1], Files!Fresh[2]}
<1>1. ~ Files!First(p) /\ ~ Files!Second(p) /\ Files!Index(p) /\ Files!Data(p)
      /\ ~ (p < Files!Small) /\ p >= Files!Small /\ ~ (p < Files!Middle)
      /\ Files!Doubly(p) \div Pointers = Files!Turn(k) /\ Files!Doubly(p) % Pointers = 0
  BY Needs, Widths
<1>2. {Files!Fresh[i] : i \in 1 .. 2} = {Files!Fresh[1], Files!Fresh[2]}
  OBVIOUS
<1>3. Files!Turn(k) \in Files!Cells
  <2>1. k \in Nat /\ k >= Files!Area
    BY Position, Widths
  <2>2. Files!Turn(k) < Pointers /\ Files!Turn(k) \in Nat
    BY <2>1, TurnNext, Turns
  <2>3. QED  BY <2>2, Widths DEF Files!Cells
<1>4. [d EXCEPT ![v.second][Files!Turn(k)] = Files!Fresh[1]][v.second][Files!Turn(k)] = Files!Fresh[1]
  BY <1>3 DEF Stores, Inodes
<1>5. Files!Grown(v, p).inode = v
  BY <1>1, <1>2, <1>4 DEF Files!Grown
<1>6. Files!Grown(v, p).memory = [[d EXCEPT ![v.second][Files!Turn(k)] = Files!Fresh[1]] EXCEPT ![Files!Fresh[1]][0] = Files!Fresh[2]]
  <2>1. PICK i2, i3, top, m1, leaf, slot : GrownBy(v, p, i2, i3, top, m1, leaf, slot)
    BY GrownMemory, ZenonT(40)
  <2>2. top = v.second /\ i2 = 1 /\ i3 = 2 /\ slot = 0
    BY <1>1, <2>1 DEF GrownBy
  <2>3. m1 = [d EXCEPT ![v.second][Files!Turn(k)] = Files!Fresh[1]]
    BY <1>1, <2>1, <2>2, Zenon DEF GrownBy
  <2>4. leaf = Files!Fresh[1]
    BY <1>1, <2>1, <2>2, <2>3, <1>4, Zenon DEF GrownBy
  <2>5. QED  BY <1>1, <2>1, <2>2, <2>3, <2>4, Zenon DEF GrownBy
<1>7. Files!Grown(v, p).bmap = c \cup {Files!Fresh[1], Files!Fresh[2]}
  BY <1>1, <1>2, <1>4 DEF Files!Grown
<1>8. QED  BY <1>5, <1>6, <1>7

LEMMA GrownDouble ==
    ASSUME NEW p \in Nat, NEW k, k = Files!Number(p), NEW v, k >= Files!Area, Files!Rest(k) # 0,
           Files!Offset(p) = 0
    PROVE  /\ Files!Grown(v, p).inode = v
           /\ Files!Grown(v, p).memory = [d EXCEPT ![d[v.second][Files!Turn(k)]][Files!Rest(k)] = Files!Fresh[1]]
           /\ Files!Grown(v, p).bmap = c \cup {Files!Fresh[1]}
<1>1. ~ Files!First(p) /\ ~ Files!Second(p) /\ ~ Files!Index(p) /\ Files!Data(p)
      /\ ~ (p < Files!Small) /\ p >= Files!Small /\ ~ (p < Files!Middle)
      /\ Files!Doubly(p) \div Pointers = Files!Turn(k) /\ Files!Doubly(p) % Pointers = Files!Rest(k)
  BY Needs, Widths, TurnNext
<1>2. {Files!Fresh[i] : i \in 1 .. 1} = {Files!Fresh[1]}
  OBVIOUS
<1>3. Files!Grown(v, p).inode = v
  BY <1>1, <1>2 DEF Files!Grown
<1>4. Files!Grown(v, p).memory = [d EXCEPT ![d[v.second][Files!Turn(k)]][Files!Rest(k)] = Files!Fresh[1]]
  <2>1. PICK i2, i3, top, m1, leaf, slot : GrownBy(v, p, i2, i3, top, m1, leaf, slot)
    BY GrownMemory, ZenonT(40)
  <2>2. top = v.second /\ i3 = 1 /\ m1 = d /\ leaf = d[v.second][Files!Turn(k)] /\ slot = Files!Rest(k)
    BY <1>1, <2>1 DEF GrownBy
  <2>3. QED  BY <1>1, <2>1, <2>2, Zenon DEF GrownBy
<1>5. Files!Grown(v, p).bmap = c \cup {Files!Fresh[1]}
  BY <1>1, <1>2 DEF Files!Grown
<1>6. QED  BY <1>3, <1>4, <1>5

----------------------------------------------------------------------------
(* What an iteration finds and leaves                                      *)

LEMMA NewPlaces ==
    ASSUME NEW k \in Nat \ {0}, NEW x
    PROVE  x \in Files!Places(k + 1) \ Files!Places(k) <=>
             \/ x = <<"data", k>>
             \/ k = Direct /\ x = <<"first", 0>>
             \/ k = Files!Area /\ x = <<"second", 0>>
             \/ k >= Files!Area /\ Files!Rest(k) = 0 /\ x = <<"index", Files!Turn(k)>>
<1>1. Direct \in Nat /\ Files!Area \in Nat /\ k \in Nat
  BY Widths
<1>2. <<"data", k>> \notin Files!Places(k)
  BY InPlaces
<1>3. k = Direct => <<"first", 0>> \notin Files!Places(k)
  BY <1>1, InPlaces
<1>4. k = Files!Area => <<"second", 0>> \notin Files!Places(k)
  BY <1>1, InPlaces
<1>5. ASSUME k >= Files!Area, Files!Rest(k) = 0 PROVE <<"index", Files!Turn(k)>> \notin Files!Places(k)
  <2>1. CASE k = Files!Area
    BY <1>1, <2>1, InPlaces
  <2>2. CASE k > Files!Area
    <3>1. Files!Turn(k - 1) = Files!Turn(k) - 1 /\ Files!Turn(k) \in Nat
      BY <1>1, <1>5, <2>2, TurnNext, Turns
    <3>2. Files!Turn(k) \notin 0 .. Files!Turn(k - 1)
      BY <3>1
    <3>3. QED  BY <3>2, InPlaces
  <2>3. QED  BY <1>1, <1>5, <2>1, <2>2
<1>6. QED  BY <1>2, <1>3, <1>4, <1>5, PlacesGrow

\* The index blocks of the file, apart from each other.
LEMMA OwnIndices ==
    ASSUME NEW o, NEW p, NEW n, NEW k, NEW v, Writing(o, p, n, k, v), NEW n1, n1 = Files!Count(Len(g[o]))
    PROVE  /\ n1 > Direct => v.first \in c /\ v.first # 0
           /\ n1 > Files!Area => v.second \in c /\ v.second # 0 /\ v.second # v.first
           /\ n1 > Files!Area => \A i \in 0 .. Files!Turn(n1 - 1) :
                 /\ e[v.second][i] \in c /\ e[v.second][i] # 0
                 /\ e[v.second][i] # v.first /\ e[v.second][i] # v.second
                 /\ \A i2 \in 0 .. Files!Turn(n1 - 1) : e[v.second][i] = e[v.second][i2] => i = i2
<1>1. /\ n1 \in Nat \ {0}
      /\ \A x \in Files!Places(n1) : Files!At(e, v, x) \in c /\ Files!At(e, v, x) # 0
      /\ \A x, y \in Files!Places(n1) : Files!At(e, v, x) = Files!At(e, v, y) => x = y
  BY OwnBlocks
<1>2. Files!At(e, v, <<"first", 0>>) = v.first /\ Files!At(e, v, <<"second", 0>>) = v.second
      /\ \A i : Files!At(e, v, <<"index", i>>) = e[v.second][i]
  BY DEF Files!At
<1>3. Direct \in Nat /\ Files!Area \in Nat /\ Files!Area >= Direct
  BY Widths
<1>4. n1 > Direct => <<"first", 0>> \in Files!Places(n1)
  BY <1>1, InPlaces
<1>5. n1 > Files!Area => <<"second", 0>> \in Files!Places(n1) /\ <<"first", 0>> \in Files!Places(n1)
  BY <1>1, <1>3, InPlaces
<1>6. n1 > Files!Area => \A i \in 0 .. Files!Turn(n1 - 1) : <<"index", i>> \in Files!Places(n1)
  BY <1>1, InPlaces
<1>7. n1 > Direct => v.first \in c /\ v.first # 0
  BY <1>1, <1>2, <1>4
<1>8. n1 > Files!Area => v.second \in c /\ v.second # 0 /\ v.second # v.first
  <2>1. <<"first", 0>> # <<"second", 0>>
    OBVIOUS
  <2>2. QED  BY <1>1, <1>2, <1>5, <2>1
<1>9. ASSUME n1 > Files!Area, NEW i \in 0 .. Files!Turn(n1 - 1)
      PROVE  /\ e[v.second][i] \in c /\ e[v.second][i] # 0
             /\ e[v.second][i] # v.first /\ e[v.second][i] # v.second
             /\ \A i2 \in 0 .. Files!Turn(n1 - 1) : e[v.second][i] = e[v.second][i2] => i = i2
  <2>1. <<"index", i>> # <<"first", 0>> /\ <<"index", i>> # <<"second", 0>>
        /\ \A i2 : <<"index", i>> = <<"index", i2>> => i = i2
    OBVIOUS
  <2>2. <<"index", i>> \in Files!Places(n1) /\ Files!At(e, v, <<"index", i>>) = e[v.second][i]
    BY <1>2, <1>6, <1>9
  <2>3. e[v.second][i] \in c /\ e[v.second][i] # 0
    BY <1>1, <2>2
  <2>4. e[v.second][i] # v.first /\ e[v.second][i] # v.second
    BY <1>1, <1>2, <1>5, <1>9, <2>1, <2>2
  <2>5. ASSUME NEW i2 \in 0 .. Files!Turn(n1 - 1), e[v.second][i] = e[v.second][i2] PROVE i = i2
    <3>1. <<"index", i2>> \in Files!Places(n1) /\ Files!At(e, v, <<"index", i2>>) = e[v.second][i2]
      BY <1>2, <1>6, <1>9
    <3>2. <<"index", i>> = <<"index", i2>>
      BY <1>1, <2>2, <2>5, <3>1
    <3>3. QED  BY <3>2
  <2>6. QED  BY <2>3, <2>4, <2>5
<1>10. QED  BY <1>7, <1>8, <1>9

\* The blocks that Fresh finds for one that allocates.
LEMMA FreshInWrite ==
    ASSUME NEW o, NEW p, NEW n, NEW k, NEW v, Writing(o, p, n, k, v)
    PROVE  /\ \A i \in {1, 2, 3} : LET y == Files!Fresh[i] IN
                 /\ y \in Files!Blocks /\ y \notin c /\ y \in Nat
                 /\ d[y] = e[y] /\ \A z \in Files!Cells : e[y][z] = 0
           /\ Files!Fresh[1] # Files!Fresh[2] /\ Files!Fresh[1] # Files!Fresh[3] /\ Files!Fresh[2] # Files!Fresh[3]
           /\ Files!Fresh[1] # 0 /\ Files!Fresh[2] # 0 /\ Files!Fresh[3] # 0
<1>1. Files!Cardinality(Files!Blocks \ c) >= 3
  BY Zenon DEF Writing, Files!WriteStep
<1>2. c \in SUBSET Files!Blocks /\ 0 \in c /\ \A y \in Files!Blocks \ c : e[y] = Files!Blank[y] /\ d[y] = Files!Blank[y]
  BY OwnBlocks
<1>3. /\ \A i \in {1, 2, 3} : Files!Fresh[i] \in Files!Blocks \ c
      /\ Files!Fresh[1] # Files!Fresh[2] /\ Files!Fresh[1] # Files!Fresh[3] /\ Files!Fresh[2] # Files!Fresh[3]
  BY <1>1, <1>2, FreshBlocks
<1>4. \A y \in Files!Blocks : y \in Nat /\ \A z \in Files!Cells : Files!Blank[y][z] = 0
  BY Widths DEF Files!Blank, Files!Blocks
<1>5. QED  BY <1>2, <1>3, <1>4, SMTT(40)

\* What is in memory as on the card, because the file was read.
LEMMA WarmInWrite ==
    ASSUME NEW o, NEW p, NEW n, NEW k, NEW v, Writing(o, p, n, k, v), NEW n1, n1 = Files!Count(Len(g[o]))
    PROVE  /\ k = 0 \/ Files!Offset(p) # 0 => d[Files!DataAt(e, v, k)] = e[Files!DataAt(e, v, k)]
           /\ n1 > Direct /\ k >= Direct /\ k < Files!Area => d[v.first] = e[v.first]
           /\ n1 > Files!Area /\ k >= Files!Area =>
                 /\ d[v.second] = e[v.second]
                 /\ \A i \in 0 .. Files!Turn(k) : d[e[v.second][i]] = e[e[v.second][i]]
<1>1. /\ p \in Nat /\ k \in Nat /\ k = Files!Number(p) /\ Direct \in Nat \ {0} /\ Files!Area \in Nat /\ Files!Area >= Direct
      /\ \A y \in Files!Present(v, p) \cup Files!PresentData(v, p) : d[y] = e[y]
      /\ k = 0 \/ k >= Direct \/ Files!Offset(p) = 0
  BY WritingFacts, Widths DEF Writing
<1>2. /\ p < Files!Small <=> k < Direct
      /\ p < Files!Middle <=> k < Files!Area
      /\ p >= Files!Small <=> ~ (k < Direct)
      /\ Files!Doubly(p) \div Pointers = Files!Turn(k)
  BY <1>1, Needs
<1>3. /\ p = Files!Small <=> k = Direct /\ Files!Offset(p) = 0
      /\ p = Files!Middle <=> k = Files!Area /\ Files!Offset(p) = 0
  BY <1>1, Areas
<1>4. Files!DataBlock(e, v, p) = Files!DataAt(e, v, k) /\ Files!Offset(p) \in Nat
  BY <1>1, WayIs, Position
<1>5. k # 0 /\ Files!Offset(p) = 0 => n1 = k
  BY CountsOfWrite
<1>6. ASSUME k = 0 PROVE d[Files!DataAt(e, v, k)] = e[Files!DataAt(e, v, k)]
  <2>1. v.direct[0] \in Files!Present(v, p)
    BY <1>1, <1>2, <1>6 DEF Files!Present
  <2>2. Files!DataAt(e, v, k) = v.direct[0]
    BY <1>1, <1>6 DEF Files!DataAt
  <2>3. QED  BY <1>1, <2>1, <2>2
<1>7. ASSUME k # 0, Files!Offset(p) # 0 PROVE d[Files!DataAt(e, v, k)] = e[Files!DataAt(e, v, k)]
  <2>1. Files!DataBlock(e, v, p) \in Files!PresentData(v, p)
    BY <1>1, <1>2, <1>4, <1>7 DEF Files!PresentData
  <2>2. QED  BY <1>1, <1>4, <2>1
<1>8. ASSUME n1 > Direct, k >= Direct, k < Files!Area PROVE d[v.first] = e[v.first]
  <2>1. p # Files!Small
    BY <1>1, <1>3, <1>5, <1>8
  <2>2. v.first \in Files!Present(v, p)
    BY <1>1, <1>2, <1>8, <2>1 DEF Files!Present
  <2>3. QED  BY <1>1, <2>2
<1>9. ASSUME n1 > Files!Area, k >= Files!Area
      PROVE  /\ d[v.second] = e[v.second]
             /\ \A i \in 0 .. Files!Turn(k) : d[e[v.second][i]] = e[e[v.second][i]]
  <2>1. p # Files!Middle /\ ~ (p < Files!Small) /\ ~ (p < Files!Middle)
    BY <1>1, <1>2, <1>3, <1>5, <1>9
  <2>2. Files!Present(v, p) = {v.second} \cup {e[v.second][i] : i \in 0 .. Files!Turn(k)}
    BY <1>2, <2>1 DEF Files!Present
  <2>3. QED  BY <1>1, <2>2
<1>10. QED  BY <1>6, <1>7, <1>8, <1>9

\* What an iteration makes of the blocks before it stores its cells: m of memory, w of the
\* card once the index blocks are flushed, u of the inode, r of the block map.
Grew(k, v, u, m, w, r, n1, n2) ==
    /\ u \in Inodes /\ m \in Stores /\ w \in Stores
    /\ \A x \in Files!Places(n1) : Files!At(w, u, x) = Files!At(e, v, x)
    /\ \A x \in Files!Places(n2) \ Files!Places(n1) : Files!At(w, u, x) \in Files!Blocks \ c /\ Files!At(w, u, x) # 0
    /\ \A x, y \in Files!Places(n2) \ Files!Places(n1) : Files!At(w, u, x) = Files!At(w, u, y) => x = y
    /\ r = c \cup {Files!At(w, u, x) : x \in Files!Places(n2) \ Files!Places(n1)}
    /\ \A y \in Files!Blocks : m[y] # d[y] \/ w[y] # e[y] =>
          \/ k >= Direct /\ k < Files!Area /\ y = u.first
          \/ k >= Files!Area /\ (y = u.second \/ y = w[u.second][Files!Turn(k)])
    /\ n2 > Files!Area => \A i \in Files!Turn(n2 - 1) + 1 .. Pointers - 1 : w[u.second][i] = 0
    /\ m[Files!DataAt(w, u, k)] = w[Files!DataAt(w, u, k)]
    /\ k >= Direct /\ k < Files!Area => m[u.first] = w[u.first]
    /\ k >= Files!Area => /\ m[u.second] = w[u.second]
                          /\ \A i \in 0 .. Files!Turn(k) : m[w[u.second][i]] = w[w[u.second][i]]

\* In w one slot of one block is not as in m.
SlotSets(m, w, y, z, x) ==
    /\ w \in Stores /\ w[y][z] = x /\ w[y] = [m[y] EXCEPT ![z] = x]
    /\ \A i \in Files!Cells : i # z => w[y][i] = m[y][i]
    /\ \A q \in Files!Blocks : q # y => w[q] = m[q]

LEMMA SlotSet ==
    ASSUME NEW m \in Stores, NEW y \in Files!Blocks, NEW z \in Files!Cells, NEW x \in Nat
    PROVE  SlotSets(m, [m EXCEPT ![y][z] = x], y, z, x)
BY DEF Stores, SlotSets

LEMMA GrewNot ==
    ASSUME NEW o, NEW p, NEW n, NEW k, NEW v, Writing(o, p, n, k, v),
           NEW n1, n1 = Files!Count(Len(g[o])), NEW n2, n2 = n1, k < n1,
           k = 0 \/ Files!Offset(p) # 0
    PROVE  Grew(k, v, v, d, e, c, n1, n2)
<1>1. v \in Inodes /\ d \in Stores /\ e \in Stores /\ k \in Nat /\ n1 \in Nat \ {0} /\ Direct \in Nat \ {0}
      /\ Files!Area \in Nat /\ Files!Area >= Direct
  BY WritingFacts, OwnBlocks, Widths
<1>2. Files!Places(n2) \ Files!Places(n1) = {}
  OBVIOUS
<1>3. {Files!At(e, v, x) : x \in {}} = {}
  OBVIOUS
<1>4. n2 > Files!Area => \A i \in Files!Turn(n2 - 1) + 1 .. Pointers - 1 : e[v.second][i] = 0
  BY OwnBlocks
<1>5. /\ d[Files!DataAt(e, v, k)] = e[Files!DataAt(e, v, k)]
      /\ k >= Direct /\ k < Files!Area => d[v.first] = e[v.first]
      /\ k >= Files!Area => /\ d[v.second] = e[v.second]
                            /\ \A i \in 0 .. Files!Turn(k) : d[e[v.second][i]] = e[e[v.second][i]]
  <2>1. (k >= Direct => n1 > Direct) /\ (k >= Files!Area => n1 > Files!Area)
    BY <1>1
  <2>2. QED  BY <2>1, WarmInWrite
<1>6. c = c \cup {Files!At(e, v, x) : x \in Files!Places(n2) \ Files!Places(n1)}
  BY <1>2, <1>3
<1>7. QED  BY <1>1, <1>2, <1>4, <1>5, <1>6, Zenon DEF Grew

LEMMA GrewDirect ==
    ASSUME NEW o, NEW p, NEW n, NEW k, NEW v, Writing(o, p, n, k, v),
           k # 0, k = Files!Count(Len(g[o])), k < Direct
    PROVE  Grew(k, v, [v EXCEPT !.direct[k] = Files!Fresh[1]], d, e, c \cup {Files!Fresh[1]}, k, k + 1)
<1> DEFINE u == [v EXCEPT !.direct[k] = Files!Fresh[1]]
<1>1. v \in Inodes /\ d \in Stores /\ e \in Stores /\ k \in Nat \ {0} /\ Direct \in Nat \ {0}
      /\ Files!Area \in Nat /\ Files!Area >= Direct
  BY WritingFacts, Widths
<1>2. Files!Fresh[1] \in Files!Blocks \ c /\ Files!Fresh[1] # 0 /\ d[Files!Fresh[1]] = e[Files!Fresh[1]]
  BY FreshInWrite
<1>3. u \in Inodes /\ u.direct = [v.direct EXCEPT ![k] = Files!Fresh[1]]
  BY <1>1, <1>2 DEF Inodes
<1>4. u.direct[k] = Files!Fresh[1] /\ \A j \in 0 .. k - 1 : u.direct[j] = v.direct[j]
  BY <1>1, <1>3 DEF Inodes
<1> HIDE DEF u
<1>5. \A x \in Files!Places(k) : Files!At(e, u, x) = Files!At(e, v, x)
  <2>1. \A j \in 0 .. k - 1 : j < Direct /\ ~ (j >= Direct) /\ ~ (j >= Files!Area)
    BY <1>1
  <2>2. ~ (k > Files!Area)
    BY <1>1
  <2>3. SlotsSame(e, e, v, u, k)
    BY <1>4, <2>1, <2>2 DEF SlotsSame
  <2>4. QED  BY <1>1, <2>3, AtSame
<1>6. \A x : x \in Files!Places(k + 1) \ Files!Places(k) <=> x = <<"data", k>>
  BY <1>1, NewPlaces
<1>7. Files!At(e, u, <<"data", k>>) = Files!Fresh[1] /\ Files!DataAt(e, u, k) = Files!Fresh[1]
  BY <1>1, <1>4 DEF Files!At, Files!DataAt
<1>8. {Files!At(e, u, x) : x \in Files!Places(k + 1) \ Files!Places(k)} = {Files!Fresh[1]}
  BY <1>6, <1>7
<1>9. ~ (k + 1 > Files!Area) /\ ~ (k >= Direct) /\ ~ (k >= Files!Area)
  BY <1>1
<1>10. Grew(k, v, u, d, e, c \cup {Files!Fresh[1]}, k, k + 1)
  <2>1. /\ \A x \in Files!Places(k + 1) \ Files!Places(k) : Files!At(e, u, x) \in Files!Blocks \ c /\ Files!At(e, u, x) # 0
        /\ \A x, y \in Files!Places(k + 1) \ Files!Places(k) : Files!At(e, u, x) = Files!At(e, u, y) => x = y
    BY <1>2, <1>6, <1>7
  <2>2. d[Files!DataAt(e, u, k)] = e[Files!DataAt(e, u, k)]
    BY <1>2, <1>7
  <2>3. QED  BY <1>1, <1>3, <1>5, <1>8, <1>9, <2>1, <2>2, Zenon DEF Grew
<1>11. QED  BY <1>10 DEF u

LEMMA GrewFirst ==
    ASSUME NEW o, NEW p, NEW n, NEW k, NEW v, Writing(o, p, n, k, v),
           k # 0, k = Files!Count(Len(g[o])), k = Direct
    PROVE  Grew(k, v, [v EXCEPT !.first = Files!Fresh[1]],
                [d EXCEPT ![Files!Fresh[1]][0] = Files!Fresh[2]], [e EXCEPT ![Files!Fresh[1]][0] = Files!Fresh[2]],
                c \cup {Files!Fresh[1], Files!Fresh[2]}, k, k + 1)
<1> DEFINE x1 == Files!Fresh[1]
           x2 == Files!Fresh[2]
           u == [v EXCEPT !.first = x1]
           m == [d EXCEPT ![x1][0] = x2]
           w == [e EXCEPT ![x1][0] = x2]
<1>1. v \in Inodes /\ d \in Stores /\ e \in Stores /\ k \in Nat \ {0} /\ Direct \in Nat \ {0}
      /\ Files!Area \in Nat /\ k < Files!Area /\ 0 \in Files!Cells
  BY WritingFacts, Widths DEF Files!Cells
<1>2. /\ x1 \in Files!Blocks \ c /\ x1 # 0 /\ d[x1] = e[x1] /\ x2 \in Files!Blocks \ c /\ x2 # 0 /\ d[x2] = e[x2]
      /\ x1 # x2 /\ x1 \in Nat /\ x2 \in Nat
  BY FreshInWrite
<1> HIDE DEF x1, x2
<1>3. u \in Inodes /\ u.first = x1 /\ u.direct = v.direct
  BY <1>1, <1>2 DEF Inodes
<1>4. /\ m \in Stores /\ w \in Stores
      /\ w[x1][0] = x2 /\ m[x1] = w[x1]
      /\ \A y \in Files!Blocks : y # x1 => m[y] = d[y] /\ w[y] = e[y]
  BY <1>1, <1>2 DEF Stores
<1> HIDE DEF u, m, w
<1>5. \A x \in Files!Places(k) : Files!At(w, u, x) = Files!At(e, v, x)
  <2>1. \A j \in 0 .. k - 1 : ~ (j >= Direct) /\ ~ (j >= Files!Area)
    BY <1>1
  <2>2. ~ (k > Files!Area)
    BY <1>1
  <2>3. SlotsSame(e, w, v, u, k)
    BY <1>3, <2>1, <2>2 DEF SlotsSame
  <2>4. QED  BY <1>1, <2>3, AtSame
<1>7. \A x : x \in Files!Places(k + 1) \ Files!Places(k) <=> x = <<"data", k>> \/ x = <<"first", 0>>
  BY <1>1, NewPlaces
<1>8. /\ Files!At(w, u, <<"data", k>>) = x2 /\ Files!DataAt(w, u, k) = x2 /\ Files!At(w, u, <<"first", 0>>) = x1
  <2>1. k >= Direct /\ ~ (k < Direct) /\ k - Direct = 0 /\ k < Files!Area
    BY <1>1
  <2>2. Files!DataAt(w, u, k) = x2
    BY <1>3, <1>4, <2>1 DEF Files!DataAt
  <2>3. QED  BY <1>3, <2>2 DEF Files!At
<1>9. /\ \A x \in Files!Places(k + 1) \ Files!Places(k) : Files!At(w, u, x) \in Files!Blocks \ c /\ Files!At(w, u, x) # 0
      /\ \A x, y \in Files!Places(k + 1) \ Files!Places(k) : Files!At(w, u, x) = Files!At(w, u, y) => x = y
      /\ {Files!At(w, u, x) : x \in Files!Places(k + 1) \ Files!Places(k)} = {x1, x2}
  BY <1>2, <1>7, <1>8
<1>10. \A y \in Files!Blocks : m[y] # d[y] \/ w[y] # e[y] => k >= Direct /\ k < Files!Area /\ y = u.first
  BY <1>1, <1>3, <1>4
<1>11. ~ (k >= Files!Area) /\ ~ (k + 1 > Files!Area)
  BY <1>1, Widths
<1>12. m[Files!DataAt(w, u, k)] = w[Files!DataAt(w, u, k)] /\ m[u.first] = w[u.first]
  BY <1>2, <1>3, <1>4, <1>8
<1>13. Grew(k, v, u, m, w, c \cup {x1, x2}, k, k + 1)
  BY <1>3, <1>4, <1>5, <1>9, <1>10, <1>11, <1>12, Zenon DEF Grew
<1>14. QED  BY <1>13 DEF u, m, w, x1, x2

LEMMA GrewSingle ==
    ASSUME NEW o, NEW p, NEW n, NEW k, NEW v, Writing(o, p, n, k, v),
           k # 0, k = Files!Count(Len(g[o])), k > Direct, k < Files!Area
    PROVE  Grew(k, v, v, [d EXCEPT ![v.first][k - Direct] = Files!Fresh[1]],
                [e EXCEPT ![v.first][k - Direct] = Files!Fresh[1]], c \cup {Files!Fresh[1]}, k, k + 1)
<1> DEFINE x1 == Files!Fresh[1]
           x2 == v.first
           m == [d EXCEPT ![x2][k - Direct] = x1]
           w == [e EXCEPT ![x2][k - Direct] = x1]
<1>1. v \in Inodes /\ d \in Stores /\ e \in Stores /\ k \in Nat \ {0} /\ Direct \in Nat \ {0}
      /\ Files!Area \in Nat /\ Files!Area = Direct + Pointers /\ Pointers \in Nat
      /\ k - Direct \in Files!Cells /\ k - Direct \in Nat
  BY WritingFacts, Widths DEF Files!Cells
<1>2. /\ x1 \in Files!Blocks \ c /\ x1 # 0 /\ d[x1] = e[x1] /\ x1 \in Nat
  BY FreshInWrite
<1>3. x2 \in c /\ x2 \in Files!Blocks /\ x1 # x2 /\ d[x2] = e[x2]
  <2>1. x2 \in c /\ c \subseteq Files!Blocks
    BY OwnIndices, OwnBlocks
  <2>2. d[x2] = e[x2]
    BY <1>1, WarmInWrite
  <2>3. QED  BY <1>2, <2>1, <2>2
<1> HIDE DEF x1
<1>4. /\ m \in Stores /\ w \in Stores
      /\ w[x2][k - Direct] = x1 /\ m[x2] = w[x2]
      /\ \A j \in Files!Cells : j # k - Direct => w[x2][j] = e[x2][j]
      /\ \A y \in Files!Blocks : y # x2 => m[y] = d[y] /\ w[y] = e[y]
  <2>1. x2 \in Files!Blocks /\ k - Direct \in Files!Cells /\ x1 \in Nat /\ d \in Stores /\ e \in Stores
    BY <1>1, <1>2, <1>3
  <2> HIDE DEF x2
  <2>2. SlotSets(d, m, x2, k - Direct, x1) /\ SlotSets(e, w, x2, k - Direct, x1)
    BY <2>1, SlotSet
  <2> HIDE DEF m, w
  <2>3. QED  BY <1>3, <2>2 DEF SlotSets
<1> HIDE DEF m, w
<1>5. \A x \in Files!Places(k) : Files!At(w, v, x) = Files!At(e, v, x)
  <2>1. \A j \in 0 .. k - 1 : ~ (j >= Files!Area)
    BY <1>1
  <2>2. ~ (k > Files!Area)
    BY <1>1
  <2>3. \A j \in 0 .. k - 1 : j >= Direct => w[x2][j - Direct] = e[x2][j - Direct]
    <3>1. SUFFICES ASSUME NEW j \in 0 .. k - 1, j >= Direct PROVE w[x2][j - Direct] = e[x2][j - Direct]
      OBVIOUS
    <3>2. j - Direct \in Files!Cells /\ j - Direct # k - Direct
      BY <1>1, <3>1, Widths DEF Files!Cells
    <3>3. QED  BY <1>4, <3>2
  <2>4. SlotsSame(e, w, v, v, k)
    BY <2>1, <2>2, <2>3 DEF SlotsSame
  <2>5. QED  BY <1>1, <2>4, AtSame
<1>6. k >= Direct /\ ~ (k < Direct) /\ k # Direct /\ k # Files!Area /\ ~ (k >= Files!Area) /\ ~ (k + 1 > Files!Area)
  BY <1>1
<1>7. \A x : x \in Files!Places(k + 1) \ Files!Places(k) <=> x = <<"data", k>>
  BY <1>1, <1>6, NewPlaces
<1>8. Files!At(w, v, <<"data", k>>) = x1 /\ Files!DataAt(w, v, k) = x1
  BY <1>4, <1>6 DEF Files!At, Files!DataAt
<1>9. /\ \A x \in Files!Places(k + 1) \ Files!Places(k) : Files!At(w, v, x) \in Files!Blocks \ c /\ Files!At(w, v, x) # 0
      /\ \A x, y \in Files!Places(k + 1) \ Files!Places(k) : Files!At(w, v, x) = Files!At(w, v, y) => x = y
      /\ {Files!At(w, v, x) : x \in Files!Places(k + 1) \ Files!Places(k)} = {x1}
  BY <1>2, <1>7, <1>8
<1>10. \A y \in Files!Blocks : m[y] # d[y] \/ w[y] # e[y] => k >= Direct /\ k < Files!Area /\ y = v.first
  BY <1>4, <1>6
<1>11. m[Files!DataAt(w, v, k)] = w[Files!DataAt(w, v, k)] /\ m[v.first] = w[v.first]
  BY <1>2, <1>3, <1>4, <1>8
<1>12. Grew(k, v, v, m, w, c \cup {x1}, k, k + 1)
  BY <1>1, <1>4, <1>5, <1>6, <1>9, <1>10, <1>11, Zenon DEF Grew
<1>13. QED  BY <1>12 DEF m, w, x1

LEMMA GrewSecond ==
    ASSUME NEW o, NEW p, NEW n, NEW k, NEW v, Writing(o, p, n, k, v),
           k # 0, k = Files!Count(Len(g[o])), k = Files!Area
    PROVE  Grew(k, v, [v EXCEPT !.second = Files!Fresh[1]],
                [[d EXCEPT ![Files!Fresh[1]][0] = Files!Fresh[2]] EXCEPT ![Files!Fresh[2]][0] = Files!Fresh[3]],
                [[e EXCEPT ![Files!Fresh[1]][0] = Files!Fresh[2]] EXCEPT ![Files!Fresh[2]][0] = Files!Fresh[3]],
                c \cup {Files!Fresh[1], Files!Fresh[2], Files!Fresh[3]}, k, k + 1)
<1> DEFINE x1 == Files!Fresh[1]
           x2 == Files!Fresh[2]
           x3 == Files!Fresh[3]
           u == [v EXCEPT !.second = x1]
           m1 == [d EXCEPT ![x1][0] = x2]
           w1 == [e EXCEPT ![x1][0] = x2]
           m == [m1 EXCEPT ![x2][0] = x3]
           w == [w1 EXCEPT ![x2][0] = x3]
<1>1. v \in Inodes /\ d \in Stores /\ e \in Stores /\ k \in Nat \ {0} /\ Direct \in Nat \ {0}
      /\ Files!Area \in Nat /\ Files!Area = Direct + Pointers /\ Pointers \in Nat \ {0} /\ 0 \in Files!Cells
      /\ Pointers <= BlockSize /\ BlockSize \in Nat
  BY WritingFacts, Widths DEF Files!Cells
<1>2. /\ x1 \in Files!Blocks \ c /\ x1 # 0 /\ d[x1] = e[x1] /\ x1 \in Nat
      /\ x2 \in Files!Blocks \ c /\ x2 # 0 /\ d[x2] = e[x2] /\ x2 \in Nat
      /\ x3 \in Files!Blocks \ c /\ x3 # 0 /\ d[x3] = e[x3] /\ x3 \in Nat
      /\ x1 # x2 /\ x1 # x3 /\ x2 # x3
      /\ \A z \in Files!Cells : e[x1][z] = 0
  BY FreshInWrite
<1>3. v.first \in c /\ v.first \in Files!Blocks
  <2>1. k > Direct
    BY <1>1
  <2>2. v.first \in c
    BY <2>1, OwnIndices
  <2>3. c \subseteq Files!Blocks
    BY OwnBlocks
  <2>4. QED  BY <2>2, <2>3
<1> HIDE DEF x1, x2, x3
<1>4. u \in Inodes /\ u.second = x1 /\ u.first = v.first /\ u.direct = v.direct
  BY <1>1, <1>2 DEF Inodes
<1>5. SlotSets(d, m1, x1, 0, x2) /\ SlotSets(e, w1, x1, 0, x2)
  BY <1>1, <1>2, SlotSet
<1> HIDE DEF m1, w1
<1>6. SlotSets(m1, m, x2, 0, x3) /\ SlotSets(w1, w, x2, 0, x3)
  <2>1. m1 \in Stores /\ w1 \in Stores
    BY <1>5 DEF SlotSets
  <2>2. QED  BY <2>1, <1>1, <1>2, SlotSet
<1> HIDE DEF m, w, u
<1>7. /\ m \in Stores /\ w \in Stores
      /\ w[x1][0] = x2 /\ \A i \in Files!Cells : i # 0 => w[x1][i] = 0
      /\ w[x2][0] = x3 /\ m[x1] = w[x1] /\ m[x2] = w[x2]
      /\ \A y \in Files!Blocks : y # x1 /\ y # x2 => m[y] = d[y] /\ w[y] = e[y]
  <2>1. m[x1] = m1[x1] /\ w[x1] = w1[x1] /\ m1[x2] = d[x2] /\ w1[x2] = e[x2]
    BY <1>2, <1>5, <1>6 DEF SlotSets
  <2>2. m1[x1] = w1[x1] /\ w1[x1][0] = x2 /\ \A i \in Files!Cells : i # 0 => w1[x1][i] = 0
    BY <1>2, <1>5 DEF SlotSets
  <2>3. m[x2] = w[x2] /\ w[x2][0] = x3
    BY <1>2, <1>6, <2>1 DEF SlotSets
  <2>4. \A y \in Files!Blocks : y # x1 /\ y # x2 => m[y] = d[y] /\ w[y] = e[y]
    BY <1>5, <1>6 DEF SlotSets
  <2>5. m \in Stores /\ w \in Stores
    BY <1>6 DEF SlotSets
  <2>6. QED  BY <2>1, <2>2, <2>3, <2>4, <2>5
<1>8. \A x \in Files!Places(k) : Files!At(w, u, x) = Files!At(e, v, x)
  <2>1. \A j \in 0 .. k - 1 : ~ (j >= Files!Area)
    BY <1>1
  <2>2. ~ (k > Files!Area)
    BY <1>1
  <2>3. w[v.first] = e[v.first]
    BY <1>2, <1>3, <1>7
  <2>4. SlotsSame(e, w, v, u, k)
    BY <1>4, <2>1, <2>2, <2>3 DEF SlotsSame
  <2>5. QED  BY <1>1, <2>4, AtSame
<1>9. /\ k >= Files!Area /\ ~ (k < Direct) /\ ~ (k < Files!Area) /\ k # Direct
      /\ Files!Turn(k) = 0 /\ Files!Rest(k) = 0 /\ (k + 1) - 1 = k
  BY <1>1, TurnNext
<1>10. \A x : x \in Files!Places(k + 1) \ Files!Places(k) <=>
                 x = <<"data", k>> \/ x = <<"second", 0>> \/ x = <<"index", 0>>
  BY <1>1, <1>9, NewPlaces
<1>11. /\ Files!At(w, u, <<"data", k>>) = x3 /\ Files!DataAt(w, u, k) = x3
       /\ Files!At(w, u, <<"second", 0>>) = x1 /\ Files!At(w, u, <<"index", 0>>) = x2
  <2>1. Files!DataAt(w, u, k) = x3
    BY <1>4, <1>7, <1>9 DEF Files!DataAt
  <2>2. QED  BY <1>4, <1>7, <2>1 DEF Files!At
<1>12. /\ \A x \in Files!Places(k + 1) \ Files!Places(k) : Files!At(w, u, x) \in Files!Blocks \ c /\ Files!At(w, u, x) # 0
       /\ \A x, y \in Files!Places(k + 1) \ Files!Places(k) : Files!At(w, u, x) = Files!At(w, u, y) => x = y
       /\ {Files!At(w, u, x) : x \in Files!Places(k + 1) \ Files!Places(k)} = {x1, x2, x3}
  BY <1>2, <1>10, <1>11
<1>13. \A y \in Files!Blocks : m[y] # d[y] \/ w[y] # e[y] =>
          k >= Files!Area /\ (y = u.second \/ y = w[u.second][Files!Turn(k)])
  BY <1>4, <1>7, <1>9
<1>14. \A i \in Files!Turn((k + 1) - 1) + 1 .. Pointers - 1 : w[u.second][i] = 0
  <2>1. SUFFICES ASSUME NEW i \in 1 .. Pointers - 1 PROVE w[x1][i] = 0
    BY <1>4, <1>9
  <2>2. i \in Files!Cells /\ i # 0
    BY <1>1 DEF Files!Cells
  <2>3. QED  BY <1>7, <2>2
<1>15. /\ m[Files!DataAt(w, u, k)] = w[Files!DataAt(w, u, k)] /\ m[u.second] = w[u.second]
       /\ \A i \in 0 .. Files!Turn(k) : m[w[u.second][i]] = w[w[u.second][i]]
  <2>1. \A i \in 0 .. Files!Turn(k) : i = 0
    BY <1>9
  <2>2. QED  BY <1>2, <1>4, <1>7, <1>11, <2>1
<1>16. Grew(k, v, u, m, w, c \cup {x1, x2, x3}, k, k + 1)
  <2>1. u \in Inodes /\ m \in Stores /\ w \in Stores
    BY <1>4, <1>7
  <2>2. QED  BY <2>1, <1>8, <1>9, <1>12, <1>13, <1>14, <1>15, Zenon DEF Grew
<1>17. QED  BY <1>16 DEF u, m, w, m1, w1, x1, x2, x3

\* What the cases of a doubly indirect block use.
Doubles(k, v) ==
    /\ v.first \in c /\ v.second \in c /\ v.first # v.second /\ c \subseteq Files!Blocks
    /\ Files!Turn(k - 1) \in Nat /\ Files!Turn(k) \in Nat /\ Files!Turn(k) < Pointers
    /\ \A i \in 0 .. Files!Turn(k - 1) :
          /\ e[v.second][i] \in c /\ e[v.second][i] # v.first /\ e[v.second][i] # v.second
          /\ \A i2 \in 0 .. Files!Turn(k - 1) : e[v.second][i] = e[v.second][i2] => i = i2
    /\ \A i \in Files!Turn(k - 1) + 1 .. Pointers - 1 : e[v.second][i] = 0
    /\ d[v.second] = e[v.second] /\ \A i \in 0 .. Files!Turn(k) : d[e[v.second][i]] = e[e[v.second][i]]
    /\ \A j \in 0 .. k - 1 : j >= Files!Area => Files!Turn(j) \in 0 .. Files!Turn(k - 1) /\ Files!Rest(j) \in Files!Cells
    /\ k - 1 >= Files!Area /\ k - 1 \in Nat

LEMMA DoublyInWrite ==
    ASSUME NEW o, NEW p, NEW n, NEW k, NEW v, Writing(o, p, n, k, v),
           k = Files!Count(Len(g[o])), k > Files!Area
    PROVE  Doubles(k, v)
<1>1. Files!Area \in Nat /\ Direct \in Nat /\ Files!Area >= Direct /\ k \in Nat /\ Pointers \in Nat /\ Pointers <= BlockSize
      /\ BlockSize \in Nat
  BY WritingFacts, Widths
<1>2. k - 1 >= Files!Area /\ k - 1 \in Nat /\ k >= Files!Area /\ k > Direct
  BY <1>1
<1>3. /\ v.first \in c /\ v.second \in c /\ v.first # v.second
      /\ \A i \in 0 .. Files!Turn(k - 1) :
                 /\ e[v.second][i] \in c /\ e[v.second][i] # v.first /\ e[v.second][i] # v.second
                 /\ \A i2 \in 0 .. Files!Turn(k - 1) : e[v.second][i] = e[v.second][i2] => i = i2
  BY <1>2, OwnIndices
<1>4. c \subseteq Files!Blocks /\ \A i \in Files!Turn(k - 1) + 1 .. Pointers - 1 : e[v.second][i] = 0
  BY <1>2, OwnBlocks
<1>5. d[v.second] = e[v.second] /\ \A i \in 0 .. Files!Turn(k) : d[e[v.second][i]] = e[e[v.second][i]]
  BY <1>2, WarmInWrite
<1>6. Files!Turn(k - 1) \in Nat /\ Files!Turn(k) \in Nat /\ Files!Turn(k) < Pointers
  <2>1. k < Files!Area + Pointers * Pointers
    BY CountsOfWrite
  <2>2. QED  BY <1>1, <1>2, <2>1, Turns, TurnNext
<1>7. ASSUME NEW j \in 0 .. k - 1, j >= Files!Area
      PROVE  Files!Turn(j) \in 0 .. Files!Turn(k - 1) /\ Files!Rest(j) \in Files!Cells
  <2>1. j \in Nat /\ j <= k - 1
    BY <1>1
  <2>2. Files!Turn(j) \in Nat /\ Files!Turn(j) <= Files!Turn(k - 1)
    BY <1>2, <1>7, <2>1, Turns, TurnsGrow
  <2>3. Files!Rest(j) \in Nat /\ Files!Rest(j) < Pointers
    BY <1>7, <2>1, Turns
  <2>4. QED  BY <1>1, <1>6, <2>2, <2>3 DEF Files!Cells
<1>8. QED  BY <1>2, <1>3, <1>4, <1>5, <1>6, <1>7 DEF Doubles

LEMMA GrewIndex ==
    ASSUME NEW o, NEW p, NEW n, NEW k, NEW v, Writing(o, p, n, k, v),
           k # 0, k = Files!Count(Len(g[o])), k > Files!Area, Files!Rest(k) = 0
    PROVE  Grew(k, v, v,
                [[d EXCEPT ![v.second][Files!Turn(k)] = Files!Fresh[1]] EXCEPT ![Files!Fresh[1]][0] = Files!Fresh[2]],
                [[e EXCEPT ![v.second][Files!Turn(k)] = Files!Fresh[1]] EXCEPT ![Files!Fresh[1]][0] = Files!Fresh[2]],
                c \cup {Files!Fresh[1], Files!Fresh[2]}, k, k + 1)
<1> DEFINE x1 == Files!Fresh[1]
           x2 == Files!Fresh[2]
           t == Files!Turn(k)
           z == v.second
           m1 == [d EXCEPT ![z][t] = x1]
           w1 == [e EXCEPT ![z][t] = x1]
           m == [m1 EXCEPT ![x1][0] = x2]
           w == [w1 EXCEPT ![x1][0] = x2]
<1>1. v \in Inodes /\ d \in Stores /\ e \in Stores /\ k \in Nat \ {0} /\ Direct \in Nat \ {0}
      /\ Files!Area \in Nat /\ Files!Area = Direct + Pointers /\ Pointers \in Nat \ {0} /\ 0 \in Files!Cells
      /\ Pointers <= BlockSize /\ BlockSize \in Nat
  BY WritingFacts, Widths DEF Files!Cells
<1>2. /\ x1 \in Files!Blocks \ c /\ x1 # 0 /\ d[x1] = e[x1] /\ x1 \in Nat
      /\ x2 \in Files!Blocks \ c /\ x2 # 0 /\ d[x2] = e[x2] /\ x2 \in Nat
      /\ x1 # x2
  BY FreshInWrite
<1>3. /\ v.first \in c /\ z \in c /\ v.first # z /\ c \subseteq Files!Blocks
      /\ t \in Nat /\ t < Pointers
      /\ \A i \in 0 .. Files!Turn(k - 1) : e[z][i] \in c /\ e[z][i] # v.first /\ e[z][i] # z
      /\ \A i \in Files!Turn(k - 1) + 1 .. Pointers - 1 : e[z][i] = 0
      /\ d[z] = e[z] /\ \A i \in 0 .. t : d[e[z][i]] = e[e[z][i]]
      /\ \A j \in 0 .. k - 1 : j >= Files!Area => Files!Turn(j) \in 0 .. Files!Turn(k - 1)
  <2>1. Doubles(k, v)
    BY DoublyInWrite
  <2>2. QED  BY <2>1 DEF Doubles
<1>4. Files!Turn(k - 1) = t - 1 /\ t \in Files!Cells
  BY <1>1, <1>3, TurnNext DEF Files!Cells
<1>5. z \in Files!Blocks /\ z # x1 /\ z # x2
  BY <1>2, <1>3
<1> HIDE DEF x1, x2, t, z
<1>6. SlotSets(d, m1, z, t, x1) /\ SlotSets(e, w1, z, t, x1)
  BY <1>1, <1>2, <1>4, <1>5, SlotSet
<1> HIDE DEF m1, w1
<1>7. SlotSets(m1, m, x1, 0, x2) /\ SlotSets(w1, w, x1, 0, x2)
  <2>1. m1 \in Stores /\ w1 \in Stores
    BY <1>6 DEF SlotSets
  <2>2. QED  BY <2>1, <1>1, <1>2, SlotSet
<1> HIDE DEF m, w
<1>8. /\ m \in Stores /\ w \in Stores
      /\ w[z][t] = x1 /\ \A i \in Files!Cells : i # t => w[z][i] = e[z][i]
      /\ w[x1][0] = x2 /\ m[x1] = w[x1] /\ m[z] = w[z]
      /\ \A y \in Files!Blocks : y # z /\ y # x1 => m[y] = d[y] /\ w[y] = e[y]
  <2>1. m[z] = m1[z] /\ w[z] = w1[z] /\ m1[x1] = d[x1] /\ w1[x1] = e[x1]
    BY <1>2, <1>5, <1>6, <1>7 DEF SlotSets
  <2>2. m1[z] = w1[z] /\ w1[z][t] = x1 /\ \A i \in Files!Cells : i # t => w1[z][i] = e[z][i]
    BY <1>3, <1>6 DEF SlotSets
  <2>3. m[x1] = w[x1] /\ w[x1][0] = x2
    BY <1>2, <1>7, <2>1 DEF SlotSets
  <2>4. \A y \in Files!Blocks : y # z /\ y # x1 => m[y] = d[y] /\ w[y] = e[y]
    BY <1>6, <1>7 DEF SlotSets
  <2>5. m \in Stores /\ w \in Stores
    BY <1>7 DEF SlotSets
  <2>6. QED  BY <2>1, <2>2, <2>3, <2>4, <2>5
<1>9. \A i \in 0 .. t - 1 : i \in Files!Cells /\ w[z][i] = e[z][i] /\ e[z][i] \in Files!Blocks /\ e[z][i] # z
                            /\ e[z][i] # x1 /\ w[e[z][i]] = e[e[z][i]] /\ m[e[z][i]] = d[e[z][i]]
  <2>1. SUFFICES ASSUME NEW i \in 0 .. t - 1
                 PROVE  i \in Files!Cells /\ w[z][i] = e[z][i] /\ e[z][i] \in Files!Blocks /\ e[z][i] # z
                        /\ e[z][i] # x1 /\ w[e[z][i]] = e[e[z][i]] /\ m[e[z][i]] = d[e[z][i]]
    OBVIOUS
  <2>2. i \in Files!Cells /\ i # t
    BY <1>1, <1>3 DEF Files!Cells
  <2>3. e[z][i] \in c /\ e[z][i] # z
    BY <1>3, <1>4
  <2>4. e[z][i] \in Files!Blocks /\ e[z][i] # x1
    BY <1>2, <1>3, <2>3
  <2>5. QED  BY <1>8, <2>2, <2>3, <2>4
<1>10. \A x \in Files!Places(k) : Files!At(w, v, x) = Files!At(e, v, x)
  <2>1. w[v.first] = e[v.first]
    BY <1>2, <1>3, <1>8
  <2>2. \A j \in 0 .. k - 1 : j >= Files!Area => w[e[z][Files!Turn(j)]] = e[e[z][Files!Turn(j)]]
    BY <1>3, <1>4, <1>9
  <2>3. \A i \in 0 .. Files!Turn(k - 1) : w[z][i] = e[z][i]
    BY <1>4, <1>9
  <2>4. SlotsSame(e, w, v, v, k)
    BY <2>1, <2>2, <2>3 DEF SlotsSame, z
  <2>5. QED  BY <1>1, <2>4, AtSame
<1>11. /\ k >= Files!Area /\ ~ (k < Direct) /\ ~ (k < Files!Area) /\ k # Direct /\ k # Files!Area /\ (k + 1) - 1 = k
  BY <1>1
<1>12. \A x : x \in Files!Places(k + 1) \ Files!Places(k) <=> x = <<"data", k>> \/ x = <<"index", t>>
  BY <1>1, <1>11, NewPlaces DEF t
<1>13. /\ Files!At(w, v, <<"data", k>>) = x2 /\ Files!DataAt(w, v, k) = x2 /\ Files!At(w, v, <<"index", t>>) = x1
  <2>1. Files!DataAt(w, v, k) = w[w[z][t]][0]
    BY <1>11 DEF Files!DataAt, z, t
  <2>2. Files!At(w, v, <<"index", t>>) = w[z][t]
    BY DEF Files!At, z
  <2>3. Files!At(w, v, <<"data", k>>) = Files!DataAt(w, v, k)
    BY DEF Files!At
  <2>4. QED  BY <1>8, <2>1, <2>2, <2>3
<1>14. /\ \A x \in Files!Places(k + 1) \ Files!Places(k) : Files!At(w, v, x) \in Files!Blocks \ c /\ Files!At(w, v, x) # 0
       /\ \A x, y \in Files!Places(k + 1) \ Files!Places(k) : Files!At(w, v, x) = Files!At(w, v, y) => x = y
       /\ {Files!At(w, v, x) : x \in Files!Places(k + 1) \ Files!Places(k)} = {x1, x2}
  BY <1>2, <1>12, <1>13
<1>15. \A y \in Files!Blocks : m[y] # d[y] \/ w[y] # e[y] =>
          k >= Files!Area /\ (y = v.second \/ y = w[v.second][Files!Turn(k)])
  BY <1>8, <1>11 DEF z, t
<1>16. \A i \in Files!Turn((k + 1) - 1) + 1 .. Pointers - 1 : w[v.second][i] = 0
  <2>1. SUFFICES ASSUME NEW i \in t + 1 .. Pointers - 1 PROVE w[z][i] = 0
    BY <1>11 DEF t, z
  <2>2. i \in Files!Cells /\ i # t /\ i \in Files!Turn(k - 1) + 1 .. Pointers - 1
    BY <1>1, <1>3, <1>4, SMTT(40) DEF Files!Cells
  <2>3. QED  BY <1>3, <1>8, <2>2
<1>17. /\ m[Files!DataAt(w, v, k)] = w[Files!DataAt(w, v, k)] /\ m[v.second] = w[v.second]
       /\ \A i \in 0 .. Files!Turn(k) : m[w[v.second][i]] = w[w[v.second][i]]
  <2>1. m[x2] = w[x2]
    BY <1>2, <1>5, <1>8
  <2>2. ASSUME NEW i \in 0 .. t PROVE m[w[z][i]] = w[w[z][i]]
    <3>1. CASE i = t
      BY <1>8, <3>1
    <3>2. CASE i \in 0 .. t - 1
      BY <1>3, <1>9, <3>2
    <3>3. QED  BY <1>3, <3>1, <3>2
  <2>3. QED  BY <1>8, <1>13, <2>1, <2>2 DEF z, t
<1>18. Grew(k, v, v, m, w, c \cup {x1, x2}, k, k + 1)
  <2>1. v \in Inodes /\ m \in Stores /\ w \in Stores
    BY <1>1, <1>8
  <2>2. QED  BY <2>1, <1>10, <1>11, <1>14, <1>15, <1>16, <1>17, Zenon DEF Grew
<1>19. QED  BY <1>18 DEF m, w, m1, w1, x1, x2, z, t

LEMMA GrewDouble ==
    ASSUME NEW o, NEW p, NEW n, NEW k, NEW v, Writing(o, p, n, k, v),
           k # 0, k = Files!Count(Len(g[o])), k > Files!Area, Files!Rest(k) # 0
    PROVE  Grew(k, v, v,
                [d EXCEPT ![d[v.second][Files!Turn(k)]][Files!Rest(k)] = Files!Fresh[1]],
                [e EXCEPT ![e[v.second][Files!Turn(k)]][Files!Rest(k)] = Files!Fresh[1]],
                c \cup {Files!Fresh[1]}, k, k + 1)
<1> DEFINE x1 == Files!Fresh[1]
           t == Files!Turn(k)
           r == Files!Rest(k)
           z == v.second
           y1 == e[z][t]
           m == [d EXCEPT ![y1][r] = x1]
           w == [e EXCEPT ![y1][r] = x1]
<1>1. v \in Inodes /\ d \in Stores /\ e \in Stores /\ k \in Nat \ {0} /\ Direct \in Nat \ {0}
      /\ Files!Area \in Nat /\ Files!Area = Direct + Pointers /\ Pointers \in Nat \ {0}
      /\ Pointers <= BlockSize /\ BlockSize \in Nat
  BY WritingFacts, Widths
<1>2. x1 \in Files!Blocks \ c /\ x1 # 0 /\ d[x1] = e[x1] /\ x1 \in Nat
  BY FreshInWrite
<1>3. /\ v.first \in c /\ z \in c /\ v.first # z /\ c \subseteq Files!Blocks
      /\ t \in Nat /\ t < Pointers
      /\ \A i \in 0 .. Files!Turn(k - 1) : /\ e[z][i] \in c /\ e[z][i] # v.first /\ e[z][i] # z
                                           /\ \A i2 \in 0 .. Files!Turn(k - 1) : e[z][i] = e[z][i2] => i = i2
      /\ \A i \in Files!Turn(k - 1) + 1 .. Pointers - 1 : e[z][i] = 0
      /\ d[z] = e[z] /\ \A i \in 0 .. t : d[e[z][i]] = e[e[z][i]]
      /\ \A j \in 0 .. k - 1 : j >= Files!Area => Files!Turn(j) \in 0 .. Files!Turn(k - 1) /\ Files!Rest(j) \in Files!Cells
  <2>1. Doubles(k, v)
    BY DoublyInWrite
  <2>2. QED  BY <2>1 DEF Doubles
<1>4. Files!Turn(k - 1) = t /\ t \in Files!Cells /\ r \in Files!Cells
  <2>1. k >= Files!Area /\ r \in Nat /\ r < Pointers
    BY <1>1, Turns
  <2>2. Files!Turn(k - 1) = t
    BY <1>1, <2>1, TurnNext
  <2>3. QED  BY <1>1, <1>3, <2>1, <2>2 DEF Files!Cells
<1>5. y1 \in Files!Blocks /\ y1 \in c /\ y1 # z /\ y1 # v.first /\ y1 # x1
  BY <1>2, <1>3, <1>4
<1> HIDE DEF x1, t, r, z
<1>6. y1 = d[z][t]
  BY <1>3
<1> HIDE DEF y1
<1>7. SlotSets(d, m, y1, r, x1) /\ SlotSets(e, w, y1, r, x1)
  BY <1>1, <1>2, <1>4, <1>5, SlotSet
<1> HIDE DEF m, w
<1>8. /\ m \in Stores /\ w \in Stores
      /\ w[y1][r] = x1 /\ \A i \in Files!Cells : i # r => w[y1][i] = e[y1][i]
      /\ m[y1] = w[y1]
      /\ \A y \in Files!Blocks : y # y1 => m[y] = d[y] /\ w[y] = e[y]
  <2>1. d[y1] = e[y1]
    BY <1>3 DEF y1
  <2>2. QED  BY <1>7, <2>1 DEF SlotSets
<1>9. \A i \in 0 .. t : i # t => e[z][i] # y1 /\ e[z][i] \in Files!Blocks /\ w[e[z][i]] = e[e[z][i]] /\ m[e[z][i]] = d[e[z][i]]
  <2>1. SUFFICES ASSUME NEW i \in 0 .. t, i # t PROVE e[z][i] # y1 /\ e[z][i] \in Files!Blocks
    BY <1>8
  <2>2. t \in 0 .. t
    BY <1>3
  <2>3. QED  BY <1>3, <1>4, <2>1, <2>2 DEF y1
<1>10. w[z] = e[z] /\ m[z] = d[z] /\ w[v.first] = e[v.first]
  BY <1>3, <1>5, <1>8
<1>11. \A x \in Files!Places(k) : Files!At(w, v, x) = Files!At(e, v, x)
  <2>1. ASSUME NEW j \in 0 .. k - 1, j >= Files!Area
        PROVE  w[e[z][Files!Turn(j)]][Files!Rest(j)] = e[e[z][Files!Turn(j)]][Files!Rest(j)]
    <3>1. Files!Turn(j) \in 0 .. t /\ Files!Rest(j) \in Files!Cells
      BY <1>3, <1>4, <2>1
    <3>2. CASE Files!Turn(j) # t
      BY <1>9, <3>1, <3>2
    <3>3. CASE Files!Turn(j) = t
      <4>1. Files!Rest(j) # r
        <5>1. j \in Nat /\ k \in Nat /\ j <= k /\ j # k
          BY <1>1
        <5>2. QED  BY <2>1, <3>3, <5>1, TurnsGrow DEF t, r
      <4>2. QED  BY <1>8, <3>1, <3>3, <4>1 DEF y1
    <3>4. QED  BY <3>2, <3>3
  <2>2. SlotsSame(e, w, v, v, k)
    BY <1>10, <2>1 DEF SlotsSame, z
  <2>3. QED  BY <1>1, <2>2, AtSame
<1>12. /\ k >= Files!Area /\ ~ (k < Direct) /\ ~ (k < Files!Area) /\ k # Direct /\ k # Files!Area /\ (k + 1) - 1 = k
  BY <1>1
<1>13. \A x : x \in Files!Places(k + 1) \ Files!Places(k) <=> x = <<"data", k>>
  BY <1>1, <1>12, NewPlaces
<1>14. /\ Files!At(w, v, <<"data", k>>) = x1 /\ Files!DataAt(w, v, k) = x1
  <2>1. Files!DataAt(w, v, k) = w[w[z][t]][r]
    BY <1>12 DEF Files!DataAt, z, t, r
  <2>2. Files!At(w, v, <<"data", k>>) = Files!DataAt(w, v, k)
    BY DEF Files!At
  <2>3. QED  BY <1>8, <1>10, <2>1, <2>2 DEF y1
<1>15. /\ \A x \in Files!Places(k + 1) \ Files!Places(k) : Files!At(w, v, x) \in Files!Blocks \ c /\ Files!At(w, v, x) # 0
       /\ \A x, y \in Files!Places(k + 1) \ Files!Places(k) : Files!At(w, v, x) = Files!At(w, v, y) => x = y
       /\ {Files!At(w, v, x) : x \in Files!Places(k + 1) \ Files!Places(k)} = {x1}
  BY <1>2, <1>13, <1>14
<1>16. \A y \in Files!Blocks : m[y] # d[y] \/ w[y] # e[y] =>
          k >= Files!Area /\ (y = v.second \/ y = w[v.second][Files!Turn(k)])
  BY <1>8, <1>10, <1>12 DEF z, t, y1
<1>17. \A i \in Files!Turn((k + 1) - 1) + 1 .. Pointers - 1 : w[v.second][i] = 0
  BY <1>3, <1>4, <1>10, <1>12 DEF t, z
<1>18. /\ m[Files!DataAt(w, v, k)] = w[Files!DataAt(w, v, k)] /\ m[v.second] = w[v.second]
       /\ \A i \in 0 .. Files!Turn(k) : m[w[v.second][i]] = w[w[v.second][i]]
  <2>1. m[x1] = w[x1]
    BY <1>2, <1>5, <1>8
  <2>2. ASSUME NEW i \in 0 .. t PROVE m[w[z][i]] = w[w[z][i]]
    <3>1. CASE i = t
      BY <1>8, <1>10, <3>1 DEF y1
    <3>2. CASE i # t
      BY <1>3, <1>9, <1>10, <3>2
    <3>3. QED  BY <3>1, <3>2
  <2>3. QED  BY <1>3, <1>10, <1>14, <2>1, <2>2 DEF z, t
<1>19. Grew(k, v, v, m, w, c \cup {x1}, k, k + 1)
  <2>1. v \in Inodes /\ m \in Stores /\ w \in Stores
    BY <1>1, <1>8
  <2>2. QED  BY <2>1, <1>11, <1>12, <1>15, <1>16, <1>17, <1>18, Zenon DEF Grew
<1>20. y1 = d[v.second][Files!Turn(k)] /\ y1 = e[v.second][Files!Turn(k)]
  BY <1>6 DEF z, t, y1
<1>21. QED  BY <1>19, <1>20, Zenon DEF m, w, x1, r

\* One iteration of write, for any position.
LEMMA GrewAll ==
    ASSUME NEW o, NEW p, NEW n, NEW k, NEW v, Writing(o, p, n, k, v)
    PROVE  LET G  == Files!Grown(v, p)
               n1 == Files!Count(Len(g[o]))
               n2 == Files!Count(IF p + n > Len(g[o]) THEN p + n ELSE Len(g[o]))
           IN \E w : Grew(k, v, G.inode, G.memory, w, G.bmap, n1, n2)
<1> DEFINE G  == Files!Grown(v, p)
           n1 == Files!Count(Len(g[o]))
           n2 == Files!Count(IF p + n > Len(g[o]) THEN p + n ELSE Len(g[o]))
<1>1. p \in Nat /\ k \in Nat /\ v \in Inodes /\ d \in Stores /\ (k = 0 \/ k >= Direct \/ Files!Offset(p) = 0)
  BY WritingFacts
<1>2. k = Files!Number(p)
  BY DEF Writing
<1>3. /\ n1 \in Nat \ {0} /\ n2 \in Nat \ {0} /\ k < n2 /\ k < Files!Area + Pointers * Pointers
      /\ k = 0 => n1 = n2
      /\ k # 0 => n2 = k + 1
      /\ k # 0 /\ Files!Offset(p) = 0 => n1 = k
      /\ k # 0 /\ Files!Offset(p) # 0 => n1 = k + 1
  BY CountsOfWrite
<1>4. Direct \in Nat \ {0} /\ Files!Area \in Nat /\ Direct < Files!Area
  BY Widths
<1>5. Files!Fresh[1] \in Files!Blocks
  BY FreshInWrite
<1> HIDE DEF n1, n2
<1>6. CASE k = 0 \/ Files!Offset(p) # 0
  <2>1. k = 0 \/ (Files!Offset(p) # 0 /\ k >= Direct)
    BY <1>1, <1>6
  <2>2. G.inode = v /\ G.memory = d /\ G.bmap = c
    BY <1>1, <1>2, <2>1, GrownNot
  <2>3. n1 = n2 /\ k < n1
    BY <1>3, <1>6
  <2>4. Grew(k, v, v, d, e, c, n1, n2)
    BY <1>6, <2>3, GrewNot DEF n1
  <2>5. QED  BY <2>2, <2>4 DEF n1, n2
<1>7. CASE k # 0 /\ Files!Offset(p) = 0
  <2>0. n1 = k /\ n2 = k + 1 /\ k = Files!Count(Len(g[o]))
    BY <1>3, <1>7 DEF n1
  <2>1. SUFFICES \E w : Grew(k, v, G.inode, G.memory, w, G.bmap, k, k + 1)
    BY <2>0 DEF n1, n2
  <2> HIDE DEF G
  <2>2. CASE k < Direct
    <3>1. /\ G.inode = [v EXCEPT !.direct[k] = Files!Fresh[1]] /\ G.memory = d /\ G.bmap = c \cup {Files!Fresh[1]}
      BY <1>1, <1>2, <1>7, <2>2, GrownDirect DEF G
    <3>2. Grew(k, v, [v EXCEPT !.direct[k] = Files!Fresh[1]], d, e, c \cup {Files!Fresh[1]}, k, k + 1)
      BY <1>7, <2>0, <2>2, GrewDirect
    <3>3. QED  BY <3>1, <3>2
  <2>3. CASE k = Direct
    <3>1. /\ G.inode = [v EXCEPT !.first = Files!Fresh[1]]
          /\ G.memory = [d EXCEPT ![Files!Fresh[1]][0] = Files!Fresh[2]]
          /\ G.bmap = c \cup {Files!Fresh[1], Files!Fresh[2]}
      BY <1>1, <1>2, <1>7, <2>3, GrownFirst, ZenonT(40) DEF G
    <3>2. Grew(k, v, [v EXCEPT !.first = Files!Fresh[1]],
                [d EXCEPT ![Files!Fresh[1]][0] = Files!Fresh[2]], [e EXCEPT ![Files!Fresh[1]][0] = Files!Fresh[2]],
                c \cup {Files!Fresh[1], Files!Fresh[2]}, k, k + 1)
      BY <1>7, <2>0, <2>3, GrewFirst, Zenon
    <3>3. QED  BY <3>1, <3>2, Zenon
  <2>4. CASE k > Direct /\ k < Files!Area
    <3>1. /\ G.inode = v /\ G.memory = [d EXCEPT ![v.first][k - Direct] = Files!Fresh[1]]
          /\ G.bmap = c \cup {Files!Fresh[1]}
      BY <1>1, <1>2, <1>7, <2>4, GrownSingle DEF G
    <3>2. Grew(k, v, v, [d EXCEPT ![v.first][k - Direct] = Files!Fresh[1]],
                [e EXCEPT ![v.first][k - Direct] = Files!Fresh[1]], c \cup {Files!Fresh[1]}, k, k + 1)
      BY <1>7, <2>0, <2>4, GrewSingle, Zenon
    <3>3. QED  BY <3>1, <3>2, ZenonT(40)
  <2>5. CASE k = Files!Area
    <3>1. /\ G.inode = [v EXCEPT !.second = Files!Fresh[1]]
          /\ G.memory = [[d EXCEPT ![Files!Fresh[1]][0] = Files!Fresh[2]] EXCEPT ![Files!Fresh[2]][0] = Files!Fresh[3]]
          /\ G.bmap = c \cup {Files!Fresh[1], Files!Fresh[2], Files!Fresh[3]}
      BY <1>1, <1>2, <1>5, <1>7, <2>5, GrownSecond, ZenonT(40) DEF G
    <3>2. Grew(k, v, [v EXCEPT !.second = Files!Fresh[1]],
                [[d EXCEPT ![Files!Fresh[1]][0] = Files!Fresh[2]] EXCEPT ![Files!Fresh[2]][0] = Files!Fresh[3]],
                [[e EXCEPT ![Files!Fresh[1]][0] = Files!Fresh[2]] EXCEPT ![Files!Fresh[2]][0] = Files!Fresh[3]],
                c \cup {Files!Fresh[1], Files!Fresh[2], Files!Fresh[3]}, k, k + 1)
      BY <1>7, <2>0, <2>5, GrewSecond, Zenon
    <3>3. QED  BY <3>1, <3>2, Zenon
  <2>6. CASE k > Files!Area /\ Files!Rest(k) = 0
    <3>1. /\ G.inode = v
          /\ G.memory = [[d EXCEPT ![v.second][Files!Turn(k)] = Files!Fresh[1]] EXCEPT ![Files!Fresh[1]][0] = Files!Fresh[2]]
          /\ G.bmap = c \cup {Files!Fresh[1], Files!Fresh[2]}
      BY <1>1, <1>2, <1>3, <1>7, <2>6, GrownIndex DEF G
    <3>2. Grew(k, v, v,
                [[d EXCEPT ![v.second][Files!Turn(k)] = Files!Fresh[1]] EXCEPT ![Files!Fresh[1]][0] = Files!Fresh[2]],
                [[e EXCEPT ![v.second][Files!Turn(k)] = Files!Fresh[1]] EXCEPT ![Files!Fresh[1]][0] = Files!Fresh[2]],
                c \cup {Files!Fresh[1], Files!Fresh[2]}, k, k + 1)
      BY <1>7, <2>0, <2>6, GrewIndex, ZenonT(40)
    <3>3. QED  BY <3>1, <3>2, ZenonT(40)
  <2>7. CASE k > Files!Area /\ Files!Rest(k) # 0
    <3>1. /\ G.inode = v
          /\ G.memory = [d EXCEPT ![d[v.second][Files!Turn(k)]][Files!Rest(k)] = Files!Fresh[1]]
          /\ G.bmap = c \cup {Files!Fresh[1]}
      <4>1. k >= Files!Area
        BY <1>1, <1>4, <2>7
      <4>2. QED  BY <1>1, <1>2, <1>7, <2>7, <4>1, GrownDouble DEF G
    <3>2. Grew(k, v, v,
                [d EXCEPT ![d[v.second][Files!Turn(k)]][Files!Rest(k)] = Files!Fresh[1]],
                [e EXCEPT ![e[v.second][Files!Turn(k)]][Files!Rest(k)] = Files!Fresh[1]],
                c \cup {Files!Fresh[1]}, k, k + 1)
      BY <1>7, <2>0, <2>7, GrewDouble, Zenon
    <3>3. QED  BY <3>1, <3>2, Zenon
  <2>8. QED  BY <1>1, <1>4, <2>2, <2>3, <2>4, <2>5, <2>6, <2>7
<1>8. QED  BY <1>6, <1>7

----------------------------------------------------------------------------
(* What an iteration of write leaves                                       *)

\* The write of n cells at p, and the blocks as they are when the way to p has been made.
Grows(o, p, n, k, v, u, m, w, r, n1, n2) ==
    /\ Writing(o, p, n, k, v) /\ Grew(k, v, u, m, w, r, n1, n2)
    /\ n1 = Files!Count(Len(g[o]))
    /\ n2 = Files!Count(IF p + n > Len(g[o]) THEN p + n ELSE Len(g[o]))

\* What that says of the places of the file.
Placed(k, v, u, w, r, n1, n2) ==
    /\ n1 \in Nat \ {0} /\ n2 \in Nat \ {0} /\ k \in 0 .. n2 - 1 /\ (k # 0 => n2 - 1 = k)
    /\ Files!Places(n1) \subseteq Files!Places(n2) /\ n1 <= n2
    /\ \A x \in Files!Places(n2) : Files!At(w, u, x) \in Files!Blocks /\ Files!At(w, u, x) # 0
    /\ \A x \in Files!Places(n1) : Files!At(w, u, x) = Files!At(e, v, x) /\ Files!At(w, u, x) \in c
    /\ \A x \in Files!Places(n2) \ Files!Places(n1) : Files!At(w, u, x) \notin c
    /\ \A x, y \in Files!Places(n2) : Files!At(w, u, x) = Files!At(w, u, y) => x = y
    /\ r = c \cup {Files!At(w, u, x) : x \in Files!Places(n2) \ Files!Places(n1)}

LEMMA PlacedThere ==
    ASSUME NEW o, NEW p, NEW n, NEW k, NEW v, NEW u, NEW m, NEW w, NEW r, NEW n1, NEW n2,
           Grows(o, p, n, k, v, u, m, w, r, n1, n2)
    PROVE  Placed(k, v, u, w, r, n1, n2)
<1>1. Writing(o, p, n, k, v) /\ n1 = Files!Count(Len(g[o]))
      /\ n2 = Files!Count(IF p + n > Len(g[o]) THEN p + n ELSE Len(g[o]))
  BY DEF Grows
<1>2. k \in Nat
  BY <1>1, WritingFacts
<1>3. /\ n1 \in Nat \ {0} /\ n2 \in Nat \ {0} /\ k < n2
      /\ k = 0 => n1 = n2
      /\ k # 0 => n2 = k + 1
      /\ k # 0 => n1 = k \/ n1 = k + 1
  BY <1>1, CountsOfWrite
<1>4. k \in 0 .. n2 - 1 /\ (k # 0 => n2 - 1 = k) /\ n1 <= n2 /\ (n1 = n2 \/ n2 = n1 + 1)
  BY <1>2, <1>3
<1>5. Files!Places(n1) \subseteq Files!Places(n2)
  BY <1>3, <1>4, PlacesMonotone
<1>6. /\ \A x \in Files!Places(n1) : Files!At(w, u, x) = Files!At(e, v, x)
      /\ \A x \in Files!Places(n2) \ Files!Places(n1) : Files!At(w, u, x) \in Files!Blocks \ c /\ Files!At(w, u, x) # 0
      /\ \A x, y \in Files!Places(n2) \ Files!Places(n1) : Files!At(w, u, x) = Files!At(w, u, y) => x = y
      /\ r = c \cup {Files!At(w, u, x) : x \in Files!Places(n2) \ Files!Places(n1)}
  BY DEF Grows, Grew
<1>7. /\ \A x \in Files!Places(n1) : Files!At(e, v, x) \in c /\ Files!At(e, v, x) # 0
                                     /\ Files!At(e, v, x) \in Files!Blocks
      /\ \A x, y \in Files!Places(n1) : Files!At(e, v, x) = Files!At(e, v, y) => x = y
  BY <1>1, OwnBlocks
<1>8. \A x, y \in Files!Places(n2) : Files!At(w, u, x) = Files!At(w, u, y) => x = y
  <2>1. SUFFICES ASSUME NEW x \in Files!Places(n2), NEW y \in Files!Places(n2), Files!At(w, u, x) = Files!At(w, u, y)
                 PROVE  x = y
    OBVIOUS
  <2>2. CASE x \in Files!Places(n1) /\ y \in Files!Places(n1)
    <3>1. Files!At(e, v, x) = Files!At(e, v, y)
      BY <1>6, <2>1, <2>2
    <3>2. QED  BY <1>7, <2>2, <3>1
  <2>3. CASE x \notin Files!Places(n1) /\ y \notin Files!Places(n1)
    BY <1>6, <2>1, <2>3
  <2>4. CASE x \in Files!Places(n1) /\ y \notin Files!Places(n1)
    BY <1>6, <1>7, <2>1, <2>4
  <2>5. CASE x \notin Files!Places(n1) /\ y \in Files!Places(n1)
    BY <1>6, <1>7, <2>1, <2>5
  <2>6. QED  BY <2>2, <2>3, <2>4, <2>5
<1>9. \A x \in Files!Places(n2) : Files!At(w, u, x) \in Files!Blocks /\ Files!At(w, u, x) # 0
  BY <1>6, <1>7
<1>10. \A x \in Files!Places(n1) : Files!At(w, u, x) = Files!At(e, v, x) /\ Files!At(w, u, x) \in c
  BY <1>6, <1>7
<1>11. \A x \in Files!Places(n2) \ Files!Places(n1) : Files!At(w, u, x) \notin c
  BY <1>6
<1>12. QED  BY <1>3, <1>4, <1>5, <1>6, <1>8, <1>9, <1>10, <1>11, Zenon DEF Placed

\* The block that is written to, and the places on the way there.
Reaches(k, u, m, w) ==
    /\ Files!DataAt(m, u, k) = Files!DataAt(w, u, k)
    /\ Files!DataAt(w, u, k) = Files!At(w, u, <<"data", k>>)
    /\ k >= Direct => u.first = Files!At(w, u, <<"first", 0>>)
    /\ k >= Files!Area => /\ u.second = Files!At(w, u, <<"second", 0>>)
                          /\ \A i : w[u.second][i] = Files!At(w, u, <<"index", i>>)
                          /\ Files!Turn(k) \in Nat /\ Files!Turn(k) < Pointers

LEMMA ReachesData ==
    ASSUME NEW o, NEW p, NEW n, NEW k, NEW v, NEW u, NEW m, NEW w, NEW r, NEW n1, NEW n2,
           Grows(o, p, n, k, v, u, m, w, r, n1, n2)
    PROVE  Reaches(k, u, m, w)
<1>1. Writing(o, p, n, k, v) /\ Grew(k, v, u, m, w, r, n1, n2)
  BY DEF Grows
<1>2. k \in Nat
  BY <1>1, WritingFacts
<1>3. k < Files!Area + Pointers * Pointers
  BY <1>1, CountsOfWrite
<1>4. Direct \in Nat /\ Files!Area \in Nat
  BY Widths
<1>5. k >= Files!Area => Files!Turn(k) \in Nat /\ Files!Turn(k) < Pointers
  BY <1>2, <1>3, Turns, TurnNext
<1>6. Files!DataAt(m, u, k) = Files!DataAt(w, u, k)
  <2>1. CASE k < Direct
    BY <2>1 DEF Files!DataAt
  <2>2. CASE ~ (k < Direct) /\ k < Files!Area
    <3>1. m[u.first] = w[u.first]
      BY <1>1, <1>2, <1>4, <2>2 DEF Grew
    <3>2. QED  BY <2>2, <3>1 DEF Files!DataAt
  <2>3. CASE ~ (k < Direct) /\ ~ (k < Files!Area)
    <3>1. k >= Files!Area
      BY <1>2, <1>4, <2>3
    <3>2. m[u.second] = w[u.second] /\ \A i \in 0 .. Files!Turn(k) : m[w[u.second][i]] = w[w[u.second][i]]
      BY <1>1, <3>1 DEF Grew
    <3>3. Files!Turn(k) \in 0 .. Files!Turn(k)
      BY <1>5, <3>1
    <3>4. QED  BY <2>3, <3>2, <3>3 DEF Files!DataAt
  <2>4. QED  BY <2>1, <2>2, <2>3
<1>7. Files!DataAt(w, u, k) = Files!At(w, u, <<"data", k>>)
  BY DEF Files!At
<1>8. u.first = Files!At(w, u, <<"first", 0>>)
  BY DEF Files!At
<1>9. u.second = Files!At(w, u, <<"second", 0>>) /\ \A i : w[u.second][i] = Files!At(w, u, <<"index", i>>)
  BY DEF Files!At
<1>10. QED  BY <1>5, <1>6, <1>7, <1>8, <1>9 DEF Reaches

\* Cells that do not reach the end of the block of the first.
LEMMA InBlock ==
    ASSUME NEW p \in Nat, NEW n \in Nat, Files!Offset(p) + n <= BlockSize
    PROVE  \A i \in p .. p + n - 1 : Files!Number(i) = Files!Number(p) /\ Files!Offset(i) = Files!Offset(p) + (i - p)
<1> DEFINE k == Files!Number(p)
           s == Files!Offset(p)
           y == BlockSize * k
<1>1. k \in Nat /\ s \in Nat /\ p = y + s /\ s + n <= BlockSize /\ BlockSize \in Nat
  BY Position, Widths
<1>2. y \in Nat
  BY <1>1
<1>3. SUFFICES ASSUME NEW i \in p .. p + n - 1 PROVE Files!Number(i) = k /\ Files!Offset(i) = s + (i - p)
  OBVIOUS
<1> HIDE DEF y, s, k
<1>4. s + (i - p) \in Nat /\ s + (i - p) < BlockSize /\ i = y + (s + (i - p))
  BY <1>1, <1>2
<1>5. Files!Number(y + (s + (i - p))) = k /\ Files!Offset(y + (s + (i - p))) = s + (i - p)
  BY <1>1, <1>4, PositionIs DEF y
<1>6. QED  BY <1>4, <1>5

\* A write stays in the block it starts in.
LEMMA SpanOfWrite ==
    ASSUME NEW o, NEW p, NEW n, NEW k, NEW v, Writing(o, p, n, k, v)
    PROVE  /\ p < Files!Middle /\ p + n > Files!Small <=> k >= Direct /\ k < Files!Area
           /\ p + n > Files!Middle <=> k >= Files!Area
           /\ \A i \in p .. p + n - 1 : Files!Number(i) = k /\ Files!Offset(i) = Files!Offset(p) + (i - p)
<1>1. p \in Nat /\ n \in Nat \ {0} /\ k \in Nat /\ Files!Offset(p) + n <= BlockSize
  BY WritingFacts
<1>2. k = Files!Number(p)
  BY DEF Writing
<1>3. /\ k \in Nat /\ Files!Offset(p) \in Nat /\ p = BlockSize * k + Files!Offset(p)
  BY <1>1, <1>2, Position
<1>4. BlockSize \in Nat /\ Direct \in Nat /\ Files!Area \in Nat
  BY Widths
<1>5. \A i \in p .. p + n - 1 : Files!Number(i) = k /\ Files!Offset(i) = Files!Offset(p) + (i - p)
  BY <1>1, <1>2, InBlock
<1>6. Files!Small \in Nat /\ Files!Middle \in Nat
  <2>1. Direct * BlockSize \in Nat /\ Pointers * BlockSize \in Nat
    BY FileSizes, Order
  <2>2. QED  BY <2>1, FileSizes
<1> DEFINE q == p + n - 1
<1>7. q \in Nat /\ q \in p .. p + n - 1
  BY <1>1
<1>8. Files!Number(q) = k
  BY <1>5, <1>7
<1>9. (q < Files!Small <=> k < Direct) /\ (q < Files!Middle <=> k < Files!Area)
  BY <1>7, <1>8, Areas
<1>10. p < Files!Middle <=> k < Files!Area
  BY <1>1, <1>2, Areas
<1>11. p + n > Files!Small <=> ~ (q < Files!Small)
  BY <1>1, <1>6
<1>12. p + n > Files!Middle <=> ~ (q < Files!Middle)
  BY <1>1, <1>6
<1>13. (~ (k < Direct) <=> k >= Direct) /\ (~ (k < Files!Area) <=> k >= Files!Area)
  BY <1>3, <1>4
<1>14. QED  BY <1>5, <1>9, <1>10, <1>11, <1>12, <1>13

\* The index blocks that the end of the write flushes.
LEMMA FlushedAre ==
    ASSUME NEW o, NEW p, NEW n, NEW k, NEW v, NEW u, NEW m, NEW w, NEW r, NEW n1, NEW n2,
           Grows(o, p, n, k, v, u, m, w, r, n1, n2), NEW m2, k >= Files!Area => m2[u.second] = w[u.second]
    PROVE  \A y : y \in Files!Flushed(m2, u, p, p + n) <=>
              \/ k >= Direct /\ k < Files!Area /\ y = u.first
              \/ k >= Files!Area /\ (y = u.second \/ \E i \in 0 .. Files!Turn(k) : y = w[u.second][i])
<1>1. Writing(o, p, n, k, v) /\ Grew(k, v, u, m, w, r, n1, n2)
  BY DEF Grows
<1>2. k \in Nat /\ Direct \in Nat \ {0} /\ Files!Area \in Nat /\ Files!Area >= Direct /\ Pointers \in Nat
  BY <1>1, WritingFacts, Widths
<1>3. (p < Files!Middle /\ p + n > Files!Small <=> k >= Direct /\ k < Files!Area)
      /\ (p + n > Files!Middle <=> k >= Files!Area)
  BY <1>1, SpanOfWrite
<1> DEFINE J == {j \in 0 .. Pointers - 1 : \A i \in 0 .. j : m2[u.second][i] # 0}
<1>4. \A y : y \in Files!Flushed(m2, u, p, p + n) <=>
              \/ k >= Direct /\ k < Files!Area /\ y = u.first
              \/ k >= Files!Area /\ (y = u.second \/ \E i \in J : y = m2[u.second][i])
  BY <1>3, Zenon DEF Files!Flushed
<1>5. ASSUME k >= Files!Area PROVE J = 0 .. Files!Turn(k) /\ m2[u.second] = w[u.second]
  <2>1. Reaches(k, u, m, w) /\ Placed(k, v, u, w, r, n1, n2)
    BY ReachesData, PlacedThere
  <2>2. Files!Turn(k) \in Nat /\ Files!Turn(k) < Pointers /\ \A i : w[u.second][i] = Files!At(w, u, <<"index", i>>)
    BY <1>5, <2>1 DEF Reaches
  <2>3. k # 0 /\ n2 \in Nat \ {0} /\ n2 - 1 = k /\ n2 > Files!Area /\ n2 \in Nat /\ k \in 0 .. n2 - 1
        /\ \A x \in Files!Places(n2) : Files!At(w, u, x) # 0
    BY <1>2, <1>5, <2>1 DEF Placed
  <2>4. \A i \in Files!Turn(k) + 1 .. Pointers - 1 : w[u.second][i] = 0
    BY <1>1, <2>3 DEF Grew
  <2>5. \A i \in 0 .. Files!Turn(k) : w[u.second][i] # 0
    <3>1. ASSUME NEW i \in 0 .. Files!Turn(k) PROVE <<"index", i>> \in Files!Places(n2)
      BY <2>3, InPlaces
    <3>2. QED  BY <2>2, <2>3, <3>1
  <2>6. ASSUME NEW j \in J PROVE j \in 0 .. Files!Turn(k)
    <3>1. j \in 0 .. Pointers - 1 /\ w[u.second][j] # 0
      BY <1>2, <1>5
    <3>2. j \notin Files!Turn(k) + 1 .. Pointers - 1
      BY <2>4, <3>1
    <3>3. QED  BY <1>2, <2>2, <3>1, <3>2
  <2>7. ASSUME NEW j \in 0 .. Files!Turn(k) PROVE j \in J
    <3>1. j \in 0 .. Pointers - 1 /\ \A i \in 0 .. j : i \in 0 .. Files!Turn(k)
      BY <1>2, <2>2
    <3>2. \A i \in 0 .. j : m2[u.second][i] # 0
      BY <1>5, <2>5, <3>1
    <3>3. QED  BY <3>1, <3>2
  <2>8. QED  BY <1>5, <2>6, <2>7
<1> HIDE DEF J
<1>6. ASSUME k >= Files!Area, NEW y
      PROVE  (\E i \in J : y = m2[u.second][i]) <=> (\E i \in 0 .. Files!Turn(k) : y = w[u.second][i])
  BY <1>5, <1>6
<1>7. QED  BY <1>4, <1>6

\* The cells of block x after the write, and all blocks in memory.
Piece(p, n, x) ==
    [z \in Files!Cells |-> IF z \in Files!Offset(p) .. Files!Offset(p) + n - 1
                           THEN f.buffer[z - Files!Offset(p) + 1] ELSE x[z]]
Filled(p, n, m, y) == [m EXCEPT ![y] = Piece(p, n, m[y])]

\* What the step assigns.
Assigns(o, p, n, v) ==
    LET G == Files!Grown(v, p)
        y == Files!DataBlock(G.memory, G.inode, p)
        m == Filled(p, n, G.memory, y)
    IN /\ b' = [b EXCEPT ![o] = G.inode] /\ c' = G.bmap /\ g' = g /\ h' = h
       /\ a' = [a EXCEPT ![f.fd].writePos = p + n]
       /\ d' = m
       /\ e' = [x \in Files!Blocks |->
                   IF x \in {y} \cup IF f.todo = n THEN Files!Flushed(m, G.inode, f.from, p + n) ELSE {}
                   THEN m[x] ELSE e[x]]
       /\ f' = [f EXCEPT !.todo = @ - n]

\* The same for a write that ends with this step, where the way to p is made with u, m and r.
Ends(o, p, n, k, u, m, r) ==
    LET y  == Files!DataAt(m, u, k)
        m2 == Filled(p, n, m, y)
    IN /\ a' = [a EXCEPT ![f.fd].writePos = p + n]
       /\ b' = [b EXCEPT ![o] = u] /\ c' = r /\ d' = m2
       /\ e' = [x \in Files!Blocks |-> IF x \in {y} \cup Files!Flushed(m2, u, p, p + n) THEN m2[x] ELSE e[x]]
       /\ f' = [f EXCEPT !.todo = n - n] /\ g' = g /\ h' = h

LEMMA WriteStepIs ==
    ASSUME NEW o, NEW p, NEW n, NEW k, NEW v, Writing(o, p, n, k, v)
    PROVE  Ends(o, p, n, k, Files!Grown(v, p).inode, Files!Grown(v, p).memory, Files!Grown(v, p).bmap)
<1> DEFINE G == Files!Grown(v, p)
           y == Files!DataAt(G.memory, G.inode, k)
           m == Filled(p, n, G.memory, y)
<1>1. p \in Nat /\ Files!Chunk(p) = n /\ a[f.fd].writePos = p
  BY WritingFacts
<1>2. Files!WriteStep /\ o = a[f.fd].file /\ p = f.from /\ n = f.todo /\ k = Files!Number(p) /\ v = b[o]
  BY DEF Writing
<1>3. Files!DataBlock(G.memory, G.inode, p) = y
  BY <1>1, <1>2, WayIs
<1>4. Assigns(a[f.fd].file, a[f.fd].writePos, Files!Chunk(a[f.fd].writePos), b[a[f.fd].file])
  BY <1>2, Zenon DEF Files!WriteStep, Assigns, Filled, Piece
<1>5. Assigns(o, p, n, v)
  BY <1>1, <1>2, <1>4, Zenon
<1>6. /\ b' = [b EXCEPT ![o] = G.inode] /\ c' = G.bmap /\ g' = g /\ h' = h
      /\ a' = [a EXCEPT ![f.fd].writePos = p + n]
      /\ f' = [f EXCEPT !.todo = @ - n]
      /\ d' = m
      /\ e' = [x \in Files!Blocks |->
                  IF x \in {y} \cup IF f.todo = n THEN Files!Flushed(m, G.inode, f.from, p + n) ELSE {}
                  THEN m[x] ELSE e[x]]
  BY <1>3, <1>5, ZenonT(40) DEF Assigns
<1>7. f' = [f EXCEPT !.todo = n - n]
  BY <1>2, <1>6, Zenon
<1>8. e' = [x \in Files!Blocks |-> IF x \in {y} \cup Files!Flushed(m, G.inode, p, p + n) THEN m[x] ELSE e[x]]
  <2>1. (IF f.todo = n THEN Files!Flushed(m, G.inode, f.from, p + n) ELSE {}) = Files!Flushed(m, G.inode, p, p + n)
    BY <1>2
  <2> HIDE DEF y, m, G
  <2>2. QED  BY <1>6, <2>1
<1>9. QED  BY <1>6, <1>7, <1>8, Zenon DEF Ends

LEMMA PieceOf ==
    ASSUME NEW o, NEW p, NEW n, NEW k, NEW v, Writing(o, p, n, k, v), NEW m \in Stores, NEW y \in Files!Blocks
    PROVE  /\ Filled(p, n, m, y) \in Stores
           /\ \A x \in Files!Blocks : x # y => Filled(p, n, m, y)[x] = m[x]
           /\ Filled(p, n, m, y)[y] = Piece(p, n, m[y])
           /\ \A z \in Files!Offset(p) .. Files!Offset(p) + n - 1 :
                 z \in Files!Cells /\ Piece(p, n, m[y])[z] = f.buffer[z - Files!Offset(p) + 1]
           /\ \A z \in Files!Cells : z \notin Files!Offset(p) .. Files!Offset(p) + n - 1 => Piece(p, n, m[y])[z] = m[y][z]
<1>1. p \in Nat /\ n \in Nat \ {0} /\ Files!Offset(p) + n <= BlockSize /\ f.buffer \in Seq(Nat) /\ Len(f.buffer) = n
  BY WritingFacts
<1>2. Files!Offset(p) \in Nat /\ BlockSize \in Nat
  BY <1>1, Position, Widths
<1> DEFINE s == Files!Offset(p)
<1> HIDE DEF s
<1>3. s \in Nat /\ s + n <= BlockSize
  BY <1>1, <1>2 DEF s
<1>4. \A z \in s .. s + n - 1 : z \in Files!Cells /\ z - s + 1 \in 1 .. n
  BY <1>1, <1>2, <1>3 DEF Files!Cells
<1>5. \A z \in s .. s + n - 1 : f.buffer[z - s + 1] \in Nat
  BY <1>1, <1>4
<1>6. m[y] \in [Files!Cells -> Nat]
  BY DEF Stores
<1>7. Piece(p, n, m[y]) = [z \in Files!Cells |-> IF z \in s .. s + n - 1 THEN f.buffer[z - s + 1] ELSE m[y][z]]
  BY Zenon DEF Piece, s
<1>8. /\ Piece(p, n, m[y]) \in [Files!Cells -> Nat]
      /\ \A z \in s .. s + n - 1 : z \in Files!Cells /\ Piece(p, n, m[y])[z] = f.buffer[z - s + 1]
      /\ \A z \in Files!Cells : z \notin s .. s + n - 1 => Piece(p, n, m[y])[z] = m[y][z]
  BY <1>4, <1>5, <1>6, <1>7
<1> DEFINE q == Piece(p, n, m[y])
<1>9. q \in [Files!Cells -> Nat]
  BY <1>8
<1> HIDE DEF q
<1>10. [m EXCEPT ![y] = q] \in Stores /\ [m EXCEPT ![y] = q][y] = q
       /\ \A x \in Files!Blocks : x # y => [m EXCEPT ![y] = q][x] = m[x]
  BY <1>9 DEF Stores
<1>11. Filled(p, n, m, y) = [m EXCEPT ![y] = q]
  BY Zenon DEF Filled, q
<1>12. QED  BY <1>8, <1>10, <1>11 DEF q, s

\* What an iteration of write leaves, told of the card alone.
Wrote(o, p, n, k, v, u, n1, n2) ==
    /\ u \in Inodes /\ b' = [b EXCEPT ![o] = u] /\ d' \in Stores /\ e' \in Stores
    /\ n1 \in Nat \ {0} /\ n2 \in Nat \ {0} /\ k \in 0 .. n2 - 1 /\ n1 <= n2
    /\ Files!Places(n1) \subseteq Files!Places(n2)
    /\ \A x \in Files!Places(n1) : Files!At(e', u, x) = Files!At(e, v, x) /\ Files!At(e', u, x) \in c
    /\ \A x \in Files!Places(n2) \ Files!Places(n1) : Files!At(e', u, x) \notin c
    /\ \A x \in Files!Places(n2) : Files!At(e', u, x) \in Files!Blocks /\ Files!At(e', u, x) # 0
    /\ \A x, y \in Files!Places(n2) : Files!At(e', u, x) = Files!At(e', u, y) => x = y
    /\ c' = c \cup {Files!At(e', u, x) : x \in Files!Places(n2) \ Files!Places(n1)}
    /\ \A y \in Files!Blocks : d'[y] # d[y] \/ e'[y] # e[y] => \E x \in Files!Places(n2) : y = Files!At(e', u, x)
    /\ n2 > Files!Area => \A i \in Files!Turn(n2 - 1) + 1 .. Pointers - 1 : e'[u.second][i] = 0
    /\ \A z \in Files!Offset(p) .. Files!Offset(p) + n - 1 :
          e'[Files!DataAt(e', u, k)][z] = f.buffer[z - Files!Offset(p) + 1]
    /\ \A j \in 0 .. n1 - 1, z \in Files!Cells :
          ~ (j = k /\ z \in Files!Offset(p) .. Files!Offset(p) + n - 1) =>
             e'[Files!DataAt(e', u, j)][z] = e[Files!DataAt(e, v, j)][z]

LEMMA WroteBy ==
    ASSUME NEW o, NEW p, NEW n, NEW k, NEW v, NEW u, NEW m, NEW w, NEW r, NEW n1, NEW n2,
           Grows(o, p, n, k, v, u, m, w, r, n1, n2),
           u = Files!Grown(v, p).inode, m = Files!Grown(v, p).memory, r = Files!Grown(v, p).bmap
    PROVE  Wrote(o, p, n, k, v, u, n1, n2)
<1> DEFINE y1 == Files!DataAt(w, u, k)
           m2 == Filled(p, n, m, y1)
           Covered == Files!Offset(p) .. Files!Offset(p) + n - 1
<1>1. Writing(o, p, n, k, v) /\ Grew(k, v, u, m, w, r, n1, n2)
  BY DEF Grows
<1>2. Placed(k, v, u, w, r, n1, n2) /\ Reaches(k, u, m, w)
  BY PlacedThere, ReachesData
<1>3. /\ n1 \in Nat \ {0} /\ n2 \in Nat \ {0} /\ k \in 0 .. n2 - 1 /\ n1 <= n2
      /\ Files!Places(n1) \subseteq Files!Places(n2)
      /\ \A x \in Files!Places(n2) : Files!At(w, u, x) \in Files!Blocks /\ Files!At(w, u, x) # 0
      /\ \A x \in Files!Places(n1) : Files!At(w, u, x) = Files!At(e, v, x) /\ Files!At(w, u, x) \in c
      /\ \A x \in Files!Places(n2) \ Files!Places(n1) : Files!At(w, u, x) \notin c
      /\ \A x, y \in Files!Places(n2) : Files!At(w, u, x) = Files!At(w, u, y) => x = y
      /\ r = c \cup {Files!At(w, u, x) : x \in Files!Places(n2) \ Files!Places(n1)}
  BY <1>2 DEF Placed
<1>4. /\ Files!DataAt(m, u, k) = y1
      /\ y1 = Files!At(w, u, <<"data", k>>)
      /\ k >= Direct => u.first = Files!At(w, u, <<"first", 0>>)
      /\ k >= Files!Area => /\ u.second = Files!At(w, u, <<"second", 0>>)
                            /\ \A i : w[u.second][i] = Files!At(w, u, <<"index", i>>)
                            /\ Files!Turn(k) \in Nat
  BY <1>2 DEF Reaches
<1>5. /\ <<"data", k>> \in Files!Places(n2)
      /\ k >= Direct => <<"first", 0>> \in Files!Places(n2)
      /\ k >= Files!Area => <<"second", 0>> \in Files!Places(n2) /\ <<"index", Files!Turn(k)>> \in Files!Places(n2)
  BY <1>3, OnTheWay
<1>6. y1 \in Files!Blocks
  BY <1>3, <1>4, <1>5
<1>7. /\ u \in Inodes /\ m \in Stores /\ w \in Stores
      /\ \A y \in Files!Blocks : m[y] # d[y] \/ w[y] # e[y] =>
            \/ k >= Direct /\ k < Files!Area /\ y = u.first
            \/ k >= Files!Area /\ (y = u.second \/ y = w[u.second][Files!Turn(k)])
      /\ n2 > Files!Area => \A i \in Files!Turn(n2 - 1) + 1 .. Pointers - 1 : w[u.second][i] = 0
      /\ m[y1] = w[y1]
      /\ k >= Direct /\ k < Files!Area => m[u.first] = w[u.first]
      /\ k >= Files!Area => /\ m[u.second] = w[u.second]
                            /\ \A i \in 0 .. Files!Turn(k) : m[w[u.second][i]] = w[w[u.second][i]]
  BY <1>1 DEF Grew
<1> HIDE DEF y1, m2
<1>8. /\ m2 \in Stores /\ m2[y1] = Piece(p, n, w[y1])
      /\ \A y \in Files!Blocks : y # y1 => m2[y] = m[y]
      /\ \A z \in Covered : z \in Files!Cells /\ m2[y1][z] = f.buffer[z - Files!Offset(p) + 1]
      /\ \A z \in Files!Cells : z \notin Covered => m2[y1][z] = w[y1][z]
  <2>1. /\ m2 \in Stores /\ m2[y1] = Piece(p, n, m[y1])
        /\ \A y \in Files!Blocks : y # y1 => m2[y] = m[y]
        /\ \A z \in Covered : z \in Files!Cells /\ Piece(p, n, m[y1])[z] = f.buffer[z - Files!Offset(p) + 1]
        /\ \A z \in Files!Cells : z \notin Covered => Piece(p, n, m[y1])[z] = m[y1][z]
    BY <1>1, <1>6, <1>7, PieceOf DEF m2
  <2>2. QED  BY <1>7, <2>1
<1> HIDE DEF Covered
<1>9. k >= Files!Area => m2[u.second] = w[u.second]
  <2>1. ASSUME k >= Files!Area PROVE u.second \in Files!Blocks /\ u.second # y1
    BY <1>3, <1>4, <1>5, <2>1
  <2>2. QED  BY <1>7, <1>8, <2>1
<1>10. /\ b' = [b EXCEPT ![o] = u] /\ c' = r /\ d' = m2
       /\ e' = [x \in Files!Blocks |-> IF x \in {y1} \cup Files!Flushed(m2, u, p, p + n) THEN m2[x] ELSE e[x]]
  <2>1. Ends(o, p, n, k, Files!Grown(v, p).inode, Files!Grown(v, p).memory, Files!Grown(v, p).bmap)
    BY <1>1, WriteStepIs
  <2>2. Ends(o, p, n, k, u, m, r)
    BY <2>1
  <2>3. QED  BY <1>4, <2>2, Zenon DEF Ends, m2
<1>11. \A y : y \in Files!Flushed(m2, u, p, p + n) <=>
              \/ k >= Direct /\ k < Files!Area /\ y = u.first
              \/ k >= Files!Area /\ (y = u.second \/ \E i \in 0 .. Files!Turn(k) : y = w[u.second][i])
  BY <1>9, FlushedAre
<1>12. \A x \in Files!Blocks : x # y1 => e'[x] = w[x]
  <2>1. SUFFICES ASSUME NEW x \in Files!Blocks, x # y1 PROVE e'[x] = w[x]
    OBVIOUS
  <2>2. CASE x \in Files!Flushed(m2, u, p, p + n)
    <3>1. e'[x] = m[x]
      BY <1>8, <1>10, <2>1, <2>2
    <3>2. m[x] = w[x]
      BY <1>7, <1>11, <2>2
    <3>3. QED  BY <3>1, <3>2
  <2>3. CASE x \notin Files!Flushed(m2, u, p, p + n)
    <3>1. e'[x] = e[x]
      BY <1>10, <2>1, <2>3
    <3>2. w[x] = e[x]
      <4>1. k >= Files!Area => Files!Turn(k) \in 0 .. Files!Turn(k)
        BY <1>4
      <4>2. QED  BY <1>7, <1>11, <2>1, <2>3, <4>1
    <3>3. QED  BY <3>1, <3>2
  <2>4. QED  BY <2>2, <2>3
<1>13. e'[y1] = m2[y1] /\ e' \in Stores
  <2>1. e'[y1] = m2[y1]
    BY <1>6, <1>10
  <2>2. e \in Stores
    BY <1>1, WritingFacts
  <2>3. QED  BY <1>8, <1>10, <2>1, <2>2 DEF Stores
<1>14. \A y \in Files!Blocks : m[y] # d[y] \/ w[y] # e[y] =>
          \E x \in Files!Places(n2) : x[1] # "data" /\ y = Files!At(w, u, x)
  <2>1. SUFFICES ASSUME NEW y \in Files!Blocks, m[y] # d[y] \/ w[y] # e[y]
                 PROVE  \E x \in Files!Places(n2) : x[1] # "data" /\ y = Files!At(w, u, x)
    OBVIOUS
  <2>2. /\ <<"first", 0>>[1] # "data" /\ <<"second", 0>>[1] # "data" /\ <<"index", Files!Turn(k)>>[1] # "data"
    OBVIOUS
  <2>3. CASE k >= Direct /\ k < Files!Area /\ y = u.first
    BY <1>4, <1>5, <2>2, <2>3
  <2>4. CASE k >= Files!Area /\ y = u.second
    BY <1>4, <1>5, <2>2, <2>4
  <2>5. CASE k >= Files!Area /\ y = w[u.second][Files!Turn(k)]
    BY <1>4, <1>5, <2>2, <2>5
  <2>6. QED  BY <1>7, <2>1, <2>3, <2>4, <2>5
<1>15. \A x \in Files!Places(n2) : Files!At(e', u, x) = Files!At(w, u, x)
  <2>1. ASSUME NEW x \in Files!Places(n2), x[1] # "data" PROVE e'[Files!At(w, u, x)] = w[Files!At(w, u, x)]
    <3>1. x # <<"data", k>>
      BY <2>1
    <3>2. Files!At(w, u, x) # y1 /\ Files!At(w, u, x) \in Files!Blocks
      BY <1>3, <1>4, <1>5, <3>1
    <3>3. QED  BY <1>12, <3>2
  <2>2. QED  BY <1>3, <2>1, AtStays
<1>16. \A y \in Files!Blocks : d'[y] # d[y] \/ e'[y] # e[y] => \E x \in Files!Places(n2) : y = Files!At(w, u, x)
  <2>1. SUFFICES ASSUME NEW y \in Files!Blocks, d'[y] # d[y] \/ e'[y] # e[y]
                 PROVE  \E x \in Files!Places(n2) : y = Files!At(w, u, x)
    OBVIOUS
  <2>2. CASE y = y1
    BY <1>4, <1>5, <2>2
  <2>3. CASE y # y1
    BY <1>8, <1>10, <1>12, <1>14, <2>1, <2>3
  <2>4. QED  BY <2>2, <2>3
<1>17. Files!DataAt(e', u, k) = y1
  BY <1>4, <1>5, <1>15 DEF Files!At
<1>18. \A z \in Covered : e'[Files!DataAt(e', u, k)][z] = f.buffer[z - Files!Offset(p) + 1]
  BY <1>8, <1>13, <1>17
<1>19. ASSUME NEW j \in 0 .. n1 - 1, NEW z \in Files!Cells, ~ (j = k /\ z \in Covered)
       PROVE  e'[Files!DataAt(e', u, j)][z] = e[Files!DataAt(e, v, j)][z]
  <2> DEFINE x == <<"data", j>>
  <2>1. x \in Files!Places(n1) /\ x \in Files!Places(n2)
    BY <1>3, OnTheWay
  <2>2. Files!DataAt(e', u, j) = Files!At(w, u, x) /\ Files!DataAt(e, v, j) = Files!At(w, u, x)
    <3>1. Files!DataAt(e', u, j) = Files!At(e', u, x) /\ Files!DataAt(e, v, j) = Files!At(e, v, x)
      BY DEF Files!At
    <3>2. QED  BY <1>3, <1>15, <2>1, <3>1
  <2> DEFINE y == Files!At(w, u, x)
  <2>3. y \in Files!Blocks
    BY <1>3, <2>1
  <2>4. w[y] = e[y]
    <3>1. \A x2 \in Files!Places(n2) : x2[1] # "data" => y # Files!At(w, u, x2)
      <4>1. SUFFICES ASSUME NEW x2 \in Files!Places(n2), x2[1] # "data", Files!At(w, u, x) = Files!At(w, u, x2) PROVE FALSE
        OBVIOUS
      <4>2. x = x2
        BY <1>3, <2>1, <4>1
      <4>3. QED  BY <4>1, <4>2
    <3>2. QED  BY <1>14, <2>3, <3>1
  <2>5. CASE j = k
    <3>1. y = y1 /\ z \notin Covered
      BY <1>4, <1>19, <2>5
    <3>2. QED  BY <1>8, <1>13, <2>2, <2>4, <3>1
  <2>6. CASE j # k
    <3>1. y # y1
      <4>1. x # <<"data", k>>
        BY <2>6
      <4>2. QED  BY <1>3, <1>4, <1>5, <2>1, <4>1
    <3>2. QED  BY <1>12, <2>2, <2>3, <2>4, <3>1
  <2>7. QED  BY <2>5, <2>6
<1>20. n2 > Files!Area => \A i \in Files!Turn(n2 - 1) + 1 .. Pointers - 1 : e'[u.second][i] = 0
  <2>1. ASSUME n2 > Files!Area PROVE e'[u.second] = w[u.second]
    <3>1. <<"second", 0>> \in Files!Places(n2)
      BY <1>3, <2>1, InPlaces
    <3>2. u.second = Files!At(w, u, <<"second", 0>>)
      BY DEF Files!At
    <3>3. u.second \in Files!Blocks /\ u.second # y1
      BY <1>3, <1>4, <1>5, <3>1, <3>2
    <3>4. QED  BY <1>12, <3>3
  <2>2. QED  BY <1>7, <2>1
<1>21. {Files!At(e', u, x) : x \in Files!Places(n2) \ Files!Places(n1)}
         = {Files!At(w, u, x) : x \in Files!Places(n2) \ Files!Places(n1)}
  BY <1>15
<1>22. /\ \A x \in Files!Places(n1) : Files!At(e', u, x) = Files!At(e, v, x) /\ Files!At(e', u, x) \in c
       /\ \A x \in Files!Places(n2) \ Files!Places(n1) : Files!At(e', u, x) \notin c
       /\ \A x \in Files!Places(n2) : Files!At(e', u, x) \in Files!Blocks /\ Files!At(e', u, x) # 0
       /\ \A x, y \in Files!Places(n2) : Files!At(e', u, x) = Files!At(e', u, y) => x = y
       /\ c' = c \cup {Files!At(e', u, x) : x \in Files!Places(n2) \ Files!Places(n1)}
       /\ \A y \in Files!Blocks : d'[y] # d[y] \/ e'[y] # e[y] => \E x \in Files!Places(n2) : y = Files!At(e', u, x)
  <2>1. \A x \in Files!Places(n1) : Files!At(e', u, x) = Files!At(e, v, x) /\ Files!At(e', u, x) \in c
    BY <1>3, <1>15
  <2>2. \A x \in Files!Places(n2) \ Files!Places(n1) : Files!At(e', u, x) \notin c
    BY <1>3, <1>15
  <2>3. \A x \in Files!Places(n2) : Files!At(e', u, x) \in Files!Blocks /\ Files!At(e', u, x) # 0
    BY <1>3, <1>15
  <2>4. \A x, y \in Files!Places(n2) : Files!At(e', u, x) = Files!At(e', u, y) => x = y
    BY <1>3, <1>15
  <2>5. c' = c \cup {Files!At(e', u, x) : x \in Files!Places(n2) \ Files!Places(n1)}
    BY <1>3, <1>10, <1>21
  <2>6. \A y \in Files!Blocks : d'[y] # d[y] \/ e'[y] # e[y] => \E x \in Files!Places(n2) : y = Files!At(e', u, x)
    BY <1>15, <1>16
  <2>7. QED  BY <2>1, <2>2, <2>3, <2>4, <2>5, <2>6
<1>23. u \in Inodes /\ b' = [b EXCEPT ![o] = u] /\ d' \in Stores /\ e' \in Stores
  BY <1>7, <1>8, <1>10, <1>13
<1>24. QED  BY <1>3, <1>18, <1>19, <1>20, <1>22, <1>23, Zenon DEF Wrote, Covered

LEMMA WroteAll ==
    ASSUME NEW o, NEW p, NEW n, NEW k, NEW v, Writing(o, p, n, k, v)
    PROVE  Wrote(o, p, n, k, v, Files!Grown(v, p).inode, Files!Count(Len(g[o])),
                 Files!Count(IF p + n > Len(g[o]) THEN p + n ELSE Len(g[o])))
<1> DEFINE u  == Files!Grown(v, p).inode
           m  == Files!Grown(v, p).memory
           r  == Files!Grown(v, p).bmap
           n1 == Files!Count(Len(g[o]))
           n2 == Files!Count(IF p + n > Len(g[o]) THEN p + n ELSE Len(g[o]))
<1>1. PICK w : Grew(k, v, u, m, w, r, n1, n2)
  BY GrewAll, Zenon
<1>2. Grows(o, p, n, k, v, u, m, w, r, n1, n2)
  BY <1>1, Zenon DEF Grows
<1> HIDE DEF n1, n2
<1>3. u = Files!Grown(v, p).inode /\ m = Files!Grown(v, p).memory /\ r = Files!Grown(v, p).bmap
  OBVIOUS
<1> HIDE DEF u, m, r
<1>4. Wrote(o, p, n, k, v, u, n1, n2)
  BY <1>2, <1>3, WroteBy
<1>5. QED  BY <1>4, Zenon DEF u, n1, n2

Descriptors == [file : File \cup {"none"}, mode : {"none"} \cup Access, readPos : Nat, writePos : Nat]

LEMMA PositionSet ==
    ASSUME a \in [Files!Fd -> Descriptors], NEW x \in Files!Fd, NEW q \in Nat
    PROVE  /\ [a EXCEPT ![x].writePos = q] \in [Files!Fd -> Descriptors]
           /\ [a EXCEPT ![x].readPos = q] \in [Files!Fd -> Descriptors]
           /\ \A y \in Files!Fd : /\ [a EXCEPT ![x].writePos = q][y].file = a[y].file
                                  /\ [a EXCEPT ![x].readPos = q][y].file = a[y].file
<1> DEFINE r == a[x]
           r1 == [r EXCEPT !.writePos = q]
           r2 == [r EXCEPT !.readPos = q]
<1>1. r \in Descriptors
  OBVIOUS
<1> HIDE DEF r
<1>2. r1 \in Descriptors /\ r2 \in Descriptors /\ r1.file = r.file /\ r2.file = r.file
  BY <1>1 DEF Descriptors
<1> HIDE DEF r1, r2
<1>3. /\ [a EXCEPT ![x] = r1] \in [Files!Fd -> Descriptors] /\ [a EXCEPT ![x] = r2] \in [Files!Fd -> Descriptors]
      /\ \A y \in Files!Fd : /\ [a EXCEPT ![x] = r1][y].file = a[y].file
                             /\ [a EXCEPT ![x] = r2][y].file = a[y].file
  BY <1>2 DEF r
<1>4. QED  BY <1>3 DEF r1, r2, r

\* The call when the blocks have been written, and what the files then hold.
LEMMA CallAfter ==
    ASSUME NEW o, NEW p, NEW n, NEW k, NEW v, Writing(o, p, n, k, v)
    PROVE  /\ f' # Files!NoCall /\ f'.kind = "write" /\ f'.todo = 0 /\ f'.fd = f.fd /\ f'.from = p
           /\ f'.buffer = f.buffer /\ Len(f.buffer) = n
           /\ f' \in [kind : {"read", "write"}, fd : Files!Fd, from : Nat, todo : Nat, buffer : Seq(Nat)]
           /\ a' \in [Files!Fd -> Descriptors]
           /\ \A x \in Files!Fd : a'[x].file = a[x].file
           /\ g' = g
<1>1. /\ f # Files!NoCall /\ f.kind = "write" /\ f.fd \in Files!Fd /\ p \in Nat /\ n \in Nat \ {0}
      /\ Len(f.buffer) = n
  BY WritingFacts
<1>2. /\ f \in [kind : {"read", "write"}, fd : Files!Fd, from : Nat, todo : Nat, buffer : Seq(Nat)]
      /\ a \in [Files!Fd -> Descriptors]
  BY <1>1 DEF Writing, Files!FilesInv, Files!FilesTyped, Descriptors
<1>3. p = f.from
  BY DEF Writing
<1>4. a' = [a EXCEPT ![f.fd].writePos = p + n] /\ f' = [f EXCEPT !.todo = n - n] /\ g' = g
  <2>1. Ends(o, p, n, k, Files!Grown(v, p).inode, Files!Grown(v, p).memory, Files!Grown(v, p).bmap)
    BY WriteStepIs
  <2>2. QED  BY <2>1, Zenon DEF Ends
<1>5. n - n = 0 /\ p + n \in Nat /\ f' = [f EXCEPT !.todo = 0]
  <2>1. n - n = 0 /\ p + n \in Nat
    BY <1>1
  <2>2. QED  BY <1>4, <2>1
<1>6. /\ f' \in [kind : {"read", "write"}, fd : Files!Fd, from : Nat, todo : Nat, buffer : Seq(Nat)]
      /\ f'.kind = "write" /\ f'.todo = 0 /\ f'.fd = f.fd /\ f'.from = p /\ f'.buffer = f.buffer
  BY <1>1, <1>2, <1>3, <1>5
<1>7. f' # Files!NoCall
  BY <1>6 DEF Files!NoCall
<1>8. /\ a' \in [Files!Fd -> Descriptors]
      /\ \A x \in Files!Fd : a'[x].file = a[x].file
  <2> DEFINE q == p + n
             x1 == f.fd
  <2>1. q \in Nat /\ x1 \in Files!Fd /\ a \in [Files!Fd -> Descriptors]
    BY <1>1, <1>2, <1>5
  <2>2. a' = [a EXCEPT ![x1].writePos = q]
    BY <1>4
  <2> HIDE DEF q, x1
  <2>3. /\ [a EXCEPT ![x1].writePos = q] \in [Files!Fd -> Descriptors]
        /\ \A y \in Files!Fd : [a EXCEPT ![x1].writePos = q][y].file = a[y].file
    BY <2>1, PositionSet, Zenon
  <2>4. QED  BY <2>2, <2>3, Zenon
<1>9. QED  BY <1>1, <1>4, <1>6, <1>7, <1>8

LEMMA TextAfter ==
    ASSUME NEW o, NEW p, NEW n, NEW k, NEW v, Writing(o, p, n, k, v)
    PROVE  /\ \A x \in File : Files!Extent(x) = Len(g[x]) /\ \A i : Files!Content(x, i) = g[x][i + 1]
           /\ \A x \in File : x # o => Files!Extent(x)' = Len(g[x]) /\ \A i : Files!Content(x, i)' = g[x][i + 1]
           /\ Files!Extent(o)' = IF p + n > Len(g[o]) THEN p + n ELSE Len(g[o])
           /\ \A i : Files!Content(o, i)' = IF i \in p .. p + n - 1 THEN f.buffer[i - p + 1] ELSE g[o][i + 1]
<1>1. /\ f' # Files!NoCall /\ f'.kind = "write" /\ f'.todo = 0 /\ f'.fd = f.fd /\ f'.from = p
      /\ f'.buffer = f.buffer /\ Len(f.buffer) = n /\ f.fd \in Files!Fd /\ a'[f.fd].file = o /\ g' = g
      /\ n \in Nat \ {0} /\ f.todo = n /\ n # 0
  BY CallAfter, WritingFacts DEF Writing
<1>2. \A x : ~ Files!Written(x)
  BY <1>1 DEF Files!Written
<1>3. \A x : Files!Written(x)' <=> x = o
  BY <1>1 DEF Files!Written
<1>4. \A x \in File : Files!Extent(x) = Len(g[x]) /\ \A i : Files!Content(x, i) = g[x][i + 1]
  BY <1>2, Zenon DEF Files!Extent, Files!Content
<1>5. \A x \in File : x # o => Files!Extent(x)' = Len(g[x]) /\ \A i : Files!Content(x, i)' = g[x][i + 1]
  BY <1>1, <1>3 DEF Files!Extent, Files!Content
<1>6. Files!Extent(o)' = IF p + n > Len(g[o]) THEN p + n ELSE Len(g[o])
  BY <1>1, <1>3 DEF Files!Extent
<1>7. \A i : Files!Content(o, i)' = IF i \in p .. p + n - 1 THEN f.buffer[i - p + 1] ELSE g[o][i + 1]
  BY <1>1, <1>3 DEF Files!Content
<1>8. QED  BY <1>4, <1>5, <1>6, <1>7

\* The file that is written to, before and after.
LEMMA OwnAfter ==
    ASSUME NEW o, NEW p, NEW n, NEW k, NEW v, Writing(o, p, n, k, v)
    PROVE  LET u  == Files!Grown(v, p).inode
               n1 == Files!Count(Len(g[o]))
               n2 == Files!Count(IF p + n > Len(g[o]) THEN p + n ELSE Len(g[o]))
           IN /\ o \in File /\ v = b[o] /\ b'[o] = u
              /\ Files!Has(o) = Files!Places(n1) /\ Files!Has(o)' = Files!Places(n2)
              /\ \A x : Files!BlockAt(o, x) = Files!At(e, v, x) /\ Files!BlockAt(o, x)' = Files!At(e', u, x)
              /\ Wrote(o, p, n, k, v, u, n1, n2)
<1> DEFINE u  == Files!Grown(v, p).inode
           n1 == Files!Count(Len(g[o]))
           n2 == Files!Count(IF p + n > Len(g[o]) THEN p + n ELSE Len(g[o]))
<1>1. o \in File /\ v = b[o]
  BY WritingFacts DEF Writing
<1>2. Wrote(o, p, n, k, v, u, n1, n2)
  BY WroteAll, Zenon
<1> HIDE DEF u
<1>3. b' = [b EXCEPT ![o] = u]
  BY <1>2 DEF Wrote
<1>4. b \in [File -> Inodes]
  BY DEF Writing, Files!FilesInv, Files!FilesTyped, Inodes
<1>5. b'[o] = u
  BY <1>1, <1>3, <1>4
<1>6. Files!Extent(o) = Len(g[o]) /\ Files!Extent(o)' = IF p + n > Len(g[o]) THEN p + n ELSE Len(g[o])
  BY <1>1, TextAfter
<1>7. Files!Has(o) = Files!Places(n1) /\ Files!Has(o)' = Files!Places(n2)
  BY <1>6 DEF Files!Has
<1>8. \A x : Files!BlockAt(o, x) = Files!At(e, v, x) /\ Files!BlockAt(o, x)' = Files!At(e', u, x)
  BY <1>1, <1>5 DEF Files!BlockAt
<1>9. QED  BY <1>1, <1>2, <1>5, <1>7, <1>8 DEF u

\* The other files keep their blocks, and what is in them.
LEMMA OthersAfter ==
    ASSUME NEW o, NEW p, NEW n, NEW k, NEW v, Writing(o, p, n, k, v), NEW x \in File, x # o
    PROVE  /\ b'[x] = b[x] /\ Files!Has(x)' = Files!Has(x)
           /\ \A z \in Files!Has(x) : /\ Files!BlockAt(x, z)' = Files!BlockAt(x, z)
                                      /\ e'[Files!BlockAt(x, z)] = e[Files!BlockAt(x, z)]
           /\ \A z \in Files!Has(x), y \in Files!Has(o)' : Files!BlockAt(x, z) # Files!BlockAt(o, y)'
<1> DEFINE u  == Files!Grown(v, p).inode
           n1 == Files!Count(Len(g[o]))
           n2 == Files!Count(IF p + n > Len(g[o]) THEN p + n ELSE Len(g[o]))
<1>1. /\ o \in File /\ v = b[o] /\ b'[o] = u
      /\ Files!Has(o) = Files!Places(n1) /\ Files!Has(o)' = Files!Places(n2)
      /\ \A z : Files!BlockAt(o, z) = Files!At(e, v, z) /\ Files!BlockAt(o, z)' = Files!At(e', u, z)
      /\ Wrote(o, p, n, k, v, u, n1, n2)
  BY OwnAfter, Zenon
<1> HIDE DEF u, n1, n2
<1>2. /\ b' = [b EXCEPT ![o] = u]
      /\ \A z \in Files!Places(n1) : Files!At(e', u, z) = Files!At(e, v, z)
      /\ \A z \in Files!Places(n2) \ Files!Places(n1) : Files!At(e', u, z) \notin c
      /\ \A y \in Files!Blocks : e'[y] # e[y] => \E z \in Files!Places(n2) : y = Files!At(e', u, z)
  BY <1>1 DEF Wrote
<1>3. b \in [File -> Inodes] /\ c \subseteq Files!Blocks /\ Files!EachItsOwn /\ Files!AllMarked
  BY DEF Writing, Files!FilesInv, Files!FilesTyped, Inodes
<1>4. b'[x] = b[x]
  BY <1>2, <1>3
<1>5. Files!Extent(x)' = Files!Extent(x) /\ Files!Extent(x) \in Nat
  BY TextAfter, WritingFacts
<1>6. Files!Has(x)' = Files!Has(x)
  BY <1>5 DEF Files!Has
<1>7. \A z \in Files!Has(x) : Files!BlockAt(x, z) \in c /\ Files!BlockAt(x, z) \in Files!Blocks
  BY <1>3 DEF Files!AllMarked
<1>8. \A z \in Files!Has(x), y \in Files!Places(n2) : Files!BlockAt(x, z) # Files!At(e', u, y)
  <2>1. SUFFICES ASSUME NEW z \in Files!Has(x), NEW y \in Files!Places(n2), Files!BlockAt(x, z) = Files!At(e', u, y)
                 PROVE  FALSE
    OBVIOUS
  <2>2. y \in Files!Places(n1)
    BY <1>2, <1>7, <2>1
  <2>3. Files!BlockAt(x, z) = Files!BlockAt(o, y) /\ y \in Files!Has(o)
    BY <1>1, <1>2, <2>1, <2>2
  <2>4. QED  BY <1>1, <1>3, <2>3 DEF Files!EachItsOwn
<1>9. \A z \in Files!Has(x) : e'[Files!BlockAt(x, z)] = e[Files!BlockAt(x, z)]
  BY <1>2, <1>7, <1>8
<1>10. \A z \in Files!Has(x) : Files!BlockAt(x, z)' = Files!BlockAt(x, z)
  <2> DEFINE n3 == Files!Count(Files!Extent(x))
  <2>1. n3 \in Nat \ {0} /\ Files!Has(x) = Files!Places(n3)
    BY <1>5, Counts DEF Files!Has
  <2>2. \A z : Files!BlockAt(x, z) = Files!At(e, b[x], z) /\ Files!BlockAt(x, z)' = Files!At(e', b[x], z)
    BY <1>4 DEF Files!BlockAt
  <2> HIDE DEF n3
  <2>3. \A z \in Files!Places(n3) : z[1] # "data" => e'[Files!At(e, b[x], z)] = e[Files!At(e, b[x], z)]
    BY <1>9, <2>1, <2>2
  <2>4. \A z \in Files!Places(n3) : Files!At(e', b[x], z) = Files!At(e, b[x], z)
    BY <2>1, <2>3, AtStays
  <2>5. QED  BY <2>1, <2>2, <2>4
<1>11. \A z \in Files!Has(x), y \in Files!Has(o)' : Files!BlockAt(x, z) # Files!BlockAt(o, y)'
  BY <1>1, <1>8
<1>12. QED  BY <1>4, <1>6, <1>9, <1>10, <1>11

LEMMA WriteKeepsBlocks ==
    ASSUME NEW o, NEW p, NEW n, NEW k, NEW v, Writing(o, p, n, k, v)
    PROVE  Files!EachItsOwn' /\ Files!AllMarked' /\ Files!MarkedUsed' /\ Files!FreeBlank' /\ Files!NoMoreIndices'
<1> DEFINE u  == Files!Grown(v, p).inode
           n1 == Files!Count(Len(g[o]))
           n2 == Files!Count(IF p + n > Len(g[o]) THEN p + n ELSE Len(g[o]))
<1>1. /\ o \in File /\ v = b[o] /\ b'[o] = u
      /\ Files!Has(o) = Files!Places(n1) /\ Files!Has(o)' = Files!Places(n2)
      /\ \A z : Files!BlockAt(o, z) = Files!At(e, v, z) /\ Files!BlockAt(o, z)' = Files!At(e', u, z)
      /\ Wrote(o, p, n, k, v, u, n1, n2)
  BY OwnAfter, Zenon
<1>2. Files!Extent(o)' = IF p + n > Len(g[o]) THEN p + n ELSE Len(g[o])
  BY TextAfter
<1>3. n2 = Files!Count(Files!Extent(o))'
  BY <1>2
<1> HIDE DEF u, n1, n2
<1>4. /\ n2 \in Nat \ {0} /\ Files!Places(n1) \subseteq Files!Places(n2)
      /\ \A x \in Files!Places(n1) : Files!At(e', u, x) = Files!At(e, v, x) /\ Files!At(e', u, x) \in c
      /\ \A x \in Files!Places(n2) \ Files!Places(n1) : Files!At(e', u, x) \notin c
      /\ \A x \in Files!Places(n2) : Files!At(e', u, x) \in Files!Blocks /\ Files!At(e', u, x) # 0
      /\ \A x, y \in Files!Places(n2) : Files!At(e', u, x) = Files!At(e', u, y) => x = y
      /\ c' = c \cup {Files!At(e', u, x) : x \in Files!Places(n2) \ Files!Places(n1)}
      /\ \A y \in Files!Blocks : d'[y] # d[y] \/ e'[y] # e[y] => \E x \in Files!Places(n2) : y = Files!At(e', u, x)
      /\ n2 > Files!Area => \A i \in Files!Turn(n2 - 1) + 1 .. Pointers - 1 : e'[u.second][i] = 0
  BY <1>1 DEF Wrote
<1>5. c \subseteq Files!Blocks /\ Files!EachItsOwn /\ Files!AllMarked /\ Files!MarkedUsed /\ Files!FreeBlank
      /\ Files!NoMoreIndices
  BY DEF Writing, Files!FilesInv, Files!FilesTyped
<1>6. \A x \in File : x # o =>
           /\ b'[x] = b[x] /\ Files!Has(x)' = Files!Has(x)
           /\ \A z \in Files!Has(x) : /\ Files!BlockAt(x, z)' = Files!BlockAt(x, z)
                                      /\ e'[Files!BlockAt(x, z)] = e[Files!BlockAt(x, z)]
           /\ \A z \in Files!Has(x), y \in Files!Has(o)' : Files!BlockAt(x, z) # Files!BlockAt(o, y)'
  BY OthersAfter
<1>7. Files!EachItsOwn'
  <2>1. SUFFICES ASSUME NEW x \in File, NEW y \in File, NEW z1 \in Files!Has(x)', NEW z2 \in Files!Has(y)',
                        Files!BlockAt(x, z1)' = Files!BlockAt(y, z2)'
                 PROVE  x = y /\ z1 = z2
    BY DEF Files!EachItsOwn
  <2>2. CASE x = o /\ y = o
    BY <1>1, <1>4, <2>1, <2>2
  <2>3. CASE x # o /\ y # o
    <3>1. z1 \in Files!Has(x) /\ z2 \in Files!Has(y) /\ Files!BlockAt(x, z1) = Files!BlockAt(y, z2)
      BY <1>6, <2>1, <2>3
    <3>2. QED  BY <1>5, <3>1 DEF Files!EachItsOwn
  <2>4. CASE x # o /\ y = o
    BY <1>6, <2>1, <2>4
  <2>5. CASE x = o /\ y # o
    BY <1>6, <2>1, <2>5
  <2>6. QED  BY <2>2, <2>3, <2>4, <2>5
<1>8. \A x \in Files!Places(n2) : Files!At(e', u, x) \in c'
  BY <1>4
<1>9. Files!AllMarked'
  <2>1. SUFFICES ASSUME NEW x \in File, NEW z \in Files!Has(x)' PROVE Files!BlockAt(x, z)' \in c' \ {0}
    BY DEF Files!AllMarked
  <2>2. CASE x = o
    BY <1>1, <1>4, <1>8, <2>1, <2>2
  <2>3. CASE x # o
    <3>1. z \in Files!Has(x) /\ Files!BlockAt(x, z)' = Files!BlockAt(x, z)
      BY <1>6, <2>1, <2>3
    <3>2. QED  BY <1>4, <1>5, <3>1 DEF Files!AllMarked
  <2>4. QED  BY <2>2, <2>3
<1>10. Files!MarkedUsed'
  <2>1. SUFFICES ASSUME NEW y \in c' \ {0}
                 PROVE  \E x \in File : \E z \in Files!Has(x)' : y = Files!BlockAt(x, z)'
    BY DEF Files!MarkedUsed
  <2>2. CASE y \in c
    <3>0. PICK x \in File : \E z \in Files!Has(x) : y = Files!BlockAt(x, z)
      BY <1>5, <2>1, <2>2 DEF Files!MarkedUsed
    <3>1. PICK z \in Files!Has(x) : y = Files!BlockAt(x, z)
      BY <3>0
    <3>2. CASE x = o
      <4>1. z \in Files!Has(o)' /\ y = Files!BlockAt(o, z)'
        BY <1>1, <1>4, <3>1, <3>2
      <4>2. QED  BY <1>1, <4>1
    <3>3. CASE x # o
      <4>1. z \in Files!Has(x)' /\ y = Files!BlockAt(x, z)'
        BY <1>6, <3>1, <3>3
      <4>2. QED  BY <4>1
    <3>4. QED  BY <3>2, <3>3
  <2>3. CASE y \notin c
    <3>1. PICK z \in Files!Places(n2) : y = Files!At(e', u, z)
      BY <1>4, <2>1, <2>3
    <3>2. z \in Files!Has(o)' /\ y = Files!BlockAt(o, z)'
      BY <1>1, <3>1
    <3>3. QED  BY <1>1, <3>2
  <2>4. QED  BY <2>2, <2>3
<1>11. Files!FreeBlank'
  <2>1. SUFFICES ASSUME NEW y \in Files!Blocks \ c' PROVE e'[y] = Files!Blank[y] /\ d'[y] = Files!Blank[y]
    BY DEF Files!FreeBlank
  <2>2. y \notin c /\ ~ \E x \in Files!Places(n2) : y = Files!At(e', u, x)
    BY <1>4, <1>8, <2>1
  <2>3. e'[y] = e[y] /\ d'[y] = d[y]
    BY <1>4, <2>1, <2>2
  <2>4. QED  BY <1>5, <2>1, <2>2, <2>3 DEF Files!FreeBlank
<1>12. Files!NoMoreIndices'
  <2>1. SUFFICES ASSUME NEW x \in File, Files!Count(Files!Extent(x))' > Files!Area,
                        NEW i \in Files!Turn(Files!Count(Files!Extent(x))' - 1) + 1 .. Pointers - 1
                 PROVE  e'[b'[x].second][i] = 0
    BY DEF Files!NoMoreIndices
  <2>2. CASE x = o
    BY <1>1, <1>3, <1>4, <2>1, <2>2
  <2>3. CASE x # o
    <3>1. Files!Extent(x)' = Files!Extent(x) /\ Files!Extent(x) \in Nat
      BY <2>3, TextAfter, WritingFacts
    <3> DEFINE n3 == Files!Count(Files!Extent(x))
    <3>2. n3 \in Nat \ {0} /\ Files!Has(x) = Files!Places(n3) /\ Files!Count(Files!Extent(x))' = n3
      BY <3>1, Counts DEF Files!Has
    <3>3. e[b[x].second][i] = 0
      BY <1>5, <2>1, <3>2 DEF Files!NoMoreIndices
    <3> HIDE DEF n3
    <3>4. <<"second", 0>> \in Files!Has(x)
      BY <2>1, <3>2, InPlaces
    <3>5. Files!BlockAt(x, <<"second", 0>>) = b[x].second
      BY DEF Files!BlockAt, Files!At
    <3>6. e'[b[x].second] = e[b[x].second] /\ b'[x] = b[x]
      BY <1>6, <2>3, <3>4, <3>5
    <3>7. QED  BY <3>3, <3>6
  <2>4. QED  BY <2>2, <2>3
<1>13. QED  BY <1>7, <1>9, <1>10, <1>11, <1>12

LEMMA WriteKeepsData ==
    ASSUME NEW o, NEW p, NEW n, NEW k, NEW v, Writing(o, p, n, k, v)
    PROVE  Files!Holds'
<1> DEFINE u  == Files!Grown(v, p).inode
           n1 == Files!Count(Len(g[o]))
           n2 == Files!Count(IF p + n > Len(g[o]) THEN p + n ELSE Len(g[o]))
           s  == Files!Offset(p)
<1>1. /\ o \in File /\ v = b[o] /\ b'[o] = u
      /\ Files!Has(o) = Files!Places(n1) /\ Files!Has(o)' = Files!Places(n2)
      /\ Wrote(o, p, n, k, v, u, n1, n2)
  BY OwnAfter, ZenonT(40)
<1>2. /\ \A z \in s .. s + n - 1 : e'[Files!DataAt(e', u, k)][z] = f.buffer[z - s + 1]
      /\ \A j \in 0 .. n1 - 1, z \in Files!Cells :
            ~ (j = k /\ z \in s .. s + n - 1) => e'[Files!DataAt(e', u, j)][z] = e[Files!DataAt(e, v, j)][z]
  BY <1>1, Zenon DEF Wrote
<1>3. /\ \A x \in File : Files!Extent(x) = Len(g[x]) /\ Len(g[x]) \in Nat /\ \A i : Files!Content(x, i) = g[x][i + 1]
      /\ \A x \in File : x # o => Files!Extent(x)' = Len(g[x]) /\ \A i : Files!Content(x, i)' = g[x][i + 1]
      /\ Files!Extent(o)' = IF p + n > Len(g[o]) THEN p + n ELSE Len(g[o])
      /\ \A i : Files!Content(o, i)' = IF i \in p .. p + n - 1 THEN f.buffer[i - p + 1] ELSE g[o][i + 1]
  BY TextAfter, WritingFacts
<1>4. /\ p \in Nat /\ n \in Nat \ {0} /\ p <= Len(g[o]) /\ s \in Nat /\ k = Files!Number(p)
      /\ \A i \in p .. p + n - 1 : Files!Number(i) = k /\ Files!Offset(i) = s + (i - p)
  <2>1. p \in Nat /\ n \in Nat \ {0} /\ p <= Len(g[o])
    BY WritingFacts
  <2>2. k = Files!Number(p)
    BY Zenon DEF Writing
  <2>3. s \in Nat
    BY <2>1, Position
  <2>4. \A i \in p .. p + n - 1 : Files!Number(i) = k /\ Files!Offset(i) = s + (i - p)
    BY SpanOfWrite
  <2>5. QED  BY <2>1, <2>2, <2>3, <2>4
<1>5. \A x \in File : \A i \in 0 .. Files!Extent(x) - 1 :
         e[Files!DataAt(e, b[x], Files!Number(i))][Files!Offset(i)] = Files!Content(x, i)
  BY DEF Writing, Files!FilesInv, Files!Holds
<1> HIDE DEF u, n1, n2
<1>6. SUFFICES ASSUME NEW x \in File, NEW i \in 0 .. Files!Extent(x)' - 1
               PROVE  e'[Files!DataAt(e', b'[x], Files!Number(i))][Files!Offset(i)] = Files!Content(x, i)'
  BY DEF Files!Holds
<1>7. CASE x # o
  <2>1. i \in 0 .. Files!Extent(x) - 1 /\ i \in Nat /\ Files!Extent(x) \in Nat
        /\ Files!Content(x, i)' = Files!Content(x, i)
    BY <1>3, <1>6, <1>7
  <2> DEFINE n3 == Files!Count(Files!Extent(x))
             j  == Files!Number(i)
             y  == <<"data", j>>
  <2>2. n3 \in Nat \ {0} /\ j < n3 /\ j \in Nat /\ Files!Has(x) = Files!Places(n3)
    BY <2>1, Counts, Position DEF Files!Has
  <2> HIDE DEF n3, j
  <2>3. y \in Files!Has(x)
    <3>1. j \in 0 .. n3 - 1
      BY <2>2
    <3>2. QED  BY <2>2, <3>1, OnTheWay
  <2>4. /\ Files!BlockAt(x, y) = Files!DataAt(e, b[x], j)
        /\ Files!BlockAt(x, y)' = Files!DataAt(e', b'[x], j)
    BY DEF Files!BlockAt, Files!At
  <2>5. Files!BlockAt(x, y)' = Files!BlockAt(x, y) /\ e'[Files!BlockAt(x, y)] = e[Files!BlockAt(x, y)]
    BY <1>7, <2>3, OthersAfter
  <2>6. e[Files!DataAt(e, b[x], j)][Files!Offset(i)] = Files!Content(x, i)
    BY <1>5, <2>1 DEF j
  <2>7. QED  BY <2>1, <2>4, <2>5, <2>6 DEF j
<1>8. CASE x = o /\ i \in p .. p + n - 1
  <2>1. Files!Number(i) = k /\ Files!Offset(i) = s + (i - p)
    BY <1>4, <1>8
  <2>2. s + (i - p) \in s .. s + n - 1 /\ (s + (i - p)) - s + 1 = i - p + 1
    BY <1>4, <1>8
  <2>3. e'[Files!DataAt(e', u, k)][s + (i - p)] = f.buffer[i - p + 1]
    BY <1>2, <2>2
  <2>4. QED  BY <1>1, <1>3, <1>8, <2>1, <2>3
<1>9. CASE x = o /\ i \notin p .. p + n - 1
  <2>1. i \in 0 .. Files!Extent(o) - 1 /\ i \in Nat /\ Files!Extent(o) \in Nat
        /\ Files!Content(o, i)' = Files!Content(o, i)
    <3> DEFINE l == Len(g[o])
    <3>1. l \in Nat /\ p <= l /\ Files!Extent(o) = l /\ Files!Extent(x)' = IF p + n > l THEN p + n ELSE l
      BY <1>1, <1>3, <1>4, <1>9
    <3>2. Files!Content(o, i)' = g[o][i + 1] /\ Files!Content(o, i) = g[o][i + 1]
      BY <1>1, <1>3, <1>9
    <3> HIDE DEF l
    <3>3. i \in Nat /\ i < l
      BY <1>4, <1>6, <1>9, <3>1
    <3>4. QED  BY <3>1, <3>2, <3>3
  <2> DEFINE j  == Files!Number(i)
  <2>2. j \in 0 .. n1 - 1 /\ Files!Offset(i) \in Files!Cells
    <3>1. n1 = Files!Count(Files!Extent(o))
      BY <1>1, <1>3 DEF n1
    <3>2. n1 \in Nat \ {0} /\ j < n1 /\ j \in Nat
      BY <2>1, <3>1, Counts, Position
    <3>3. Files!Offset(i) \in Files!Cells
      BY <2>1, Position
    <3>4. QED  BY <3>2, <3>3
  <2>3. ~ (j = k /\ Files!Offset(i) \in s .. s + n - 1)
    <3>1. SUFFICES ASSUME j = k, Files!Offset(i) \in s .. s + n - 1 PROVE FALSE
      OBVIOUS
    <3> DEFINE y == BlockSize * k
    <3>2. i = y + Files!Offset(i) /\ p = y + s /\ y \in Nat
      <4>1. i = BlockSize * j + Files!Offset(i)
        BY <2>1, Position
      <4>2. p = BlockSize * k + s /\ k \in Nat
        BY <1>4, Position
      <4>3. y \in Nat
        BY <4>2, Widths
      <4>4. QED  BY <3>1, <4>1, <4>2, <4>3
    <3> HIDE DEF y
    <3>3. QED  BY <1>4, <1>9, <3>1, <3>2
  <2>4. e'[Files!DataAt(e', u, j)][Files!Offset(i)] = e[Files!DataAt(e, v, j)][Files!Offset(i)]
    BY <1>2, <2>2, <2>3
  <2>5. e[Files!DataAt(e, v, j)][Files!Offset(i)] = Files!Content(o, i)
    BY <1>1, <1>5, <2>1
  <2>6. QED  BY <1>1, <1>9, <2>1, <2>4, <2>5
<1>10. QED  BY <1>7, <1>8, <1>9

LEMMA WriteKeeps ==
    ASSUME NEW o, NEW p, NEW n, NEW k, NEW v, Writing(o, p, n, k, v)
    PROVE  Files!FilesInv'
<1> DEFINE u  == Files!Grown(v, p).inode
           n1 == Files!Count(Len(g[o]))
           n2 == Files!Count(IF p + n > Len(g[o]) THEN p + n ELSE Len(g[o]))
<1>1. o \in File /\ v = b[o] /\ Wrote(o, p, n, k, v, u, n1, n2)
  BY OwnAfter, ZenonT(40)
<1> HIDE DEF u, n1, n2
<1>2. /\ u \in Inodes /\ b' = [b EXCEPT ![o] = u] /\ d' \in Stores /\ e' \in Stores
      /\ \A x \in Files!Places(n2) : Files!At(e', u, x) \in Files!Blocks
      /\ c' = c \cup {Files!At(e', u, x) : x \in Files!Places(n2) \ Files!Places(n1)}
  BY <1>1 DEF Wrote
<1>3. /\ b \in [File -> Inodes] /\ c \subseteq Files!Blocks /\ 0 \in c
      /\ g \in [File -> Seq(Nat)] /\ \A x \in File : Len(g[x]) <= Limit[x]
  BY DEF Writing, Files!FilesInv, Files!FilesTyped, Inodes
<1>4. /\ f' # Files!NoCall /\ f'.kind = "write" /\ f'.todo = 0 /\ f'.fd = f.fd /\ f'.from = p
      /\ f'.buffer = f.buffer /\ Len(f.buffer) = n
      /\ f' \in [kind : {"read", "write"}, fd : Files!Fd, from : Nat, todo : Nat, buffer : Seq(Nat)]
      /\ a' \in [Files!Fd -> Descriptors]
      /\ \A x \in Files!Fd : a'[x].file = a[x].file
      /\ g' = g
  BY CallAfter
<1>5. f.fd \in Files!Fd /\ o = a[f.fd].file /\ n \in Nat \ {0} /\ p \in Nat /\ p <= Len(g[o]) /\ p + n <= Limit[o]
  BY WritingFacts DEF Writing
<1>6. Files!FilesTyped'
  <2>1. b' \in [File -> Inodes]
    BY <1>1, <1>2, <1>3
  <2>2. c' \subseteq Files!Blocks /\ 0 \in c'
    BY <1>2, <1>3
  <2>3. QED  BY <1>2, <1>3, <1>4, <2>1, <2>2 DEF Files!FilesTyped, Inodes, Stores, Descriptors
<1>7. Files!Calling'
  <2>1. a'[f'.fd].file = o
    BY <1>4, <1>5
  <2>2. QED  BY <1>1, <1>4, <1>5, <2>1 DEF Files!Calling
<1>8. QED  BY <1>6, <1>7, WriteKeepsBlocks, WriteKeepsData DEF Files!FilesInv

LEMMA WriteStepKeeps ==
    ASSUME KeepAll, Files!FilesInv, Files!WriteStep
    PROVE  Files!FilesInv'
<1> DEFINE o == a[f.fd].file
<1>1. Writing(o, f.from, f.todo, Files!Number(f.from), b[o])
  BY DEF Writing
<1>2. QED  BY <1>1, WriteKeeps

----------------------------------------------------------------------------
(* The other steps                                                         *)

\* A step that leaves inodes, block map and card alone, and what the files hold.
LEMMA CardSame ==
    ASSUME Files!FilesInv, b' = b, c' = c, e' = e,
           \A x \in File : /\ Files!Extent(x)' = Files!Extent(x)
                           /\ \A i \in 0 .. Files!Extent(x) - 1 : Files!Content(x, i)' = Files!Content(x, i),
           \A y \in Files!Blocks \ c : d'[y] = Files!Blank[y],
           Files!FilesTyped', Files!Calling'
    PROVE  Files!FilesInv'
<1>1. /\ Files!EachItsOwn /\ Files!AllMarked /\ Files!MarkedUsed /\ Files!FreeBlank /\ Files!NoMoreIndices
      /\ Files!Holds
  BY DEF Files!FilesInv
<1>2. \A x \in File : Files!Has(x)' = Files!Has(x) /\ \A z : Files!BlockAt(x, z)' = Files!BlockAt(x, z)
  BY DEF Files!Has, Files!BlockAt
<1>3. Files!EachItsOwn'
  BY <1>1, <1>2 DEF Files!EachItsOwn
<1>4. Files!AllMarked'
  BY <1>1, <1>2 DEF Files!AllMarked
<1>5. Files!MarkedUsed'
  <2>1. SUFFICES ASSUME NEW y \in c' \ {0}
                 PROVE  \E x \in File : \E z \in Files!Has(x)' : y = Files!BlockAt(x, z)'
    BY DEF Files!MarkedUsed
  <2>2. PICK x \in File : \E z \in Files!Has(x) : y = Files!BlockAt(x, z)
    BY <1>1, <2>1 DEF Files!MarkedUsed
  <2>3. PICK z \in Files!Has(x) : y = Files!BlockAt(x, z)
    BY <2>2
  <2>4. z \in Files!Has(x)' /\ y = Files!BlockAt(x, z)'
    BY <1>2, <2>3
  <2>5. QED  BY <2>4
<1>6. Files!FreeBlank'
  BY <1>1 DEF Files!FreeBlank
<1>7. Files!NoMoreIndices'
  BY <1>1 DEF Files!NoMoreIndices
<1>8. Files!Holds'
  BY <1>1 DEF Files!Holds
<1>9. QED  BY <1>3, <1>4, <1>5, <1>6, <1>7, <1>8 DEF Files!FilesInv

\* What FilesInv says of the state alone.
LEMMA StoreTyped ==
    ASSUME Files!FilesInv
    PROVE  /\ a \in [Files!Fd -> Descriptors] /\ b \in [File -> Inodes]
           /\ c \subseteq Files!Blocks /\ 0 \in c /\ d \in Stores /\ e \in Stores
           /\ g \in [File -> Seq(Nat)] /\ \A x \in File : Len(g[x]) <= Limit[x]
           /\ f # Files!NoCall =>
                f \in [kind : {"read", "write"}, fd : Files!Fd, from : Nat, todo : Nat, buffer : Seq(Nat)]
           /\ \A y \in Files!Blocks \ c : d[y] = Files!Blank[y] /\ e[y] = Files!Blank[y]
BY DEF Files!FilesInv, Files!FilesTyped, Files!FreeBlank, Descriptors, Inodes, Stores

\* Without a write that has changed the blocks, the files are what the history says.
LEMMA NotWritten ==
    ASSUME f = Files!NoCall \/ f.kind = "read" \/ f.todo # 0
    PROVE  \A x \in File : Files!Extent(x) = Len(g[x]) /\ \A i : Files!Content(x, i) = g[x][i + 1]
BY DEF Files!Extent, Files!Content, Files!Written

LEMMA NotWrittenNext ==
    ASSUME f' = Files!NoCall \/ f'.kind = "read" \/ f'.todo # 0
    PROVE  \A x \in File : Files!Extent(x)' = Len(g'[x]) /\ \A i : Files!Content(x, i)' = g'[x][i + 1]
BY DEF Files!Extent, Files!Content, Files!Written

\* Between calls: only descriptors change, and the memory may be lost.
LEMMA QuietKeeps ==
    ASSUME Files!FilesInv, f = Files!NoCall, f' = f, b' = b, c' = c, e' = e, g' = g,
           a' \in [Files!Fd -> Descriptors], d' = d \/ d' = Files!Blank
    PROVE  Files!FilesInv'
<1>1. /\ b \in [File -> Inodes] /\ c \subseteq Files!Blocks /\ 0 \in c /\ d \in Stores /\ e \in Stores
      /\ g \in [File -> Seq(Nat)] /\ \A x \in File : Len(g[x]) <= Limit[x]
      /\ \A y \in Files!Blocks \ c : d[y] = Files!Blank[y]
  BY StoreTyped
<1>2. d' \in Stores
  <2>1. Files!Blank \in Stores
    BY DEF Stores, Files!Blank
  <2>2. QED  BY <1>1, <2>1
<1>3. Files!FilesTyped'
  BY <1>1, <1>2 DEF Files!FilesTyped, Descriptors, Inodes, Stores
<1>4. Files!Calling'
  BY DEF Files!Calling
<1>5. \A x \in File : /\ Files!Extent(x)' = Files!Extent(x)
                      /\ \A i \in 0 .. Files!Extent(x) - 1 : Files!Content(x, i)' = Files!Content(x, i)
  BY NotWritten, NotWrittenNext
<1>6. \A y \in Files!Blocks \ c : d'[y] = Files!Blank[y]
  BY <1>1
<1>7. QED  BY <1>3, <1>4, <1>5, <1>6, CardSame

LEMMA DescriptorsKeep ==
    ASSUME Files!FilesInv,
           \/ \E x \in File, access \in Access : Files!open(x, access)
           \/ \E x \in Files!Opened : \/ Files!close(x)
                                      \/ \E locate \in {0, Len(g[a[x].file])} : Files!fsearch(x, locate)
           \/ Files!Restart
    PROVE  Files!FilesInv'
<1>1. a \in [Files!Fd -> Descriptors] /\ g \in [File -> Seq(Nat)]
  BY StoreTyped
<1>2. /\ f = Files!NoCall /\ f' = f /\ b' = b /\ c' = c /\ e' = e /\ g' = g
      /\ d' = d \/ d' = Files!Blank
  BY DEF Files!open, Files!close, Files!fsearch, Files!Restart, Files!Quiet, Files!store
<1>3. a' \in [Files!Fd -> Descriptors]
  <2>1. CASE \E x \in File, access \in Access : Files!open(x, access)
    <3>1. PICK x \in File, access \in Access : Files!open(x, access)
      BY <2>1
    <3> DEFINE q == [file |-> x, mode |-> access, readPos |-> 0, writePos |-> 0]
    <3>2. q \in Descriptors
      BY DEF Descriptors
    <3> HIDE DEF q
    <3>3. a' = [a EXCEPT ![Files!Lowest(Files!Unused)] = q]
      BY <3>1 DEF Files!open, q
    <3>4. QED  BY <1>1, <3>2, <3>3
  <2>2. CASE \E x \in Files!Opened : Files!close(x)
    <3>1. Files!Closed \in Descriptors
      BY DEF Files!Closed, Descriptors
    <3>2. QED  BY <1>1, <2>2, <3>1 DEF Files!close
  <2>3. CASE \E x \in Files!Opened : \E locate \in {0, Len(g[a[x].file])} : Files!fsearch(x, locate)
    <3>1. PICK x \in Files!Opened : \E locate \in {0, Len(g[a[x].file])} : Files!fsearch(x, locate)
      BY <2>3
    <3>2. PICK q \in {0, Len(g[a[x].file])} : Files!fsearch(x, q)
      BY <3>1
    <3>3. x \in Files!Fd /\ a[x].file \in File
      BY <1>1, <3>1 DEF Files!Opened, Files!Unused, Descriptors
    <3>4. q \in Nat
      BY <1>1, <3>2, <3>3
    <3>5. \/ a' = [a EXCEPT ![x].writePos = q]
          \/ a' = [a EXCEPT ![x].readPos = q]
      BY <3>2 DEF Files!fsearch
    <3>6. /\ [a EXCEPT ![x].writePos = q] \in [Files!Fd -> Descriptors]
          /\ [a EXCEPT ![x].readPos = q] \in [Files!Fd -> Descriptors]
      BY <1>1, <3>3, <3>4, PositionSet, Zenon
    <3>7. QED  BY <3>5, <3>6, Zenon
  <2>4. CASE Files!Restart
    <3>1. Files!Closed \in Descriptors
      BY DEF Files!Closed, Descriptors
    <3>2. QED  BY <2>4, <3>1 DEF Files!Restart
  <2>5. QED  BY <2>1, <2>2, <2>3, <2>4
<1>4. QED  BY <1>2, <1>3, QuietKeeps

\* A call begins: nothing changes but call.
LEMMA BeginKeeps ==
    ASSUME Files!FilesInv, f = Files!NoCall, a' = a, b' = b, c' = c, d' = d, e' = e, g' = g,
           f' \in [kind : {"read", "write"}, fd : Files!Fd, from : Nat, todo : Nat, buffer : Seq(Nat)],
           f'.todo # 0, Files!Calling'
    PROVE  Files!FilesInv'
<1>1. /\ a \in [Files!Fd -> Descriptors] /\ b \in [File -> Inodes] /\ c \subseteq Files!Blocks /\ 0 \in c
      /\ d \in Stores /\ e \in Stores
      /\ g \in [File -> Seq(Nat)] /\ \A x \in File : Len(g[x]) <= Limit[x]
      /\ \A y \in Files!Blocks \ c : d[y] = Files!Blank[y]
  BY StoreTyped
<1>2. Files!FilesTyped'
  BY <1>1 DEF Files!FilesTyped, Descriptors, Inodes, Stores
<1>3. \A x \in File : /\ Files!Extent(x)' = Files!Extent(x)
                      /\ \A i \in 0 .. Files!Extent(x) - 1 : Files!Content(x, i)' = Files!Content(x, i)
  BY NotWritten, NotWrittenNext
<1>4. \A y \in Files!Blocks \ c : d'[y] = Files!Blank[y]
  BY <1>1
<1>5. QED  BY <1>2, <1>3, <1>4, CardSame

LEMMA Buffers ==
    ASSUME NEW n \in Nat, NEW q \in [1 .. n -> Nat]
    PROVE  q \in Seq(Nat) /\ Len(q) = n
OBVIOUS

LEMMA CallsKeep ==
    ASSUME KeepAll, Files!FilesInv, NEW x \in Files!Opened, NEW n \in 1 .. BlockSize + 1,
           Files!ReadCall(x, n) \/ Files!WriteCall(x, n)
    PROVE  Files!FilesInv'
<1>1. a \in [Files!Fd -> Descriptors] /\ BlockSize \in Nat
  BY StoreTyped, Widths
<1>2. n \in Nat /\ n > 0 /\ n # 0
  BY <1>1
<1>3. x \in Files!Fd /\ a[x].file \in File /\ a[x].readPos \in Nat /\ a[x].writePos \in Nat
  BY <1>1 DEF Files!Opened, Files!Unused, Descriptors
<1>4. {"reads"} \subseteq Discipline
  BY DEF KeepAll, Files!Promises
<1>5. /\ f = Files!NoCall /\ a' = a /\ b' = b /\ c' = c /\ d' = d /\ e' = e /\ g' = g
  BY DEF Files!ReadCall, Files!WriteCall, Files!Quiet, Files!store
<1>6. CASE Files!ReadCall(x, n)
  <2> DEFINE q == [i \in 1 .. n |-> 0]
             p == a[x].readPos
  <2>1. q \in Seq(Nat) /\ Len(q) = n
    <3>1. q \in [1 .. n -> Nat]
      OBVIOUS
    <3> HIDE DEF q
    <3>2. QED  BY <1>2, <3>1, Buffers
  <2>2. p + n <= Len(g[a[x].file]) /\ Files!Offset(p) + n <= BlockSize /\ Files!Begin("read", x, p, q)
    BY <1>4, <1>6 DEF Files!ReadCall
  <2> HIDE DEF q
  <2>3. f' = [kind |-> "read", fd |-> x, from |-> p, todo |-> n, buffer |-> q]
    BY <2>1, <2>2 DEF Files!Begin
  <2>4. f' \in [kind : {"read", "write"}, fd : Files!Fd, from : Nat, todo : Nat, buffer : Seq(Nat)]
    BY <1>2, <1>3, <2>1, <2>3
  <2>5. /\ f'.kind = "read" /\ f'.fd = x /\ f'.from = p /\ f'.todo = n /\ Len(f'.buffer) = n
    BY <2>1, <2>3
  <2> HIDE DEF p
  <2>6. Files!Calling'
    BY <1>2, <1>3, <1>5, <2>2, <2>5 DEF Files!Calling, p
  <2>7. QED  BY <1>2, <1>5, <2>4, <2>5, <2>6, BeginKeeps
<1>7. CASE Files!WriteCall(x, n)
  <2>0. PICK p, o : p = a[x].writePos /\ o = a[x].file
    OBVIOUS
  <2>1. PICK z \in {1, 2} : Files!Begin("write", x, p, [i \in 1 .. n |-> IF h = <<o, p + i - 1>> THEN z ELSE 3])
    BY <1>7, <2>0 DEF Files!WriteCall
  <2> DEFINE q == [i \in 1 .. n |-> IF h = <<o, p + i - 1>> THEN z ELSE 3]
  <2>2. Files!Begin("write", x, p, q)
    BY <2>1
  <2>3. q \in Seq(Nat) /\ Len(q) = n
    <3>1. q \in [1 .. n -> Nat]
      OBVIOUS
    <3> HIDE DEF q
    <3>2. QED  BY <1>2, <3>1, Buffers
  <2> HIDE DEF q
  <2>4. f' = [kind |-> "write", fd |-> x, from |-> p, todo |-> n, buffer |-> q]
    BY <2>2, <2>3 DEF Files!Begin
  <2>5. f' \in [kind : {"read", "write"}, fd : Files!Fd, from : Nat, todo : Nat, buffer : Seq(Nat)]
    BY <1>2, <1>3, <2>0, <2>3, <2>4
  <2>6. /\ f'.kind = "write" /\ f'.fd = x /\ f'.from = p /\ f'.todo = n /\ Len(f'.buffer) = n
    BY <2>3, <2>4
  <2>7. Files!Allowed(o, p, n)
    BY <1>7, <2>0 DEF Files!WriteCall
  <2>8. Files!Allowed(o, p, n)'
    BY <1>5, <2>7 DEF Files!Allowed, Files!Present, Files!PresentData, Files!DataBlock
  <2>9. Files!Calling'
    <3>1. a'[f'.fd].file = o /\ a'[f'.fd].writePos = p
      BY <1>5, <2>0, <2>6
    <3>2. Files!Allowed(a[f.fd].file, f.from, Len(f.buffer))'
      BY <2>6, <2>8, <3>1
    <3>3. QED  BY <1>2, <1>3, <1>5, <2>0, <2>6, <3>1, <3>2 DEF Files!Calling
  <2>10. QED  BY <1>2, <1>5, <2>5, <2>6, <2>9, BeginKeeps
<1>8. QED  BY <1>6, <1>7

LEMMA ChunkIs ==
    ASSUME NEW p \in Nat, f.todo \in Nat, Files!Offset(p) + f.todo <= BlockSize
    PROVE  Files!Chunk(p) = f.todo
<1> DEFINE n == f.todo
           S == {n, BlockSize - Files!Offset(p)}
<1>1. Files!Offset(p) \in Nat /\ BlockSize \in Nat /\ n \in Nat /\ Files!Offset(p) + n <= BlockSize
  BY Position, Widths
<1>2. Files!Chunk(p) = Files!Lowest(S)
  BY DEF Files!Chunk
<1> HIDE DEF n
<1>3. S \in SUBSET Nat /\ S # {} /\ n <= BlockSize - Files!Offset(p)
  BY <1>1
<1>4. Files!Lowest(S) \in S /\ \A y \in S : Files!Lowest(S) <= y
  BY <1>3, LowestIn
<1>5. Files!Lowest(S) = n
  BY <1>1, <1>3, <1>4
<1>6. QED  BY <1>2, <1>5 DEF n

\* The blocks on the way to a cell of a file are its own, and are in use.
LEMMA WayInUse ==
    ASSUME Files!FilesInv, NEW o \in File, NEW p \in Nat, p < Files!Extent(o), Files!Extent(o) \in Nat
    PROVE  LET k == Files!Number(p)
               v == b[o]
           IN /\ k \in Nat /\ Files!DataAt(e, v, k) \in c
              /\ k >= Direct => v.first \in c
              /\ k >= Files!Area => v.second \in c /\ e[v.second][Files!Turn(k)] \in c
<1> DEFINE k  == Files!Number(p)
           v  == b[o]
           n1 == Files!Count(Files!Extent(o))
<1>1. k \in Nat /\ n1 \in Nat \ {0} /\ k < n1
  <2>1. p \in 0 .. Files!Extent(o) - 1
    OBVIOUS
  <2>2. QED  BY <2>1, Counts, Position
<1>2. Files!AllMarked
  BY DEF Files!FilesInv
<1>3. \A x \in Files!Places(n1) : Files!At(e, v, x) \in c
  BY <1>2 DEF Files!AllMarked, Files!Has, Files!BlockAt
<1> HIDE DEF k, v, n1
<1>4. k \in 0 .. n1 - 1
  BY <1>1
<1>5. /\ <<"data", k>> \in Files!Places(n1)
      /\ k >= Direct => <<"first", 0>> \in Files!Places(n1)
      /\ k >= Files!Area => /\ <<"second", 0>> \in Files!Places(n1)
                            /\ <<"index", Files!Turn(k)>> \in Files!Places(n1)
  BY <1>1, <1>4, OnTheWay
<1>6. /\ Files!At(e, v, <<"data", k>>) = Files!DataAt(e, v, k)
      /\ Files!At(e, v, <<"first", 0>>) = v.first /\ Files!At(e, v, <<"second", 0>>) = v.second
      /\ Files!At(e, v, <<"index", Files!Turn(k)>>) = e[v.second][Files!Turn(k)]
  BY DEF Files!At
<1>7. /\ k \in Nat /\ Files!DataAt(e, v, k) \in c
      /\ k >= Direct => v.first \in c
      /\ k >= Files!Area => v.second \in c /\ e[v.second][Files!Turn(k)] \in c
  BY <1>1, <1>3, <1>5, <1>6
<1>8. QED  BY <1>7 DEF k, v

\* With the blocks on the way to p loaded, memory leads where the card does.
LEMMA LoadedLeads ==
    ASSUME NEW m1, NEW m2, NEW v, NEW p \in Nat, \A y \in Files!Way(m1, v, p) : m2[y] = m1[y]
    PROVE  Files!DataBlock(m2, v, p) = Files!DataAt(m1, v, Files!Number(p))
           /\ Files!DataAt(m1, v, Files!Number(p)) \in Files!Way(m1, v, p)
<1> DEFINE k == Files!Number(p)
<1>1. k \in Nat /\ Direct \in Nat /\ Files!Area \in Nat /\ Direct < Files!Area
  BY Position, Widths
<1>2. /\ Files!DataBlock(m2, v, p) = Files!DataAt(m2, v, k)
      /\ \A y : y \in Files!Way(m1, v, p) <=>
            \/ y = Files!DataAt(m1, v, k)
            \/ k >= Direct /\ k < Files!Area /\ y = v.first
            \/ k >= Files!Area /\ (y = v.second \/ y = m1[v.second][Files!Turn(k)])
  BY WayIs
<1> HIDE DEF k
<1>3. CASE k < Direct
  BY <1>2, <1>3 DEF Files!DataAt, k
<1>4. CASE ~ (k < Direct) /\ k < Files!Area
  <2>1. m2[v.first] = m1[v.first]
    BY <1>1, <1>2, <1>4
  <2>2. QED  BY <1>2, <1>4, <2>1 DEF Files!DataAt, k
<1>5. CASE ~ (k < Direct) /\ ~ (k < Files!Area)
  <2>1. m2[v.second] = m1[v.second] /\ m2[m1[v.second][Files!Turn(k)]] = m1[m1[v.second][Files!Turn(k)]]
    BY <1>1, <1>2, <1>5
  <2>2. QED  BY <1>2, <1>5, <2>1 DEF Files!DataAt, k
<1>6. QED  BY <1>3, <1>4, <1>5

LEMMA ReadStepKeeps ==
    ASSUME Files!FilesInv, Files!ReadStep
    PROVE  Files!FilesInv'
<1>1. /\ a \in [Files!Fd -> Descriptors] /\ b \in [File -> Inodes] /\ c \subseteq Files!Blocks /\ 0 \in c
      /\ d \in Stores /\ e \in Stores
      /\ g \in [File -> Seq(Nat)] /\ \A y \in File : Len(g[y]) <= Limit[y]
      /\ f # Files!NoCall /\ f.kind = "read" /\ f.todo > 0
      /\ f \in [kind : {"read", "write"}, fd : Files!Fd, from : Nat, todo : Nat, buffer : Seq(Nat)]
      /\ \A y \in Files!Blocks \ c : d[y] = Files!Blank[y] /\ e[y] = Files!Blank[y]
  BY StoreTyped, Zenon DEF Files!ReadStep
<1>2. PICK x, o, p, n, v, q : /\ x = f.fd /\ o = a[x].file /\ p = a[x].readPos /\ n = f.todo /\ v = b[o]
                              /\ q = f.buffer
  OBVIOUS
<1>3. /\ x \in Files!Fd /\ o \in File /\ n \in Nat \ {0} /\ q \in Seq(Nat) /\ Len(q) = n
      /\ p = f.from /\ p \in Nat /\ p + n <= Len(g[o]) /\ Files!Offset(p) + n <= BlockSize /\ Len(g[o]) \in Nat
  <2>1. n \in Nat \ {0} /\ x \in Files!Fd /\ q \in Seq(Nat) /\ f.from \in Nat
    BY <1>1, <1>2
  <2>2. Files!Calling
    BY DEF Files!FilesInv
  <2>3. /\ o \in File /\ Len(q) = n /\ p = f.from /\ p + n <= Len(g[o]) /\ Files!Offset(p) + n <= BlockSize
    BY <1>1, <1>2, <2>1, <2>2 DEF Files!Calling
  <2>4. QED  BY <1>1, <2>1, <2>3
<1>4. Files!Chunk(p) = n
  BY <1>1, <1>2, <1>3, ChunkIs
<1> DEFINE S == Files!Way(e, v, p)
           k == Files!Number(p)
           s == Files!Offset(p)
           y1 == Files!DataAt(e, v, k)
<1>5. /\ d' = Files!Loaded(S) /\ b' = b /\ c' = c /\ e' = e /\ g' = g /\ h' = h
      /\ a' = [a EXCEPT ![x].readPos = p + n]
      /\ f' = [f EXCEPT !.todo = @ - n,
                        !.buffer = [i \in DOMAIN @ |-> IF i <= n THEN d'[Files!DataBlock(d', v, p)][s + i - 1] ELSE @[i]]]
  BY <1>2, <1>4, Zenon DEF Files!ReadStep
<1>50. b' = b /\ c' = c /\ e' = e /\ g' = g
  BY <1>5
<1>6. \A y \in Files!Blocks : d'[y] = IF y \in S THEN e[y] ELSE d[y]
  BY <1>5 DEF Files!Loaded
<1>7. d' \in Stores
  BY <1>1, <1>5 DEF Files!Loaded, Stores
<1>8. p < Files!Extent(o) /\ Files!Extent(o) \in Nat /\ Files!Extent(o) = Len(g[o])
      /\ \A i : Files!Content(o, i) = g[o][i + 1]
  BY <1>1, <1>3, NotWritten
<1>9. /\ k \in Nat /\ y1 \in c
      /\ k >= Direct => v.first \in c
      /\ k >= Files!Area => v.second \in c /\ e[v.second][Files!Turn(k)] \in c
  BY <1>2, <1>3, <1>8, WayInUse
<1>10. S \subseteq Files!Blocks
  <2>1. \A y : y \in S <=>
            \/ y = Files!DataAt(e, v, k)
            \/ k >= Direct /\ k < Files!Area /\ y = v.first
            \/ k >= Files!Area /\ (y = v.second \/ y = e[v.second][Files!Turn(k)])
    BY <1>3, WayIs
  <2>2. QED  BY <1>1, <1>9, <2>1
<1> HIDE DEF S
<1>11. Files!DataBlock(d', v, p) = y1 /\ y1 \in S
  <2>1. \A y \in S : d'[y] = e[y]
    BY <1>6, <1>10
  <2>2. QED  BY <1>3, <2>1, LoadedLeads, ZenonT(40) DEF S
<1>12. d'[y1] = e[y1]
  BY <1>6, <1>10, <1>11
<1> HIDE DEF y1
<1>13. \A i \in 1 .. n : e[y1][s + i - 1] = g[o][p + i] /\ g[o][p + i] \in Nat
  <2>1. SUFFICES ASSUME NEW i \in 1 .. n PROVE e[y1][s + i - 1] = g[o][p + i] /\ g[o][p + i] \in Nat
    OBVIOUS
  <2>2. PICK j, l : j = p + (i - 1) /\ l = Len(g[o])
    OBVIOUS
  <2>3. n \in Nat /\ p \in Nat /\ s \in Nat /\ l \in Nat /\ p + n <= l
    BY <1>3, <2>2, Position
  <2> HIDE DEF s
  <2>4. j \in p .. p + n - 1 /\ j \in 0 .. l - 1 /\ j + 1 = p + i /\ p + i \in 1 .. l /\ s + (j - p) = s + i - 1
    BY <2>2, <2>3
  <2>5. Files!Number(j) = k /\ Files!Offset(j) = s + (j - p)
    BY <1>3, <2>4, InBlock DEF s
  <2>6. e[Files!DataAt(e, v, Files!Number(j))][Files!Offset(j)] = Files!Content(o, j)
    <3>1. Files!Holds
      BY DEF Files!FilesInv
    <3>2. j \in 0 .. Files!Extent(o) - 1
      BY <1>8, <2>2, <2>4
    <3>3. QED  BY <1>2, <1>3, <3>1, <3>2 DEF Files!Holds
  <2>7. Files!Content(o, j) = g[o][p + i]
    BY <1>8, <2>4
  <2>8. g[o][p + i] \in Nat
    <3>1. g[o] \in Seq(Nat)
      BY <1>1, <1>3
    <3>2. p + i \in 1 .. Len(g[o])
      BY <2>2, <2>4
    <3>3. QED  BY <3>1, <3>2
  <2>9. QED  BY <2>4, <2>5, <2>6, <2>7, <2>8 DEF y1
<1> DEFINE r == [i \in DOMAIN q |-> IF i <= n THEN d'[Files!DataBlock(d', v, p)][s + i - 1] ELSE q[i]]
<1>14. r \in Seq(Nat) /\ Len(r) = n /\ \A i \in 1 .. n : r[i] = g[o][p + i]
  <2>1. DOMAIN q = 1 .. n
    BY <1>3
  <2>2. \A i \in 1 .. n : r[i] = g[o][p + i]
    BY <1>3, <1>11, <1>12, <1>13, <2>1
  <2>3. r \in [1 .. n -> Nat]
    BY <1>13, <2>1, <2>2
  <2> HIDE DEF r
  <2>4. QED  BY <1>3, <2>2, <2>3, Buffers
<1>15. f' = [f EXCEPT !.todo = 0, !.buffer = r]
  <2>1. f.todo - n = 0
    BY <1>2, <1>3
  <2>2. f' = [f EXCEPT !.todo = f.todo - n, !.buffer = r]
    BY <1>1, <1>2, <1>5, Zenon
  <2>3. QED  BY <2>1, <2>2
<1> HIDE DEF r
<1>16. /\ f' \in [kind : {"read", "write"}, fd : Files!Fd, from : Nat, todo : Nat, buffer : Seq(Nat)]
       /\ f'.kind = "read" /\ f'.fd = x /\ f'.from = p /\ f'.todo = 0 /\ f'.buffer = r
  BY <1>1, <1>2, <1>3, <1>14, <1>15
<1>17. a' \in [Files!Fd -> Descriptors] /\ a'[x].file = o
  <2> DEFINE z == p + n
  <2>1. z \in Nat /\ a' = [a EXCEPT ![x].readPos = z]
    BY <1>3, <1>5
  <2> HIDE DEF z
  <2>2. /\ [a EXCEPT ![x].readPos = z] \in [Files!Fd -> Descriptors]
        /\ [a EXCEPT ![x].readPos = z][x].file = a[x].file
    BY <1>1, <1>3, <2>1, PositionSet, ZenonT(40)
  <2>3. QED  BY <1>2, <2>1, <2>2
<1>18. Files!FilesTyped'
  BY <1>1, <1>50, <1>7, <1>16, <1>17 DEF Files!FilesTyped, Inodes, Stores, Descriptors
<1>19. Files!Calling'
  BY <1>3, <1>50, <1>14, <1>16, <1>17, SMTT(40) DEF Files!Calling
<1>20. \A y \in File : /\ Files!Extent(y)' = Files!Extent(y)
                       /\ \A i \in 0 .. Files!Extent(y) - 1 : Files!Content(y, i)' = Files!Content(y, i)
  <2>1. \A y \in File : Files!Extent(y) = Len(g[y]) /\ \A i : Files!Content(y, i) = g[y][i + 1]
    BY <1>1, NotWritten
  <2>2. \A y \in File : Files!Extent(y)' = Len(g'[y]) /\ \A i : Files!Content(y, i)' = g'[y][i + 1]
    BY <1>16, NotWrittenNext
  <2>3. QED  BY <1>50, <2>1, <2>2
<1>21. \A y \in Files!Blocks \ c : d'[y] = Files!Blank[y]
  BY <1>1, <1>6
<1>22. QED  BY <1>50, <1>18, <1>19, <1>20, <1>21, CardSame, SMTT(40)

\* What a concatenation and a part of a sequence hold.
LEMMA Joined ==
    ASSUME NEW s1 \in Seq(Nat), NEW s2 \in Seq(Nat)
    PROVE  /\ s1 \o s2 \in Seq(Nat) /\ Len(s1 \o s2) = Len(s1) + Len(s2)
           /\ \A i \in 1 .. Len(s1) : (s1 \o s2)[i] = s1[i]
           /\ \A i \in 1 .. Len(s2) : (s1 \o s2)[Len(s1) + i] = s2[i]
<1>1. PICK l1, l2 : l1 = Len(s1) /\ l2 = Len(s2)
  OBVIOUS
<1>2. l1 \in Nat /\ l2 \in Nat
  BY <1>1
<1>3. \A i \in 1 .. l1 + l2 : (s1 \o s2)[i] = IF i <= l1 THEN s1[i] ELSE s2[i - l1]
  BY <1>1, ConcatProperties
<1>4. \A i \in 1 .. l2 : l1 + i \in 1 .. l1 + l2 /\ ~ (l1 + i <= l1) /\ (l1 + i) - l1 = i
  BY <1>2
<1>5. \A i \in 1 .. l2 : (s1 \o s2)[l1 + i] = s2[i]
  BY <1>3, <1>4
<1>6. \A i \in 1 .. l1 : (s1 \o s2)[i] = s1[i]
  <2>1. \A i \in 1 .. l1 : i \in 1 .. l1 + l2 /\ i <= l1
    BY <1>2
  <2>2. QED  BY <1>3, <2>1
<1>7. QED  BY <1>1, <1>5, <1>6, ConcatProperties

LEMMA PartOf ==
    ASSUME NEW s \in Seq(Nat), NEW i \in Nat \ {0}, NEW j \in Nat, j <= Len(s)
    PROVE  /\ SubSeq(s, i, j) \in Seq(Nat)
           /\ Len(SubSeq(s, i, j)) = IF i > j THEN 0 ELSE (j - i) + 1
           /\ \A k \in 1 .. Len(SubSeq(s, i, j)) : SubSeq(s, i, j)[k] = s[(i + k) - 1]
<1>1. PICK l : l = Len(s)
  OBVIOUS
<1>2. l \in Nat /\ j <= l
  BY <1>1
<1>3. CASE i > j
  <2>1. Len(SubSeq(s, i, j)) = 0 /\ SubSeq(s, i, j) = << >>
    BY <1>3
  <2>2. QED  BY <1>3, <2>1
<1>4. CASE i <= j
  <2>1. i \in 1 .. l /\ j \in i .. l
    BY <1>2, <1>4
  <2>2. i \in 1 .. Len(s) + 1 /\ j \in i - 1 .. Len(s)
    BY <1>1, <1>2, <1>4
  <2>3. QED  BY <1>4, <2>2, SubSeqProperties
<1>5. QED  BY <1>3, <1>4

\* A text with a piece of it written over, or appended to.
LEMMA Splice ==
    ASSUME NEW t \in Seq(Nat), NEW q \in Seq(Nat), NEW p \in Nat, p <= Len(t)
    PROVE  LET n == Len(q)
               r == SubSeq(t, 1, p) \o q \o SubSeq(t, p + n + 1, Len(t))
           IN /\ r \in Seq(Nat)
              /\ Len(r) = IF p + n > Len(t) THEN p + n ELSE Len(t)
              /\ \A i \in 0 .. Len(r) - 1 : r[i + 1] = IF i \in p .. p + n - 1 THEN q[i - p + 1] ELSE t[i + 1]
<1>1. PICK n, l, t1, t2 : n = Len(q) /\ l = Len(t) /\ t1 = SubSeq(t, 1, p) /\ t2 = SubSeq(t, p + Len(q) + 1, Len(t))
  OBVIOUS
<1>2. n \in Nat /\ l \in Nat /\ p <= l
  BY <1>1
<1>3. t1 \in Seq(Nat) /\ p = Len(t1) /\ \A i \in 1 .. p : t1[i] = t[i]
  <2>1. /\ t1 \in Seq(Nat)
        /\ Len(t1) = IF 1 > p THEN 0 ELSE (p - 1) + 1
        /\ \A i \in 1 .. Len(t1) : t1[i] = t[(1 + i) - 1]
    BY <1>1, PartOf
  <2>2. QED  BY <2>1
<1>4. PICK l2 : l2 = Len(t2)
  OBVIOUS
<1>5. t2 \in Seq(Nat) /\ l2 = (IF p + n > l THEN 0 ELSE l - (p + n))
      /\ \A i \in 1 .. l2 : t2[i] = t[p + n + i]
  <2>1. p + n + 1 \in Nat \ {0} /\ \A i \in Nat : ((p + n + 1) + i) - 1 = p + n + i
    BY <1>2
  <2>2. /\ t2 \in Seq(Nat)
        /\ l2 = IF p + n + 1 > l THEN 0 ELSE (l - (p + n + 1)) + 1
        /\ \A i \in 1 .. l2 : t2[i] = t[((p + n + 1) + i) - 1]
    <3>1. PICK m : m = p + n + 1
      OBVIOUS
    <3>2. m \in Nat \ {0} /\ t2 = SubSeq(t, m, l) /\ l \in Nat /\ l <= Len(t)
      BY <1>1, <1>2, <2>1, <3>1
    <3>3. /\ SubSeq(t, m, l) \in Seq(Nat)
          /\ Len(SubSeq(t, m, l)) = IF m > l THEN 0 ELSE (l - m) + 1
          /\ \A i \in 1 .. Len(SubSeq(t, m, l)) : SubSeq(t, m, l)[i] = t[(m + i) - 1]
      BY <3>2, PartOf
    <3>4. QED  BY <1>4, <3>1, <3>2, <3>3
  <2>3. QED  BY <1>2, <2>1, <2>2
<1>6. PICK tq : tq = t1 \o q
  OBVIOUS
<1>7. tq \in Seq(Nat) /\ Len(tq) = p + n /\ (\A i \in 1 .. p : tq[i] = t1[i]) /\ \A i \in 1 .. n : tq[p + i] = q[i]
  BY <1>1, <1>3, <1>6, Joined
<1>8. PICK r : r = tq \o t2
  OBVIOUS
<1>9. PICK k : k = p + n
  OBVIOUS
<1>10. r \in Seq(Nat) /\ Len(r) = k + l2 /\ (\A i \in 1 .. k : r[i] = tq[i]) /\ \A i \in 1 .. l2 : r[k + i] = t2[i]
  <2>1. /\ tq \in Seq(Nat) /\ t2 \in Seq(Nat) /\ Len(tq) = k
    BY <1>5, <1>7, <1>9
  <2>2. QED  BY <1>4, <1>8, <2>1, Joined, ZenonT(40)
<1>11. Len(r) = IF p + n > l THEN p + n ELSE l
  BY <1>2, <1>5, <1>9, <1>10
<1>12. ASSUME NEW i \in 0 .. Len(r) - 1
       PROVE  r[i + 1] = IF i \in p .. p + n - 1 THEN q[i - p + 1] ELSE t[i + 1]
  <2>1. PICK m : m = Len(r)
    OBVIOUS
  <2>2. m = (IF p + n > l THEN p + n ELSE l) /\ i \in 0 .. m - 1
    BY <1>11, <2>1
  <2>3. CASE i \in p .. p + n - 1
    <3>1. (i - p) + 1 \in 1 .. n /\ p + ((i - p) + 1) = i + 1 /\ i + 1 \in 1 .. k
      BY <1>2, <1>9, <2>3
    <3>2. tq[p + ((i - p) + 1)] = q[(i - p) + 1] /\ r[i + 1] = tq[i + 1]
      BY <1>7, <1>10, <3>1
    <3>3. QED  BY <2>3, <3>1, <3>2
  <2>4. CASE i < p
    <3>1. i + 1 \in 1 .. p /\ i + 1 \in 1 .. k /\ i \notin p .. p + n - 1
      BY <1>2, <1>9, <2>2, <2>4
    <3>2. r[i + 1] = tq[i + 1] /\ tq[i + 1] = t1[i + 1] /\ t1[i + 1] = t[i + 1]
      BY <1>3, <1>7, <1>10, <3>1
    <3>3. QED  BY <3>1, <3>2
  <2>5. CASE i >= p + n
    <3>1. PICK j : j = (i + 1) - k
      OBVIOUS
    <3>2. j \in 1 .. l2 /\ k + j = i + 1 /\ p + n + j = i + 1 /\ i \notin p .. p + n - 1
      BY <1>2, <1>5, <1>9, <2>2, <2>5, <3>1
    <3>3. r[k + j] = t2[j] /\ t2[j] = t[p + n + j]
      BY <1>5, <1>10, <3>2
    <3>4. QED  BY <3>2, <3>3
  <2>6. QED  BY <1>2, <2>2, <2>3, <2>4, <2>5
<1>13. QED  BY <1>1, <1>6, <1>8, <1>10, <1>11, <1>12

LEMMA ReturnKeeps ==
    ASSUME Files!FilesInv, Files!Return
    PROVE  Files!FilesInv'
<1>1. /\ a \in [Files!Fd -> Descriptors] /\ b \in [File -> Inodes] /\ c \subseteq Files!Blocks /\ 0 \in c
      /\ d \in Stores /\ e \in Stores
      /\ g \in [File -> Seq(Nat)] /\ \A y \in File : Len(g[y]) <= Limit[y]
      /\ f # Files!NoCall /\ f.todo = 0
      /\ f \in [kind : {"read", "write"}, fd : Files!Fd, from : Nat, todo : Nat, buffer : Seq(Nat)]
      /\ \A y \in Files!Blocks \ c : d[y] = Files!Blank[y]
  BY StoreTyped DEF Files!Return
<1>2. a' = a /\ b' = b /\ c' = c /\ d' = d /\ e' = e /\ h' = h /\ f' = Files!NoCall
  BY DEF Files!Return, Files!store
<1>3. PICK o, p, q, t : o = a[f.fd].file /\ p = f.from /\ q = f.buffer /\ t = g[o]
  OBVIOUS
<1>4. /\ o \in File /\ p \in Nat /\ q \in Seq(Nat) /\ t \in Seq(Nat)
      /\ f.kind = "write" => p <= Len(t) /\ p + Len(q) <= Limit[o]
  <2>1. Files!Calling
    BY DEF Files!FilesInv
  <2>2. f.kind = "write" => Len(q) > 0
    BY <1>1, <1>3, <2>1 DEF Files!Calling
  <2>3. o \in File /\ p \in Nat /\ q \in Seq(Nat) /\ t \in Seq(Nat)
    BY <1>1, <1>3, <2>1 DEF Files!Calling
  <2>4. QED  BY <1>1, <1>3, <2>1, <2>2, <2>3 DEF Files!Calling
<1>5. \A y \in File : Files!Extent(y)' = Len(g'[y]) /\ \A i : Files!Content(y, i)' = g'[y][i + 1]
  BY <1>2, NotWrittenNext
<1>6. /\ g' \in [File -> Seq(Nat)] /\ \A y \in File : Len(g'[y]) <= Limit[y]
      /\ \A y \in File : /\ Files!Extent(y)' = Files!Extent(y)
                         /\ \A i \in 0 .. Files!Extent(y) - 1 : Files!Content(y, i)' = Files!Content(y, i)
  <2>1. CASE f.kind = "read"
    <3>1. g' = g
      BY <2>1 DEF Files!Return
    <3>2. \A y \in File : Files!Extent(y) = Len(g[y]) /\ \A i : Files!Content(y, i) = g[y][i + 1]
      BY <2>1, NotWritten
    <3>3. g' \in [File -> Seq(Nat)] /\ \A y \in File : Len(g'[y]) <= Limit[y]
      BY <1>1, <3>1
    <3>4. \A y \in File : /\ Files!Extent(y)' = Files!Extent(y)
                          /\ \A i : Files!Content(y, i)' = Files!Content(y, i)
      BY <1>5, <3>1, <3>2
    <3>5. QED  BY <3>3, <3>4
  <2>2. CASE f.kind = "write"
    <3> DEFINE r == SubSeq(t, 1, p) \o q \o SubSeq(t, p + Len(q) + 1, Len(t))
    <3>1. g' = [g EXCEPT ![o] = r]
      <4>1. f.kind # "read"
        BY <2>2
      <4>2. QED  BY <1>3, <4>1 DEF Files!Return
    <3>2. /\ r \in Seq(Nat)
          /\ Len(r) = IF p + Len(q) > Len(t) THEN p + Len(q) ELSE Len(t)
          /\ \A i \in 0 .. Len(r) - 1 : r[i + 1] = IF i \in p .. p + Len(q) - 1 THEN q[i - p + 1] ELSE t[i + 1]
      BY <1>4, <2>2, Splice
    <3> HIDE DEF r
    <3>3. \A y \in File : Files!Written(y) <=> y = o
      BY <1>1, <1>3, <2>2 DEF Files!Written
    <3>4. \A y \in File : y # o => /\ g'[y] = g[y] /\ Files!Extent(y) = Len(g[y])
                                   /\ \A i : Files!Content(y, i) = g[y][i + 1]
      BY <1>1, <3>1, <3>3 DEF Files!Extent, Files!Content
    <3>5. g'[o] = r
      BY <1>1, <1>4, <3>1
    <3>6. Files!Extent(o) = Len(r)
      BY <1>3, <1>4, <3>2, <3>3 DEF Files!Extent
    <3>7. \A i \in 0 .. Len(r) - 1 : Files!Content(o, i) = r[i + 1]
      BY <1>3, <1>4, <3>2, <3>3 DEF Files!Content
    <3>8. g' \in [File -> Seq(Nat)]
      BY <1>1, <3>1, <3>2
    <3>9. \A y \in File : Len(g'[y]) <= Limit[y]
      <4>1. Len(r) <= Limit[o]
        BY <1>1, <1>3, <1>4, <2>2, <3>2
      <4>2. QED  BY <1>1, <3>4, <3>5, <4>1
    <3>10. /\ Files!Extent(o)' = Files!Extent(o)
           /\ \A i \in 0 .. Files!Extent(o) - 1 : Files!Content(o, i)' = Files!Content(o, i)
      BY <1>4, <1>5, <3>5, <3>6, <3>7
    <3>11. \A y \in File : y # o => /\ Files!Extent(y)' = Files!Extent(y)
                                    /\ \A i \in 0 .. Files!Extent(y) - 1 : Files!Content(y, i)' = Files!Content(y, i)
      BY <1>5, <3>4
    <3>12. QED  BY <3>8, <3>9, <3>10, <3>11
  <2>3. QED  BY <1>1, <2>1, <2>2
<1>7. Files!FilesTyped'
  BY <1>1, <1>2, <1>6 DEF Files!FilesTyped, Inodes, Stores, Descriptors
<1>8. Files!Calling'
  BY <1>2 DEF Files!Calling
<1>9. \A y \in Files!Blocks \ c : d'[y] = Files!Blank[y]
  BY <1>1, <1>2
<1>10. QED  BY <1>2, <1>6, <1>7, <1>8, <1>9, CardSame

LEMMA FilesStutter ==
    ASSUME Files!FilesInv, UNCHANGED <<a, b, c, d, e, f, g, h>>
    PROVE  Files!FilesInv'
<1>1. \A x \in File : /\ Files!Extent(x)' = Files!Extent(x)
                      /\ \A i \in 0 .. Files!Extent(x) - 1 : Files!Content(x, i)' = Files!Content(x, i)
  BY DEF Files!Extent, Files!Content, Files!Written
<1>2. Files!FilesTyped /\ Files!Calling /\ \A y \in Files!Blocks \ c : d'[y] = Files!Blank[y]
  BY StoreTyped DEF Files!FilesInv
<1>3. Files!FilesTyped'
  BY <1>2 DEF Files!FilesTyped
<1>4. Files!Calling'
  <2>1. \A v, p : Files!PresentData(v, p)' = Files!PresentData(v, p)
    BY DEF Files!PresentData, Files!DataBlock, Files!Number, Files!Offset, Files!Doubly
  <2>2. \A v, p : Files!Present(v, p)' = Files!Present(v, p)
    BY DEF Files!Present, Files!Number, Files!Doubly
  <2>3. \A o, p, n : o \in File => (Files!Allowed(o, p, n)' <=> Files!Allowed(o, p, n))
    BY <2>1, <2>2 DEF Files!Allowed, Files!Offset
  <2>4. PICK o, p, n : o = a[f.fd].file /\ p = f.from /\ n = Len(f.buffer)
    OBVIOUS
  <2>5. f = Files!NoCall \/ o \in File
    BY <1>2, <2>4 DEF Files!Calling
  <2>6. Files!Allowed(o, p, n) => Files!Allowed(o, p, n)' \/ f = Files!NoCall
    BY <2>3, <2>5
  <2>7. QED  BY <1>2, <2>4, <2>6 DEF Files!Calling
<1>5. QED  BY <1>1, <1>2, <1>3, <1>4, CardSame

LEMMA FilesStep ==
    ASSUME KeepAll, Files!FilesInv, Files!Next
    PROVE  Files!FilesInv'
<1>1. CASE \E x \in File, access \in Access : Files!open(x, access)
  BY <1>1, DescriptorsKeep
<1>2. CASE \E x \in Files!Opened : \/ Files!close(x)
                                   \/ \E locate \in {0, Len(g[a[x].file])} : Files!fsearch(x, locate)
  BY <1>2, DescriptorsKeep
<1>3. CASE \E x \in Files!Opened : \E n \in 1 .. BlockSize + 1 : Files!ReadCall(x, n) \/ Files!WriteCall(x, n)
  BY <1>3, CallsKeep
<1>4. CASE Files!ReadStep \/ Files!WriteStep \/ Files!Return \/ Files!Restart
  BY <1>4, ReadStepKeeps, WriteStepKeeps, ReturnKeeps, DescriptorsKeep
<1>5. QED  BY <1>1, <1>2, <1>3, <1>4 DEF Files!Next

\* Touch has given each file a block of its own.
LEMMA FirstBlocks ==
    ASSUME Files!Init
    PROVE  \E G \in [File -> 1 .. Cardinality(File)] :
               /\ b = [x \in File |-> [direct |-> [i \in 0 .. Direct - 1 |-> IF i = 0 THEN G[x] ELSE 0],
                                       first |-> 0, second |-> 0]]
               /\ c = 0 .. Cardinality(File)
               /\ \A x, y \in File : G[x] = G[y] => x = y
               /\ \A i \in 1 .. Cardinality(File) : \E x \in File : G[x] = i
<1> DEFINE N == Cardinality(File)
           G == CHOOSE z \in Files!Bijection(File, 1 .. Files!Cardinality(File)) : TRUE
<1>1. Files!Cardinality(File) = N
  BY DEF Files!Cardinality, Cardinality, Files!IsFiniteSet, IsFiniteSet
<1>2. \A S, T : Files!Bijection(S, T) = Bijection(S, T)
  BY DEF Files!Bijection, Files!Injection, Files!Surjection, Files!IsInjective,
         Bijection, Injection, Surjection, IsInjective
<1>3. ExistsBijection(File, 1 .. N)
  BY FileSizes, FS_CardinalityType, Fun_ExistsBijSymmetric
<1>4. G \in Bijection(File, 1 .. N)
  <2>1. \E z : z \in Bijection(File, 1 .. N)
    BY <1>3, Zenon DEF ExistsBijection
  <2>2. QED  BY <1>1, <1>2, <2>1
<1>5. /\ b = [x \in File |-> [direct |-> [i \in 0 .. Direct - 1 |-> IF i = 0 THEN G[x] ELSE 0],
                              first |-> 0, second |-> 0]]
      /\ c = 0 .. N
  BY <1>1 DEF Files!Init
<1> HIDE DEF G, N
<1>6. /\ G \in [File -> 1 .. N] /\ \A x, y \in File : G[x] = G[y] => x = y
      /\ \A i \in 1 .. N : \E x \in File : G[x] = i
  BY <1>4 DEF Bijection, Injection, Surjection, IsInjective
<1>7. QED  BY <1>5, <1>6 DEF N

LEMMA FilesInit ==
    ASSUME Files!Init
    PROVE  Files!FilesInv
<1>1. /\ a = [x \in Files!Fd |-> Files!Closed] /\ d = Files!Blank /\ e = Files!Blank
      /\ f = Files!NoCall /\ g = [x \in File |-> <<>>]
  BY DEF Files!Init
<1>2. PICK N : N = Cardinality(File)
  OBVIOUS
<1>3. PICK G \in [File -> 1 .. N] :
           /\ b = [x \in File |-> [direct |-> [i \in 0 .. Direct - 1 |-> IF i = 0 THEN G[x] ELSE 0],
                                   first |-> 0, second |-> 0]]
           /\ c = 0 .. N
           /\ \A x, y \in File : G[x] = G[y] => x = y
           /\ \A i \in 1 .. N : \E x \in File : G[x] = i
  BY <1>2, FirstBlocks
<1>4. N \in Nat /\ N < NumBlocks /\ NumBlocks \in Nat /\ Direct \in Nat \ {0} /\ Files!Blocks = 0 .. NumBlocks - 1
  BY <1>2, FileSizes, FS_CardinalityType DEF Files!Blocks
<1>5. Files!FilesTyped
  <2>1. a \in [Files!Fd -> Descriptors]
    BY <1>1 DEF Descriptors, Files!Closed
  <2>2. b \in [File -> Inodes]
    <3>1. \A x \in File : /\ G[x] \in Files!Blocks /\ 0 \in Files!Blocks
                          /\ [i \in 0 .. Direct - 1 |-> IF i = 0 THEN G[x] ELSE 0] \in [0 .. Direct - 1 -> Files!Blocks]
      BY <1>4
    <3>2. QED  BY <1>3, <3>1 DEF Inodes
  <2>3. c \subseteq Files!Blocks /\ 0 \in c
    BY <1>3, <1>4
  <2>4. d \in Stores /\ e \in Stores
    BY <1>1 DEF Stores, Files!Blank
  <2>5. g \in [File -> Seq(Nat)] /\ \A x \in File : Len(g[x]) <= Limit[x]
    BY <1>1, FileSizes
  <2>6. QED  BY <1>1, <2>1, <2>2, <2>3, <2>4, <2>5 DEF Files!FilesTyped, Descriptors, Inodes, Stores
<1>6. Files!Calling
  BY <1>1 DEF Files!Calling
<1>7. \A x \in File : /\ Files!Extent(x) = 0 /\ Files!Count(Files!Extent(x)) = 1
  BY <1>1, NotWritten DEF Files!Count
<1>8. \A x \in File : \A z : z \in Files!Has(x) <=> z = <<"data", 0>>
  <2>1. Direct \in Nat /\ Files!Area \in Nat /\ ~ (1 > Direct) /\ ~ (1 > Files!Area)
    BY Widths
  <2>2. \A z : z \in Files!Places(1) <=> z = <<"data", 0>>
    BY <2>1, InPlaces
  <2>3. QED  BY <1>7, <2>2 DEF Files!Has
<1>9. \A x \in File : Files!BlockAt(x, <<"data", 0>>) = G[x]
  <2>1. \A x \in File : b[x].direct[0] = G[x]
    BY <1>3, <1>4
  <2>2. QED  BY <1>4, <2>1 DEF Files!BlockAt, Files!At, Files!DataAt
<1>10. Files!EachItsOwn
  <2>1. SUFFICES ASSUME NEW x \in File, NEW y \in File, NEW z \in Files!Has(x), NEW w \in Files!Has(y),
                        Files!BlockAt(x, z) = Files!BlockAt(y, w)
                 PROVE  x = y /\ z = w
    BY Zenon DEF Files!EachItsOwn
  <2>2. z = <<"data", 0>> /\ w = <<"data", 0>>
    BY <1>8
  <2>3. G[x] = G[y]
    BY <1>9, <2>1, <2>2
  <2>4. QED  BY <1>3, <2>2, <2>3
<1>11. Files!AllMarked
  <2>1. SUFFICES ASSUME NEW x \in File, NEW z \in Files!Has(x) PROVE Files!BlockAt(x, z) \in c \ {0}
    BY DEF Files!AllMarked
  <2>2. z = <<"data", 0>>
    BY <1>8
  <2>3. Files!BlockAt(x, z) = G[x] /\ G[x] \in 1 .. N
    BY <1>9, <2>2
  <2>4. QED  BY <1>3, <1>4, <2>3
<1>12. Files!MarkedUsed
  <2>1. SUFFICES ASSUME NEW y \in c \ {0} PROVE \E x \in File : \E z \in Files!Has(x) : y = Files!BlockAt(x, z)
    BY DEF Files!MarkedUsed
  <2>2. y \in 1 .. N
    BY <1>3, <1>4, <2>1
  <2>3. PICK x \in File : G[x] = y
    BY <1>3, <2>2
  <2>4. QED  BY <1>8, <1>9, <2>3
<1>13. Files!FreeBlank
  BY <1>1 DEF Files!FreeBlank
<1>14. Files!NoMoreIndices
  <2>1. ~ (1 > Files!Area)
    BY Widths
  <2>2. QED  BY <1>7, <2>1 DEF Files!NoMoreIndices
<1>15. Files!Holds
  BY <1>7 DEF Files!Holds
<1>16. QED  BY <1>5, <1>6, <1>10, <1>11, <1>12, <1>13, <1>14, <1>15 DEF Files!FilesInv

LEMMA FilesInvAlways == KeepAll => (Spec => [](part = "files" => Files!FilesInv))
<1> SUFFICES ASSUME KeepAll PROVE Spec => [](part = "files" => Files!FilesInv)
  OBVIOUS
<1> DEFINE Inv == part = "files" => Files!FilesInv
<1>1. Init => Inv
  BY FilesInit DEF Init
<1>2. Inv /\ [Next]_vars => Inv'
  <2> SUFFICES ASSUME Inv, [Next]_vars, part' = "files" PROVE Files!FilesInv'
    OBVIOUS
  <2>1. part = "files" /\ Files!FilesInv
    BY DEF Next, vars
  <2>2. CASE Files!Next
    BY <2>1, <2>2, FilesStep
  <2>3. CASE UNCHANGED vars
    BY <2>1, <2>3, FilesStutter DEF vars
  <2>4. QED  BY <2>1, <2>2, <2>3 DEF Next
<1>3. QED  BY <1>1, <1>2, PTL DEF Spec

\* The blocks on the ways to the data of a file are those of its places.
LEMMA BlocksOfAre ==
    ASSUME Files!FilesInv, f = Files!NoCall, NEW o \in File
    PROVE  \A y : y \in Files!BlocksOf(o) <=> \E x \in Files!Has(o) : y = Files!BlockAt(o, x)
<1>1. PICK n, n1, v : n = Len(g[o]) /\ n1 = Files!Count(n) /\ v = b[o]
  OBVIOUS
<1>2. n \in Nat /\ Files!Extent(o) = n
  BY <1>1, StoreTyped, NotWritten
<1>3. /\ n1 \in Nat \ {0}
      /\ \A i \in 0 .. n - 1 : Files!Number(i) < n1
      /\ \A j \in 1 .. n1 - 1 : BlockSize * j < n
  BY <1>1, <1>2, Counts
<1>4. Files!Has(o) = Files!Places(n1) /\ \A x : Files!BlockAt(o, x) = Files!At(e, v, x)
  BY <1>1, <1>2 DEF Files!Has, Files!BlockAt
<1>5. \A y : y \in Files!BlocksOf(o) <=>
               \/ y = v.direct[0]
               \/ \E p \in 0 .. n - 1 : y \in Files!Way(e, v, p)
  BY <1>1, Zenon DEF Files!BlocksOf
<1>6. Direct \in Nat \ {0} /\ Files!Area = Direct + Pointers /\ Pointers \in Nat \ {0} /\ BlockSize \in Nat \ {0}
  BY Widths
<1>7. /\ Files!At(e, v, <<"first", 0>>) = v.first /\ Files!At(e, v, <<"second", 0>>) = v.second
      /\ \A k : /\ Files!At(e, v, <<"data", k>>) = Files!DataAt(e, v, k)
                /\ Files!At(e, v, <<"index", k>>) = e[v.second][k]
      /\ Files!DataAt(e, v, 0) = v.direct[0]
  BY <1>6 DEF Files!At, Files!DataAt
<1>8. ASSUME NEW y, y \in Files!BlocksOf(o) PROVE \E x \in Files!Places(n1) : y = Files!At(e, v, x)
  <2>1. CASE y = v.direct[0]
    <3>1. <<"data", 0>> \in Files!Places(n1)
      <4>1. 0 \in 0 .. n1 - 1
        BY <1>3
      <4>2. QED  BY <1>3, <4>1, InPlaces
    <3>2. QED  BY <1>7, <2>1, <3>1
  <2>2. ASSUME NEW p \in 0 .. n - 1, y \in Files!Way(e, v, p) PROVE \E x \in Files!Places(n1) : y = Files!At(e, v, x)
    <3>1. PICK k : k = Files!Number(p)
      OBVIOUS
    <3>2. p \in Nat /\ k \in 0 .. n1 - 1
      BY <1>2, <1>3, <3>1, Position
    <3>3. \/ y = Files!DataAt(e, v, k)
          \/ k >= Direct /\ k < Files!Area /\ y = v.first
          \/ k >= Files!Area /\ (y = v.second \/ y = e[v.second][Files!Turn(k)])
      BY <2>2, <3>1, <3>2, WayIs
    <3>4. /\ <<"data", k>> \in Files!Places(n1)
          /\ k >= Direct => <<"first", 0>> \in Files!Places(n1)
          /\ k >= Files!Area => /\ <<"second", 0>> \in Files!Places(n1)
                                /\ <<"index", Files!Turn(k)>> \in Files!Places(n1)
      BY <1>3, <3>2, OnTheWay
    <3>5. QED  BY <1>7, <3>3, <3>4
  <2>3. QED  BY <1>5, <1>8, <2>1, <2>2
<1>9. ASSUME NEW x \in Files!Places(n1) PROVE Files!At(e, v, x) \in Files!BlocksOf(o)
  <2>1. ASSUME NEW j \in 1 .. n1 - 1
        PROVE  \E p \in 0 .. n - 1 : p \in Nat /\ Files!Number(p) = j
    <3>1. j \in Nat /\ 0 \in Nat /\ 0 < BlockSize /\ BlockSize * j \in Nat /\ BlockSize * j + 0 = BlockSize * j
      BY <1>3, <1>6
    <3>2. Files!Number(BlockSize * j + 0) = j
      BY <3>1, PositionIs, Zenon
    <3>3. PICK p : p = BlockSize * j
      OBVIOUS
    <3>4. p \in Nat /\ p < n /\ Files!Number(p) = j
      BY <1>3, <3>1, <3>2, <3>3
    <3>5. p \in 0 .. n - 1
      BY <1>2, <3>4
    <3>6. QED  BY <3>4, <3>5
  <2>2. ASSUME NEW j \in 1 .. n1 - 1, NEW y,
               \/ y = Files!DataAt(e, v, j)
               \/ j >= Direct /\ j < Files!Area /\ y = v.first
               \/ j >= Files!Area /\ (y = v.second \/ y = e[v.second][Files!Turn(j)])
        PROVE  y \in Files!BlocksOf(o)
    <3>1. PICK p \in 0 .. n - 1 : p \in Nat /\ Files!Number(p) = j
      BY <2>1
    <3>2. y \in Files!Way(e, v, p)
      BY <2>2, <3>1, WayIs
    <3>3. QED  BY <1>5, <3>1, <3>2
  <2>3. \/ \E j \in 0 .. n1 - 1 : x = <<"data", j>>
        \/ n1 > Direct /\ x = <<"first", 0>>
        \/ n1 > Files!Area /\ x = <<"second", 0>>
        \/ n1 > Files!Area /\ \E i \in 0 .. Files!Turn(n1 - 1) : x = <<"index", i>>
    BY <1>3, InPlaces
  <2>4. ASSUME NEW j \in 0 .. n1 - 1, x = <<"data", j>> PROVE Files!At(e, v, x) \in Files!BlocksOf(o)
    <3>1. CASE j = 0
      BY <1>5, <1>7, <2>4, <3>1
    <3>2. CASE j # 0
      <4>1. j \in 1 .. n1 - 1
        BY <1>3, <3>2
      <4>2. Files!DataAt(e, v, j) \in Files!BlocksOf(o)
        BY <2>2, <4>1
      <4>3. QED  BY <1>7, <2>4, <4>2
    <3>3. QED  BY <3>1, <3>2
  <2>5. ASSUME n1 > Direct PROVE v.first \in Files!BlocksOf(o)
    <3>1. Direct \in 1 .. n1 - 1 /\ Direct >= Direct /\ Direct < Files!Area
      BY <1>3, <1>6, <2>5
    <3>2. QED  BY <2>2, <3>1
  <2>6. ASSUME n1 > Files!Area PROVE v.second \in Files!BlocksOf(o)
    <3>1. Files!Area \in 1 .. n1 - 1 /\ Files!Area >= Files!Area
      BY <1>3, <1>6, <2>6
    <3>2. QED  BY <2>2, <3>1
  <2>7. ASSUME n1 > Files!Area, NEW i \in 0 .. Files!Turn(n1 - 1) PROVE e[v.second][i] \in Files!BlocksOf(o)
    <3>1. PICK k : k = n1 - 1
      OBVIOUS
    <3>2. k \in Nat /\ k >= Files!Area
      BY <1>3, <1>6, <2>7, <3>1
    <3>3. /\ Files!Turn(k) \in Nat /\ Files!Rest(k) \in Nat
          /\ k = Files!Area + Pointers * Files!Turn(k) + Files!Rest(k)
      BY <3>2, Turns
    <3>4. i \in Nat /\ i <= Files!Turn(k)
      BY <2>7, <3>1, <3>3
    <3>5. Pointers * i <= Pointers * Files!Turn(k) /\ Pointers * i \in Nat
      BY <1>6, <3>3, <3>4, Order
    <3>6. PICK j : j = Files!Area + Pointers * i + 0
      OBVIOUS
    <3>7. j \in Nat /\ j >= Files!Area /\ Files!Turn(j) = i
      <4>1. 0 \in Nat /\ 0 < Pointers
        BY <1>6
      <4>2. /\ Files!Area + Pointers * i + 0 \in Nat /\ Files!Area + Pointers * i + 0 >= Files!Area
            /\ Files!Turn(Files!Area + Pointers * i + 0) = i
        BY <3>4, <4>1, TurnIs, Zenon
      <4>3. QED  BY <3>6, <4>2, Zenon
    <3>8. PICK y, z : y = Pointers * i /\ z = Pointers * Files!Turn(k)
      OBVIOUS
    <3>9. j <= k /\ j >= 1
      <4>1. y \in Nat /\ z \in Int /\ y <= z /\ j = Files!Area + y + 0 /\ k = Files!Area + z + Files!Rest(k)
        BY <1>6, <3>3, <3>5, <3>6, <3>8
      <4>2. QED  BY <1>6, <3>3, <4>1
    <3>10. j \in 1 .. n1 - 1
      BY <1>3, <3>1, <3>2, <3>7, <3>9
    <3>11. QED  BY <2>2, <3>7, <3>10
  <2>8. QED  BY <1>7, <2>3, <2>4, <2>5, <2>6, <2>7
<1>10. QED  BY <1>4, <1>8, <1>9

\* Users who keep every promise find the block map exact between calls: it marks the blocks of
\* the files and the root's, and no block has two owners, for any files, sizes and number of
\* blocks.
THEOREM BlocksExactAlways == KeepAll => (Spec => []BlocksExact)
<1> SUFFICES ASSUME KeepAll PROVE Spec => []BlocksExact
  OBVIOUS
<1>1. (part = "files" => Files!FilesInv) => BlocksExact
  <2>1. SUFFICES ASSUME Files!FilesInv, f = Files!NoCall
                 PROVE  /\ c = {0} \cup UNION {Files!BlocksOf(x) : x \in File}
                        /\ \A x, y \in File : x # y => Files!BlocksOf(x) \cap Files!BlocksOf(y) = {}
    BY DEF BlocksExact, Files!BlocksExact, Files!Quiet
  <2>2. Files!AllMarked /\ Files!MarkedUsed /\ Files!EachItsOwn /\ 0 \in c
    BY <2>1, StoreTyped DEF Files!FilesInv
  <2>3. \A x \in File : \A y : y \in Files!BlocksOf(x) <=> \E z \in Files!Has(x) : y = Files!BlockAt(x, z)
    BY <2>1, BlocksOfAre
  <2>4. \A x \in File : \A y \in Files!BlocksOf(x) : y \in c
    BY <2>2, <2>3 DEF Files!AllMarked
  <2>5. \A y \in c \ {0} : \E x \in File : y \in Files!BlocksOf(x)
    BY <2>2, <2>3 DEF Files!MarkedUsed
  <2>6. \A y : y \in UNION {Files!BlocksOf(x) : x \in File} <=> \E x \in File : y \in Files!BlocksOf(x)
    BY Zenon
  <2>7. c = {0} \cup UNION {Files!BlocksOf(x) : x \in File}
    BY <2>2, <2>4, <2>5, <2>6
  <2>8. ASSUME NEW x \in File, NEW y \in File, NEW w, w \in Files!BlocksOf(x), w \in Files!BlocksOf(y)
        PROVE  x = y
    BY <2>2, <2>3, <2>8 DEF Files!EachItsOwn
  <2>9. QED  BY <2>7, <2>8
<1>2. QED  BY <1>1, FilesInvAlways, PTL

\* To such users a read returns what was written there last, however the way to the block is
\* indexed, whoever allocated in between, and across restarts.
THEOREM ReadBackAlways == KeepAll => (Spec => []ReadBack)
<1> SUFFICES ASSUME KeepAll PROVE Spec => []ReadBack
  OBVIOUS
<1>1. (part = "files" => Files!FilesInv) => ReadBack
  <2>1. SUFFICES ASSUME Files!FilesInv, f # Files!NoCall, f.kind = "read", f.todo = 0, NEW i \in DOMAIN f.buffer
                 PROVE  f.buffer[i] = g[a[f.fd].file][f.from + i]
    BY DEF ReadBack, Files!ReadBack
  <2>2. f.buffer \in Seq(Nat) /\ Files!Calling
    BY <2>1, StoreTyped DEF Files!FilesInv
  <2>3. i \in 1 .. Len(f.buffer)
    BY <2>2
  <2>4. QED  BY <2>1, <2>2, <2>3 DEF Files!Calling
<1>2. QED  BY <1>1, FilesInvAlways, PTL

----------------------------------------------------------------------------
(* The directory tree: sizes                                               *)

\* Induction, for a set of numbers.
LEMMA CountUp ==
    ASSUME NEW T, 0 \in T, \A n \in Nat : n \in T => n + 1 \in T
    PROVE  \A n \in Nat : n \in T
<1> DEFINE bad == {n \in Nat : n \notin T}
<1> SUFFICES ASSUME bad # {} PROVE FALSE
  OBVIOUS
<1>1. bad \in SUBSET Nat
  OBVIOUS
<1>2. PICK n \in bad : \A m \in bad : n <= m
  BY <1>1, Least
<1>3. n # 0 /\ n \in Nat
  BY <1>2
<1>4. n - 1 \in Nat /\ ~ (n <= n - 1)
  BY <1>3
<1>5. n - 1 \notin bad
  BY <1>2, <1>4
<1>6. n - 1 \in T
  BY <1>4, <1>5
<1>7. (n - 1) + 1 \in T
  BY <1>4, <1>6
<1>8. n \in T
  BY <1>3, <1>7
<1>9. QED  BY <1>2, <1>8

\* A name of the user is neither empty nor a dot or two.
LEMMA TreeNames == Names \cap {"", ".", ".."} = {}
BY ResourcesAssumption DEF Tree!DirectoryAssumption

\* The sizes of a card, without what is assumed of names.
LEMMA TreeSizes ==
    /\ NumInodes \in Nat /\ NumInodes > 0 /\ DirBlocks \in Nat /\ DirBlocks > 0
    /\ MaxEntries \in Nat /\ MaxEntries > 2
    /\ Tree!Root = 0 /\ Tree!Root \in Tree!Inodes /\ Tree!Inodes = 0 .. NumInodes - 1
    /\ Tree!Blocks = 0 .. DirBlocks - 1 /\ Tree!Places = 0 .. MaxEntries - 1
    /\ 0 \in Tree!Blocks /\ 0 \in Tree!Places /\ 1 \in Tree!Places
<1>1. NumInodes \in Nat \ {0} /\ DirBlocks \in Nat \ {0} /\ MaxEntries \in Nat /\ MaxEntries > 2
  BY ResourcesAssumption DEF Tree!DirectoryAssumption
<1>2. NumInodes > 0 /\ DirBlocks > 0
  BY <1>1
<1>3. QED  BY <1>1, <1>2 DEF Tree!Root, Tree!Inodes, Tree!Blocks, Tree!Places

\* There are finitely many inodes, which bounds how deep a tree is.
LEMMA InodesFinite == IsFiniteSet(Tree!Inodes) /\ Cardinality(Tree!Inodes) = NumInodes
<1>1. NumInodes \in Nat /\ NumInodes # 0 /\ Tree!Inodes = 0 .. NumInodes - 1
  BY TreeSizes
<1>2. 0 \in Int /\ NumInodes - 1 \in Int /\ ~ (0 > NumInodes - 1) /\ (NumInodes - 1) - 0 + 1 = NumInodes
  BY <1>1
<1>3. IsFiniteSet(0 .. NumInodes - 1) /\ Cardinality(0 .. NumInodes - 1) = NumInodes
  BY <1>2, FS_Interval
<1>4. QED  BY <1>1, <1>3

\* Lowest finds a member.
LEMMA TreeLowest ==
    ASSUME NEW T \in SUBSET Nat, T # {}
    PROVE  Tree!Lowest(T) \in T
BY Least DEF Tree!Lowest

----------------------------------------------------------------------------
(* The entries of the directories                                          *)

\* The entries of the directories of a set.
Under(x, D) == UNION {Tree!EntriesOf(x, i) : i \in D}

\* Every directory but the root is the target of an entry, one level below it.
Ranked(A, D, r) ==
    /\ Tree!Root \in D /\ r[Tree!Root] = 0
    /\ \A z \in A : z.type = "dir" => z.to \in D \ {Tree!Root} /\ r[z.to] = r[z.dir] + 1
    /\ \A v \in D \ {Tree!Root} : \E z \in A : z.type = "dir" /\ z.to = v

\* An entry of a directory is at one of its places behind the first two.
LEMMA EntryOf ==
    ASSUME NEW x, NEW i
    PROVE  \A z : z \in Tree!EntriesOf(x, i) <=>
               \E k \in Tree!Used(x, i) : /\ k > 1
                                          /\ z = [dir |-> i, name |-> Tree!EntryAt(x, i, k).name,
                                                  type |-> Tree!EntryAt(x, i, k).type,
                                                  to |-> Tree!EntryAt(x, i, k).inode]
BY DEF Tree!EntriesOf

\* An entry belongs to the directory it names.
LEMMA EntryUnder ==
    ASSUME NEW x, NEW D
    PROVE  \A z : z \in Under(x, D) <=> z.dir \in D /\ z \in Tree!EntriesOf(x, z.dir)
<1>1. \A i, z : z \in Tree!EntriesOf(x, i) => z.dir = i
  BY EntryOf
<1>2. QED  BY <1>1 DEF Under

\* The ranks are those of fewer directories than there are inodes.
LEMMA RanksSmall ==
    ASSUME NEW A, NEW D \in SUBSET Tree!Inodes, NEW r \in [D -> Nat], Ranked(A, D, r), \A z \in A : z.dir \in D
    PROVE  \A i \in D : r[i] <= NumInodes - 1
<1> DEFINE S == {r[i] : i \in D}
<1>1. SUFFICES ASSUME NEW i \in D PROVE r[i] <= NumInodes - 1
  OBVIOUS
<1>2. PICK N \in Nat : N = r[i]
  OBVIOUS
<1> DEFINE T == {m \in Nat : m <= N => N - m \in S}
<1>3. 0 \in T
  BY <1>2
<1>4. ASSUME NEW m \in Nat, m \in T PROVE m + 1 \in T
  <2> SUFFICES ASSUME m + 1 <= N PROVE N - (m + 1) \in S
    OBVIOUS
  <2>1. m <= N /\ N - m \in S
    BY <1>4
  <2>2. PICK j \in D : r[j] = N - m
    BY <2>1
  <2>3. N - m # 0
    OBVIOUS
  <2>4. j # Tree!Root
    BY <2>2, <2>3 DEF Ranked
  <2>5. PICK z \in A : z.type = "dir" /\ z.to = j
    BY <2>2, <2>4 DEF Ranked
  <2>6. z.dir \in D /\ r[j] = r[z.dir] + 1 /\ r[z.dir] \in Nat
    BY <2>5 DEF Ranked
  <2>7. r[z.dir] = N - (m + 1)
    BY <2>2, <2>6
  <2>8. QED  BY <2>6, <2>7
<1>5. \A m \in Nat : m \in T
  <2> HIDE DEF T
  <2>1. QED  BY <1>3, <1>4, CountUp
<1>6. 0 .. N \subseteq S
  <2>1. SUFFICES ASSUME NEW k \in 0 .. N PROVE k \in S
    OBVIOUS
  <2>2. N - k \in Nat /\ N - k <= N /\ N - (N - k) = k
    BY <2>1
  <2>3. N - k \in T
    BY <1>5, <2>2
  <2>4. N - (N - k) \in S
    BY <2>2, <2>3
  <2>5. QED  BY <2>2, <2>4
<1> HIDE DEF T
<1>7. IsFiniteSet(D) /\ Cardinality(D) <= NumInodes /\ Cardinality(D) \in Nat
  BY InodesFinite, FS_Subset, FS_CardinalityType
<1>8. r \in Surjection(D, S)
  BY DEF Surjection
<1> HIDE DEF S
<1>9. IsFiniteSet(S) /\ Cardinality(S) <= Cardinality(D) /\ Cardinality(S) \in Nat
  BY <1>7, <1>8, FS_Surjection, FS_CardinalityType
<1>10. Cardinality(0 .. N) = N + 1
  <2>1. 0 \in Int /\ N \in Int /\ ~ (0 > N) /\ N - 0 + 1 = N + 1
    OBVIOUS
  <2>2. QED  BY <2>1, FS_Interval
<1>11. Cardinality(0 .. N) <= Cardinality(S)
  BY <1>6, <1>9, FS_Subset
<1>12. NumInodes \in Nat
  BY TreeSizes
<1>13. QED  BY <1>2, <1>7, <1>9, <1>10, <1>11, <1>12

Deeper(x, s) == UNION {Tree!EntriesOf(x, z.to) : z \in {w \in s : w.type = "dir"}}

\* What Tree computes: v[n] are the entries n directories below the root.
LEMMA LevelsRun ==
    ASSUME NEW x
    PROVE  \E v : /\ Tree!Tree(x) = UNION {v[n] : n \in 0 .. NumInodes - 1}
                  /\ v[0] = Tree!EntriesOf(x, Tree!Root)
                  /\ \A n \in 1 .. NumInodes - 1 : v[n] = Deeper(x, v[n - 1])
<1> DEFINE K == NumInodes - 1
           First == Tree!EntriesOf(x, Tree!Root)
           Then(s) == Deeper(x, s)
           Run(v, N) == v = [n \in 0 .. N |-> IF n = 0 THEN First ELSE Then(v[n - 1])]
           T == {N \in Nat : \E v : Run(v, N)}
<1>0. K \in Nat
  BY TreeSizes
<1>1. Tree!Tree(x) = UNION {(CHOOSE v : Run(v, K))[n] : n \in 0 .. K}
  BY DEF Tree!Tree, Deeper
<1> HIDE DEF Then, K, First
<1>2. ASSUME NEW N \in Nat, N \in T PROVE N + 1 \in T
  <2>1. PICK v : Run(v, N)
    BY <1>2
  <2> DEFINE w == [n \in 0 .. (N + 1) |-> IF n < N + 1 THEN v[n] ELSE Then(v[N])]
  <2>2. ASSUME NEW n \in 0 .. (N + 1)
        PROVE  w[n] = IF n = 0 THEN First ELSE Then(w[n - 1])
    <3>1. CASE n < N + 1
      <4>1. n \in 0 .. N /\ w[n] = v[n]
        BY <3>1
      <4>2. v[n] = IF n = 0 THEN First ELSE Then(v[n - 1])
        BY <2>1, <4>1
      <4>3. n # 0 => w[n - 1] = v[n - 1]
        BY <3>1
      <4>4. QED  BY <4>1, <4>2, <4>3
    <3>2. CASE n = N + 1
      BY <3>2
    <3>3. QED  BY <3>1, <3>2
  <2>3. Run(w, N + 1)
    BY <2>2
  <2>4. \E u : Run(u, N + 1)
    BY <2>3
  <2> HIDE DEF Run
  <2>5. QED  BY <2>4
<1>3. 0 \in T
  <2>1. Run([n \in 0 .. 0 |-> First], 0)
    OBVIOUS
  <2>2. QED  BY <2>1
<1>4. \A N \in Nat : N \in T
  <2> HIDE DEF T
  <2>1. QED  BY <1>2, <1>3, CountUp
<1>5. PICK v : Run(v, K) /\ v = (CHOOSE u : Run(u, K))
  BY <1>0, <1>4
<1> HIDE DEF Run
<1>6. Tree!Tree(x) = UNION {v[n] : n \in 0 .. K}
  BY <1>1, <1>5
<1> USE DEF Run
<1>7. v[0] = First /\ \A n \in 1 .. K : v[n] = Then(v[n - 1])
  <2>1. \A n \in 0 .. K : v[n] = IF n = 0 THEN First ELSE Then(v[n - 1])
    BY <1>5
  <2>2. QED  BY <1>0, <2>1
<1>8. QED  BY <1>6, <1>7 DEF K, Then, First

\* Where the directories hang together the tree is all they hold.
LEMMA TreeIs ==
    ASSUME NEW x, NEW D \in SUBSET Tree!Inodes, NEW r \in [D -> Nat], Ranked(Under(x, D), D, r)
    PROVE  Tree!Tree(x) = Under(x, D)
<1>1. PICK v : /\ Tree!Tree(x) = UNION {v[n] : n \in 0 .. NumInodes - 1}
               /\ v[0] = Tree!EntriesOf(x, Tree!Root)
               /\ \A n \in 1 .. NumInodes - 1 : v[n] = Deeper(x, v[n - 1])
  BY LevelsRun
<1>2. \A z \in Under(x, D) : z.dir \in D
  BY EntryUnder
<1>3. \A i \in D : r[i] <= NumInodes - 1 /\ r[i] \in Nat
  BY <1>2, RanksSmall
<1> DEFINE Right(n) == \A z : z \in v[n] <=> z \in Under(x, D) /\ r[z.dir] = n
           T == {n \in Nat : n <= NumInodes - 1 => Right(n)}
<1>4. 0 \in T
  <2>1. ASSUME NEW z, z \in v[0] PROVE z \in Under(x, D) /\ r[z.dir] = 0
    <3>1. z \in Tree!EntriesOf(x, Tree!Root) /\ z.dir = Tree!Root
      BY <1>1, <2>1, EntryOf
    <3>2. QED  BY <3>1, EntryUnder DEF Ranked
  <2>2. ASSUME NEW z, z \in Under(x, D), r[z.dir] = 0 PROVE z \in v[0]
    <3>1. z.dir = Tree!Root
      <4>1. SUFFICES ASSUME z.dir # Tree!Root PROVE FALSE
        OBVIOUS
      <4>2. PICK w \in Under(x, D) : w.type = "dir" /\ w.to = z.dir
        BY <1>2, <2>2, <4>1 DEF Ranked
      <4>3. r[z.dir] = r[w.dir] + 1 /\ r[w.dir] \in Nat
        BY <1>2, <4>2 DEF Ranked
      <4>4. QED  BY <2>2, <4>3
    <3>2. QED  BY <1>1, <2>2, <3>1, EntryUnder
  <2>3. Right(0)
    BY <2>1, <2>2
  <2>4. QED  BY <2>3
<1>5. ASSUME NEW n \in Nat, n \in T PROVE n + 1 \in T
  <2> SUFFICES ASSUME n + 1 <= NumInodes - 1 PROVE Right(n + 1)
    OBVIOUS
  <2>1. NumInodes \in Nat /\ n <= NumInodes - 1 /\ n + 1 \in 1 .. NumInodes - 1 /\ (n + 1) - 1 = n
    BY TreeSizes
  <2>2. Right(n)
    BY <1>5, <2>1
  <2>3. v[n + 1] = Deeper(x, v[n])
    BY <1>1, <2>1
  <2>4. \A z : z \in v[n + 1] <=> \E w \in v[n] : w.type = "dir" /\ z \in Tree!EntriesOf(x, w.to)
    BY <2>3 DEF Deeper
  <2>5. ASSUME NEW z, z \in v[n + 1] PROVE z \in Under(x, D) /\ r[z.dir] = n + 1
    <3>1. PICK w \in v[n] : w.type = "dir" /\ z \in Tree!EntriesOf(x, w.to)
      BY <2>4, <2>5
    <3>2. w \in Under(x, D) /\ r[w.dir] = n
      BY <2>2, <3>1
    <3>3. w.to \in D /\ r[w.to] = n + 1
      BY <3>1, <3>2 DEF Ranked
    <3>4. z.dir = w.to
      BY <3>1, EntryOf
    <3>5. QED  BY <3>1, <3>3, <3>4, EntryUnder
  <2>6. ASSUME NEW z, z \in Under(x, D), r[z.dir] = n + 1 PROVE z \in v[n + 1]
    <3>1. z.dir \in D /\ z \in Tree!EntriesOf(x, z.dir)
      BY <2>6, EntryUnder
    <3>2. z.dir # Tree!Root
      <4>1. n + 1 # 0
        OBVIOUS
      <4>2. QED  BY <2>6, <4>1 DEF Ranked
    <3>3. PICK w \in Under(x, D) : w.type = "dir" /\ w.to = z.dir
      BY <3>1, <3>2 DEF Ranked
    <3>4. r[z.dir] = r[w.dir] + 1 /\ r[w.dir] \in Nat
      BY <1>2, <1>3, <3>3 DEF Ranked
    <3>5. r[w.dir] = n
      BY <2>6, <3>4
    <3>6. w \in v[n]
      BY <2>2, <3>5
    <3>7. QED  BY <2>4, <3>1, <3>3, <3>6
  <2> HIDE DEF T
  <2>7. QED  BY <2>5, <2>6
<1>6. \A n \in Nat : n \in T
  <2> HIDE DEF T
  <2>1. QED  BY <1>4, <1>5, CountUp
<1>7. \A n \in 0 .. NumInodes - 1 : Right(n)
  BY <1>6, TreeSizes
<1> HIDE DEF T
<1>8. ASSUME NEW z, z \in Tree!Tree(x) PROVE z \in Under(x, D)
  BY <1>1, <1>7, <1>8
<1>9. ASSUME NEW z, z \in Under(x, D) PROVE z \in Tree!Tree(x)
  <2>1. PICK n : n = r[z.dir]
    OBVIOUS
  <2>2. n \in 0 .. NumInodes - 1
    <3>1. n \in Nat /\ n <= NumInodes - 1
      BY <1>2, <1>3, <1>9, <2>1
    <3>2. QED  BY <3>1, TreeSizes
  <2>3. z \in v[n]
    BY <1>7, <1>9, <2>1, <2>2
  <2>4. QED  BY <1>1, <2>2, <2>3
<1>10. QED  BY <1>8, <1>9

----------------------------------------------------------------------------
(* What a whole card holds                                                 *)

TreeEntries == [name : Names \cup {"", ".", ".."}, type : {"none", "dot", "dotdot", "dir", "file"},
                inode : Tree!Inodes]
DirBlock == [Tree!Places -> TreeEntries]
TreeInodes == [Tree!Inodes -> [size : Nat, block : Tree!Blocks, reference : Nat]]
Disks == [imap : SUBSET Tree!Inodes, bmap : SUBSET Tree!Blocks, inode : TreeInodes,
          block : [Tree!Blocks -> DirBlock]]

\* The directories form a tree, with files for leaves.
Family(A, D, r) ==
    /\ Ranked(A, D, r)
    /\ A \subseteq [dir : D, name : Names, type : {"dir", "file"}, to : Tree!Inodes]
    /\ \A z \in A : z.type = "file" => z.to \notin D
    /\ \A z, w \in A : z.type = "dir" /\ w.type = "dir" /\ z.to = w.to => z = w

\* A directory begins with itself and its parent.
Heads(x, D) ==
    \A i \in D : /\ x.inode[i].size \in 2 .. MaxEntries
                 /\ Tree!EntryAt(x, i, 0) = [name |-> ".", type |-> "dot", inode |-> i]
                 /\ Tree!EntryAt(x, i, 1).name = ".." /\ Tree!EntryAt(x, i, 1).type = "dotdot"
UpLinks(x, D) ==
    /\ Tree!EntryAt(x, Tree!Root, 1).inode = Tree!Root
    /\ \A z \in Under(x, D) : z.type = "dir" => Tree!EntryAt(x, z.to, 1).inode = z.dir

\* No name occurs twice in a directory.
NamesApart(x, D) ==
    \A i \in D : \A j, k \in Tree!Used(x, i) : Tree!EntryAt(x, i, j).name = Tree!EntryAt(x, i, k).name => j = k

\* The block of a directory is its own.
BlocksApart(x, D) == \A i \in D : \A j \in x.imap \ {i} : Tree!BlockOf(x, j) # Tree!BlockOf(x, i)

Naming(A, i) == {z \in A : z.type = "file" /\ z.to = i}
Linked(x, D) ==
    /\ IsFiniteSet(Under(x, D))
    /\ \A i \in x.imap \ D : Cardinality(Naming(Under(x, D), i)) <= x.inode[i].reference

\* The block map marks the blocks of the inodes in use.
BlocksMarked(x) == x.bmap = {Tree!BlockOf(x, i) : i \in x.imap}

WholeTree(x, D, r) ==
    /\ x \in Disks /\ D \in SUBSET Tree!Inodes /\ r \in [D -> Nat]
    /\ Family(Under(x, D), D, r)
    /\ x.imap = D \cup {z.to : z \in Under(x, D)}
    /\ BlocksMarked(x)
    /\ Heads(x, D) /\ UpLinks(x, D) /\ NamesApart(x, D) /\ BlocksApart(x, D) /\ Linked(x, D)

\* The types of what is read from a card.
LEMMA DiskTyped ==
    ASSUME NEW x \in Disks
    PROVE  /\ x.imap \in SUBSET Tree!Inodes /\ x.bmap \in SUBSET Tree!Blocks
           /\ \A i \in Tree!Inodes : /\ x.inode[i].size \in Nat /\ x.inode[i].block \in Tree!Blocks
                                     /\ x.inode[i].reference \in Nat
                                     /\ Tree!BlockOf(x, i) \in Tree!Blocks
                                     /\ Tree!Used(x, i) \subseteq Tree!Places
           /\ \A i \in Tree!Inodes : \A k \in Tree!Places :
                  /\ Tree!EntryAt(x, i, k) \in TreeEntries
                  /\ Tree!EntryAt(x, i, k).name \in Names \cup {"", ".", ".."}
                  /\ Tree!EntryAt(x, i, k).type \in {"none", "dot", "dotdot", "dir", "file"}
                  /\ Tree!EntryAt(x, i, k).inode \in Tree!Inodes
<1>1. /\ x.imap \in SUBSET Tree!Inodes /\ x.bmap \in SUBSET Tree!Blocks
      /\ x.inode \in TreeInodes /\ x.block \in [Tree!Blocks -> DirBlock]
  BY DEF Disks
<1>2. \A i \in Tree!Inodes : /\ x.inode[i].size \in Nat /\ x.inode[i].block \in Tree!Blocks
                             /\ x.inode[i].reference \in Nat
  BY <1>1 DEF TreeInodes
<1>3. \A y \in Tree!Blocks : \A k \in Tree!Places : x.block[y][k] \in TreeEntries
  BY <1>1 DEF DirBlock
<1>4. \A q \in TreeEntries : /\ q.name \in Names \cup {"", ".", ".."} /\ q.inode \in Tree!Inodes
                             /\ q.type \in {"none", "dot", "dotdot", "dir", "file"}
  BY DEF TreeEntries
<1>5. QED  BY <1>1, <1>2, <1>3, <1>4 DEF Tree!BlockOf, Tree!EntryAt, Tree!Used

\* The three properties of a whole card.
LEMMA WholeIsExact ==
    ASSUME NEW x, NEW D, NEW r, WholeTree(x, D, r)
    PROVE  /\ Tree!Tree(x) = Under(x, D)
           /\ x.imap = {Tree!Root} \cup {z.to : z \in Tree!Tree(x)}
<1>1. /\ Family(Under(x, D), D, r) /\ D \in SUBSET Tree!Inodes /\ r \in [D -> Nat]
      /\ x.imap = D \cup {z.to : z \in Under(x, D)}
  BY DEF WholeTree
<1>2. Ranked(Under(x, D), D, r)
  BY <1>1 DEF Family
<1>3. Tree!Tree(x) = Under(x, D)
  BY <1>1, <1>2, TreeIs
<1>4. D \subseteq {Tree!Root} \cup {z.to : z \in Under(x, D)} /\ Tree!Root \in D
  BY <1>2 DEF Ranked
<1>5. QED  BY <1>1, <1>3, <1>4

\* The directories of a whole card form a tree, and files count their names.
LEMMA WholeIsCounted ==
    ASSUME NEW x, NEW D, NEW r, WholeTree(x, D, r)
    PROVE  LET A == Tree!Tree(x)
               S == {z \in A : z.type = "dir"}
           IN /\ D = {Tree!Root} \cup {z.to : z \in S}
              /\ \A z, w \in S : z.to = w.to => z = w
              /\ \A z \in S : /\ z.to # Tree!Root
                              /\ Tree!EntryAt(x, z.to, 0).inode = z.to
                              /\ Tree!EntryAt(x, z.to, 1).inode = z.dir
                              /\ \A i \in x.imap \ {z.to} : Tree!BlockOf(x, i) # Tree!BlockOf(x, z.to)
              /\ \A i \in x.imap \ {Tree!Root} :
                     Cardinality({z \in A : z.type = "file" /\ z.to = i}) <= x.inode[i].reference
<1> DEFINE A == Tree!Tree(x)
           S == {z \in A : z.type = "dir"}
<1>1. /\ x \in Disks /\ D \in SUBSET Tree!Inodes /\ Family(A, D, r) /\ A = Under(x, D)
      /\ Heads(x, D) /\ UpLinks(x, D) /\ BlocksApart(x, D) /\ Linked(x, D)
  BY WholeIsExact, Zenon DEF WholeTree
<1> HIDE DEF A
<1>2. Ranked(A, D, r)
  BY <1>1 DEF Family
<1>3. D = {Tree!Root} \cup {z.to : z \in S}
  BY <1>2 DEF Ranked
<1>4. \A z, w \in S : z.to = w.to => z = w
  BY <1>1 DEF Family
<1>5. ASSUME NEW z \in S
      PROVE  /\ z.to # Tree!Root
             /\ Tree!EntryAt(x, z.to, 0).inode = z.to
             /\ Tree!EntryAt(x, z.to, 1).inode = z.dir
             /\ \A i \in x.imap \ {z.to} : Tree!BlockOf(x, i) # Tree!BlockOf(x, z.to)
  <2>1. z.to \in D /\ z.to # Tree!Root
    BY <1>2 DEF Ranked
  <2>2. Tree!EntryAt(x, z.to, 0).inode = z.to
    BY <1>1, <2>1 DEF Heads
  <2>3. Tree!EntryAt(x, z.to, 1).inode = z.dir
    BY <1>1 DEF UpLinks
  <2>4. QED  BY <1>1, <2>1, <2>2, <2>3 DEF BlocksApart
<1>6. ASSUME NEW i \in x.imap \ {Tree!Root}
      PROVE  Cardinality({z \in A : z.type = "file" /\ z.to = i}) <= x.inode[i].reference
  <2>1. CASE i \in D
    <3>1. {z \in A : z.type = "file" /\ z.to = i} = {}
      BY <1>1, <2>1 DEF Family
    <3>2. x.inode[i].reference \in Nat
      BY <1>1, <2>1, DiskTyped
    <3>3. QED  BY <3>1, <3>2, FS_EmptySet
  <2>2. CASE i \notin D
    BY <1>1, <2>2 DEF Linked, Naming
  <2>3. QED  BY <2>1, <2>2
<1>7. QED  BY <1>3, <1>4, <1>5, <1>6 DEF A

----------------------------------------------------------------------------
(* Paths                                                                   *)

\* Where find_path goes for one name.
GoTo(i, n) ==
    LET found == Tree!Found(a, i, n)
    IN Tree!EntryAt(a, i, IF found = {} THEN a.inode[i].size ELSE Tree!Lowest(found)).inode

\* The fold over an empty path.
LEMMA NoPath ==
    ASSUME NEW m
    PROVE  Tree!FindPath(m, <<>>) = m
<1> DEFINE Body(u) == [s \in SUBSET DOMAIN <<>> |->
                           IF s = {} THEN m ELSE GoTo(u[s \ {Tree!Max(s)}], <<>>[Tree!Max(s)])]
           I == CHOOSE u : u = Body(u)
           U == [s \in SUBSET DOMAIN <<>> |-> m]
<1>1. Tree!FindPath(m, <<>>) = I[DOMAIN <<>>]
  BY Zenon DEF Tree!FindPath, Tree!FoldLeft, Tree!MapThenFoldSet, GoTo
<1>2. DOMAIN <<>> = {}
  OBVIOUS
<1>3. U = Body(U)
  BY <1>2
<1>4. I = Body(I)
  <2> HIDE DEF Body
  <2>1. QED  BY <1>3
<1>5. I[{}] = m
  <2> HIDE DEF I
  <2>1. {} \in SUBSET DOMAIN <<>>
    OBVIOUS
  <2>2. QED  BY <1>4, <2>1
<1>6. QED  BY <1>1, <1>2, <1>5

\* The fold over a path of one name.
LEMMA OnePath ==
    ASSUME NEW m, NEW n
    PROVE  Tree!FindPath(m, <<n>>) = GoTo(m, n)
<1> DEFINE Body(u) == [s \in SUBSET DOMAIN <<n>> |->
                           IF s = {} THEN m ELSE GoTo(u[s \ {Tree!Max(s)}], <<n>>[Tree!Max(s)])]
           I == CHOOSE u : u = Body(u)
           U == [s \in SUBSET DOMAIN <<n>> |-> IF s = {} THEN m ELSE GoTo(m, n)]
<1>1. Tree!FindPath(m, <<n>>) = I[DOMAIN <<n>>]
  BY Zenon DEF Tree!FindPath, Tree!FoldLeft, Tree!MapThenFoldSet, GoTo
<1>2. DOMAIN <<n>> = {1} /\ <<n>>[1] = n
  OBVIOUS
<1>3. Tree!Max({1}) = 1
  BY DEF Tree!Max
<1>4. \A s \in SUBSET DOMAIN <<n>> : s = {} \/ s = {1}
  BY <1>2
<1>5. {1} \ {Tree!Max({1})} = {} /\ {} \in SUBSET DOMAIN <<n>> /\ {1} \in SUBSET DOMAIN <<n>> /\ {1} # {}
  BY <1>2, <1>3
<1>6. ASSUME NEW u, u[{}] = m
      PROVE  \A s \in SUBSET DOMAIN <<n>> : (IF s = {} THEN m ELSE GoTo(u[s \ {Tree!Max(s)}], <<n>>[Tree!Max(s)]))
                                            = IF s = {} THEN m ELSE GoTo(m, n)
  <2>1. SUFFICES ASSUME NEW s \in SUBSET DOMAIN <<n>>, s # {}
                 PROVE  GoTo(u[s \ {Tree!Max(s)}], <<n>>[Tree!Max(s)]) = GoTo(m, n)
    OBVIOUS
  <2>2. s = {1}
    BY <1>4, <2>1
  <2>3. s \ {Tree!Max(s)} = {} /\ Tree!Max(s) = 1
    BY <1>3, <1>5, <2>2
  <2>4. QED  BY <1>2, <1>6, <2>3
<1>7. U[{}] = m
  BY <1>5
<1>8. U = Body(U)
  <2>1. PICK u : u = U
    OBVIOUS
  <2>2. u = [s \in SUBSET DOMAIN <<n>> |-> IF s = {} THEN m ELSE GoTo(m, n)] /\ u[{}] = m
    BY <1>7, <2>1
  <2>3. u = Body(u)
    BY <1>6, <2>2
  <2>4. QED  BY <2>1, <2>3
<1>9. I = Body(I)
  <2> HIDE DEF Body, U
  <2>1. QED  BY <1>8
<1>10. I[{}] = m /\ I[{1}] = GoTo(m, n)
  <2> HIDE DEF I
  <2>1. I[{}] = m
    BY <1>5, <1>9
  <2>2. \A s \in SUBSET DOMAIN <<n>> : I[s] = IF s = {} THEN m ELSE GoTo(I[s \ {Tree!Max(s)}], <<n>>[Tree!Max(s)])
    BY <1>9
  <2>3. QED  BY <1>5, <1>6, <2>1, <2>2
<1>11. QED  BY <1>1, <1>2, <1>10

\* A directory with a name has it at one place.
LEMMA FoundOnce ==
    ASSUME NEW x, NEW D, NEW r, WholeTree(x, D, r), NEW i \in D, NEW n, NEW k \in Tree!Found(x, i, n)
    PROVE  Tree!Found(x, i, n) = {k} /\ Tree!Lowest(Tree!Found(x, i, n)) = k /\ k \in Tree!Used(x, i)
<1>1. x \in Disks /\ i \in Tree!Inodes /\ NamesApart(x, D)
  BY DEF WholeTree
<1>2. k \in Tree!Used(x, i) /\ Tree!EntryAt(x, i, k).name = n
  BY DEF Tree!Found
<1>3. Tree!Found(x, i, n) = {k}
  BY <1>1, <1>2 DEF Tree!Found, NamesApart
<1>4. Tree!Found(x, i, n) \in SUBSET Nat /\ Tree!Found(x, i, n) # {}
  <2>1. Tree!Places \subseteq Nat
    BY TreeSizes
  <2>2. QED  BY <1>3, <2>1 DEF Tree!Found, Tree!Used
<1>5. QED  BY <1>2, <1>3, <1>4, TreeLowest

\* A place of a user's name holds one of the entries of the tree.
LEMMA NamedEntry ==
    ASSUME NEW x, NEW D, NEW r, WholeTree(x, D, r), NEW i \in D, NEW n \in Names, NEW k \in Tree!Found(x, i, n)
    PROVE  /\ k > 1
           /\ [dir |-> i, name |-> n, type |-> Tree!EntryAt(x, i, k).type, to |-> Tree!EntryAt(x, i, k).inode]
                  \in Under(x, D)
<1>1. x \in Disks /\ i \in Tree!Inodes /\ Heads(x, D)
  BY DEF WholeTree
<1>2. k \in Tree!Used(x, i) /\ Tree!EntryAt(x, i, k).name = n
  BY DEF Tree!Found
<1>3. n # "." /\ n # ".."
  BY TreeNames
<1>4. k # 0 /\ k # 1
  BY <1>1, <1>2, <1>3 DEF Heads
<1>5. k \in Nat
  BY <1>2, TreeSizes DEF Tree!Used
<1>6. k > 1
  BY <1>4, <1>5
<1>7. [dir |-> i, name |-> n, type |-> Tree!EntryAt(x, i, k).type, to |-> Tree!EntryAt(x, i, k).inode]
          \in Tree!EntriesOf(x, i)
  BY <1>2, <1>6 DEF Tree!EntriesOf
<1>8. QED  BY <1>6, <1>7 DEF Under

\* A path from the root or from where the user stands ends in a directory.
LEMMA ResolvedIn ==
    ASSUME NEW D, NEW r, WholeTree(a, D, r), c \in D
    PROVE  Tree!Resolvable \subseteq D
<1>1. /\ Tree!Root \in D /\ D \in SUBSET Tree!Inodes /\ Heads(a, D) /\ UpLinks(a, D)
      /\ Ranked(Under(a, D), D, r)
      /\ Under(a, D) \subseteq [dir : D, name : Names, type : {"dir", "file"}, to : Tree!Inodes]
  BY DEF WholeTree, Family, Ranked
<1>2. SUFFICES ASSUME NEW m \in {Tree!Root, c}, NEW p \in Tree!Paths, Tree!IsPath(m, p)
               PROVE  Tree!FindPath(m, p) \in D
  BY DEF Tree!Resolvable, Tree!Starts
<1>3. m \in D
  BY <1>1
<1>4. CASE p = <<>>
  BY <1>3, <1>4, NoPath
<1>5. ASSUME NEW n \in Names \cup {".."}, p = <<n>> PROVE Tree!FindPath(m, p) \in D
  <2>1. 1 \in 1 .. Len(p) /\ p[1] = n /\ SubSeq(p, 1, 1 - 1) = <<>>
    BY <1>5
  <2>2. PICK k \in Tree!Found(a, Tree!FindPath(m, SubSeq(p, 1, 1 - 1)), p[1]) :
                Tree!EntryAt(a, Tree!FindPath(m, SubSeq(p, 1, 1 - 1)), k).type # "file"
    BY <1>2, <2>1 DEF Tree!IsPath
  <2>3. k \in Tree!Found(a, m, n) /\ Tree!EntryAt(a, m, k).type # "file"
    BY <2>1, <2>2, NoPath
  <2>4. Tree!Lowest(Tree!Found(a, m, n)) = k /\ Tree!Found(a, m, n) # {} /\ k \in Tree!Used(a, m)
    BY <1>3, <2>3, FoundOnce
  <2>5. Tree!FindPath(m, p) = Tree!EntryAt(a, m, k).inode
    BY <1>5, <2>4, OnePath DEF GoTo
  <2>6. CASE n \in Names
    <3>1. PICK z : /\ z = [dir |-> m, name |-> n, type |-> Tree!EntryAt(a, m, k).type,
                           to |-> Tree!EntryAt(a, m, k).inode]
                   /\ z \in Under(a, D)
      BY <1>3, <2>3, <2>6, NamedEntry
    <3>2. z.type = "dir"
      BY <1>1, <2>3, <3>1
    <3>3. z.to \in D
      BY <1>1, <3>1, <3>2 DEF Ranked
    <3>4. QED  BY <2>5, <3>1, <3>3
  <2>7. CASE n = ".."
    <3>1. 1 \in Tree!Found(a, m, n)
      <4>1. a.inode[m].size \in 2 .. MaxEntries /\ Tree!EntryAt(a, m, 1).name = ".."
        BY <1>1, <1>3 DEF Heads
      <4>2. 1 \in Tree!Places /\ 1 < a.inode[m].size
        BY <4>1, TreeSizes
      <4>3. QED  BY <2>7, <4>1, <4>2 DEF Tree!Found, Tree!Used
    <3>2. k = 1
      BY <1>3, <2>3, <3>1, FoundOnce
    <3>3. CASE m = Tree!Root
      BY <1>1, <2>5, <3>2, <3>3 DEF UpLinks
    <3>4. CASE m # Tree!Root
      <4>1. PICK z \in Under(a, D) : z.type = "dir" /\ z.to = m
        BY <1>1, <1>3, <3>4 DEF Ranked
      <4>2. Tree!EntryAt(a, m, 1).inode = z.dir /\ z.dir \in D
        BY <1>1, <4>1, EntryUnder DEF UpLinks
      <4>3. QED  BY <2>5, <3>2, <4>2
    <3>5. QED  BY <3>3, <3>4
  <2>8. QED  BY <2>6, <2>7
<1>6. QED  BY <1>4, <1>5 DEF Tree!Paths

----------------------------------------------------------------------------
(* Families that grow and shrink                                           *)

EntryIn(i, q) == [dir |-> i, name |-> q.name, type |-> q.type, to |-> q.inode]

\* A family with one more file.
LEMMA FamilyFile ==
    ASSUME NEW A, NEW D \in SUBSET Tree!Inodes, NEW r \in [D -> Nat], Family(A, D, r),
           NEW i \in D, NEW n \in Names, NEW v \in Tree!Inodes \ D, NEW w,
           w = [dir |-> i, name |-> n, type |-> "file", to |-> v]
    PROVE  Family(A \cup {w}, D, r)
<1>1. w.type = "file" /\ w.type # "dir" /\ w.to = v /\ w \in [dir : D, name : Names, type : {"dir", "file"}, to : Tree!Inodes]
  OBVIOUS
<1>2. Ranked(A \cup {w}, D, r)
  BY <1>1 DEF Family, Ranked
<1>3. A \cup {w} \subseteq [dir : D, name : Names, type : {"dir", "file"}, to : Tree!Inodes]
  BY <1>1 DEF Family
<1>4. \A z \in A \cup {w} : z.type = "file" => z.to \notin D
  BY <1>1 DEF Family
<1>5. \A z, u \in A \cup {w} : z.type = "dir" /\ u.type = "dir" /\ z.to = u.to => z = u
  BY <1>1 DEF Family
<1>6. QED  BY <1>2, <1>3, <1>4, <1>5 DEF Family

DirEntry(i, n, v) == [dir |-> i, name |-> n, type |-> "dir", to |-> v]
\* v is one level below i.
RanksWith(D, r, i, v) == [y \in D \cup {v} |-> IF y = v THEN r[i] + 1 ELSE r[y]]

\* A family with one more directory, one level below the one it is in.
LEMMA FamilyDir ==
    ASSUME NEW A, NEW D \in SUBSET Tree!Inodes, NEW r \in [D -> Nat], Family(A, D, r),
           NEW i \in D, NEW n \in Names, NEW v \in Tree!Inodes \ D, \A z \in A : z.to # v
    PROVE  /\ Family(A \cup {DirEntry(i, n, v)}, D \cup {v}, RanksWith(D, r, i, v))
           /\ RanksWith(D, r, i, v) \in [D \cup {v} -> Nat]
<1>0. PICK w, s : /\ w = DirEntry(i, n, v) /\ s = RanksWith(D, r, i, v)
                  /\ w = [dir |-> i, name |-> n, type |-> "dir", to |-> v]
                  /\ s = [y \in D \cup {v} |-> IF y = v THEN r[i] + 1 ELSE r[y]]
  BY DEF DirEntry, RanksWith
<1> DEFINE B == A \cup {w}
           E == D \cup {v}
<1>1. /\ w.type = "dir" /\ w.type # "file" /\ w.to = v /\ w.dir = i
      /\ w \in [dir : E, name : Names, type : {"dir", "file"}, to : Tree!Inodes]
  BY <1>0
<1>2. s \in [E -> Nat] /\ s[v] = r[i] + 1 /\ \A y \in D : s[y] = r[y] /\ y # v
  BY <1>0
<1>3. \A z \in A : z.dir \in D /\ z.type \in {"dir", "file"}
  BY DEF Family
<1>4. Ranked(B, E, s)
  <2>1. Tree!Root \in E /\ s[Tree!Root] = 0
    BY <1>2 DEF Family, Ranked
  <2>2. \A z \in B : z.type = "dir" => z.to \in E \ {Tree!Root} /\ s[z.to] = s[z.dir] + 1
    <3>1. v # Tree!Root
      BY DEF Family, Ranked
    <3>2. QED  BY <1>1, <1>2, <1>3, <3>1 DEF Family, Ranked
  <2>3. \A y \in E \ {Tree!Root} : \E z \in B : z.type = "dir" /\ z.to = y
    BY <1>1 DEF Family, Ranked
  <2>4. QED  BY <2>1, <2>2, <2>3 DEF Ranked
<1>5. B \subseteq [dir : E, name : Names, type : {"dir", "file"}, to : Tree!Inodes]
  <2>1. [dir : D, name : Names, type : {"dir", "file"}, to : Tree!Inodes]
            \subseteq [dir : E, name : Names, type : {"dir", "file"}, to : Tree!Inodes]
    OBVIOUS
  <2>2. QED  BY <1>1, <2>1 DEF Family
<1>6. \A z \in B : z.type = "file" => z.to \notin E
  BY <1>1 DEF Family
<1>7. \A z, u \in B : z.type = "dir" /\ u.type = "dir" /\ z.to = u.to => z = u
  BY <1>1 DEF Family
<1> HIDE DEF B, E
<1>8. Family(B, E, s) /\ s \in [E -> Nat]
  BY <1>2, <1>4, <1>5, <1>6, <1>7 DEF Family
<1>9. QED  BY <1>0, <1>8 DEF B, E

\* A family with one file less.
LEMMA FamilyNoFile ==
    ASSUME NEW A, NEW D \in SUBSET Tree!Inodes, NEW r \in [D -> Nat], Family(A, D, r), NEW w, w.type = "file"
    PROVE  Family(A \ {w}, D, r)
<1>1. w.type # "dir"
  OBVIOUS
<1>2. Ranked(A \ {w}, D, r)
  BY <1>1 DEF Family, Ranked
<1>3. QED  BY <1>2 DEF Family

\* A family with one directory less, one that holds nothing.
LEMMA FamilyNoDir ==
    ASSUME NEW A, NEW D \in SUBSET Tree!Inodes, NEW r \in [D -> Nat], Family(A, D, r),
           NEW w \in A, w.type = "dir", \A z \in A : z.dir # w.to,
           NEW s, s = [y \in D \ {w.to} |-> r[y]]
    PROVE  Family(A \ {w}, D \ {w.to}, s) /\ s \in [D \ {w.to} -> Nat]
<1> DEFINE B == A \ {w}
           E == D \ {w.to}
<1>1. w.to \in D \ {Tree!Root}
  BY DEF Family, Ranked
<1>2. s \in [E -> Nat] /\ \A y \in E : s[y] = r[y]
  OBVIOUS
<1>3. \A z \in B : /\ z.dir \in E /\ z.type \in {"dir", "file"}
                   /\ z.type = "dir" => z.to # w.to
  BY DEF Family
<1>4. Ranked(B, E, s)
  <2>1. Tree!Root \in E /\ s[Tree!Root] = 0
    BY <1>1, <1>2 DEF Family, Ranked
  <2>2. \A z \in B : z.type = "dir" => z.to \in E \ {Tree!Root} /\ s[z.to] = s[z.dir] + 1
    BY <1>2, <1>3 DEF Family, Ranked
  <2>3. \A y \in E \ {Tree!Root} : \E z \in B : z.type = "dir" /\ z.to = y
    BY DEF Family, Ranked
  <2>4. QED  BY <2>1, <2>2, <2>3 DEF Ranked
<1>5. B \subseteq [dir : E, name : Names, type : {"dir", "file"}, to : Tree!Inodes]
  <2>1. ASSUME NEW z \in B PROVE z \in [dir : E, name : Names, type : {"dir", "file"}, to : Tree!Inodes]
    <3>1. z \in [dir : D, name : Names, type : {"dir", "file"}, to : Tree!Inodes]
      BY DEF Family
    <3>2. QED  BY <1>3, <3>1
  <2>2. QED  BY <2>1
<1>6. \A z \in B : z.type = "file" => z.to \notin E
  BY DEF Family
<1>7. \A z, u \in B : z.type = "dir" /\ u.type = "dir" /\ z.to = u.to => z = u
  BY DEF Family
<1> HIDE DEF B, E
<1>8. Family(B, E, s) /\ s \in [E -> Nat]
  BY <1>2, <1>4, <1>5, <1>6, <1>7 DEF Family
<1>9. QED  BY <1>8 DEF B, E

----------------------------------------------------------------------------
(* One directory, before and after                                         *)

SameDir(x, y, j) ==
    /\ y.inode[j].size = x.inode[j].size /\ Tree!BlockOf(y, j) = Tree!BlockOf(x, j)
    /\ \A k \in Tree!Used(x, j) : Tree!EntryAt(y, j, k) = Tree!EntryAt(x, j, k)

\* q is the new entry of directory i.
Extended(x, y, i, q) ==
    /\ x.inode[i].size \in 2 .. MaxEntries - 1 /\ y.inode[i].size = x.inode[i].size + 1
    /\ Tree!BlockOf(y, i) = Tree!BlockOf(x, i)
    /\ Tree!EntryAt(y, i, x.inode[i].size) = q
    /\ \A k \in Tree!Used(x, i) : Tree!EntryAt(y, i, k) = Tree!EntryAt(x, i, k)

\* A directory that is not touched has the entries it had.
LEMMA SameDirEntries ==
    ASSUME NEW x, NEW y, NEW j, SameDir(x, y, j)
    PROVE  Tree!Used(y, j) = Tree!Used(x, j) /\ Tree!EntriesOf(y, j) = Tree!EntriesOf(x, j)
<1>1. Tree!Used(y, j) = Tree!Used(x, j)
  BY DEF SameDir, Tree!Used
<1>2. QED  BY <1>1 DEF SameDir, Tree!EntriesOf

\* A directory with an entry added has one entry more.
LEMMA ExtendedEntries ==
    ASSUME NEW x, NEW y, NEW i, NEW q, Extended(x, y, i, q)
    PROVE  /\ Tree!Used(y, i) = Tree!Used(x, i) \cup {x.inode[i].size}
           /\ x.inode[i].size \notin Tree!Used(x, i)
           /\ Tree!EntriesOf(y, i) = Tree!EntriesOf(x, i) \cup {EntryIn(i, q)}
<1>1. PICK m : m = x.inode[i].size
  OBVIOUS
<1>2. m \in 2 .. MaxEntries - 1 /\ MaxEntries \in Nat /\ Tree!Places = 0 .. MaxEntries - 1 /\ y.inode[i].size = m + 1
  BY <1>1, TreeSizes DEF Extended
<1>3. /\ Tree!Used(y, i) = Tree!Used(x, i) \cup {m} /\ m \notin Tree!Used(x, i) /\ m > 1
  BY <1>1, <1>2 DEF Tree!Used
<1>4. /\ Tree!EntryAt(y, i, m) = q
      /\ \A k \in Tree!Used(x, i) : Tree!EntryAt(y, i, k) = Tree!EntryAt(x, i, k)
  BY <1>1 DEF Extended
<1>5. ASSUME NEW z PROVE z \in Tree!EntriesOf(y, i) <=> z \in Tree!EntriesOf(x, i) \cup {EntryIn(i, q)}
  BY <1>3, <1>4, EntryOf DEF EntryIn
<1>6. QED  BY <1>1, <1>3, <1>5

\* Of the directories of D only i changes.
Grown(x, y, D, i, q) ==
    /\ i \in D /\ Tree!Found(x, i, q.name) = {}
    /\ Extended(x, y, i, q) /\ \A j \in D \ {i} : SameDir(x, y, j)

\* So have the directories together.
LEMMA UnderGrows ==
    ASSUME NEW x, NEW y, NEW D, NEW i, NEW q, Grown(x, y, D, i, q)
    PROVE  Under(y, D) = Under(x, D) \cup {EntryIn(i, q)}
<1>1. \A j \in D \ {i} : Tree!EntriesOf(y, j) = Tree!EntriesOf(x, j)
  BY SameDirEntries DEF Grown
<1>2. Tree!EntriesOf(y, i) = Tree!EntriesOf(x, i) \cup {EntryIn(i, q)}
  BY ExtendedEntries DEF Grown
<1>3. QED  BY <1>1, <1>2 DEF Under, Grown

\* An entry added at the end leaves the first two, and is a new name.
LEMMA HeadsGrow ==
    ASSUME NEW x, NEW y, NEW D, NEW r, WholeTree(x, D, r), NEW i, NEW q, Grown(x, y, D, i, q)
    PROVE  /\ Heads(y, D) /\ NamesApart(y, D)
           /\ \A j \in D : Tree!EntryAt(y, j, 1) = Tree!EntryAt(x, j, 1)
<1>1. /\ Heads(x, D) /\ NamesApart(x, D)
      /\ i \in D /\ Tree!Found(x, i, q.name) = {} /\ Extended(x, y, i, q) /\ \A j \in D \ {i} : SameDir(x, y, j)
  BY DEF WholeTree, Grown
<1>2. \A j \in D : 0 \in Tree!Used(x, j) /\ 1 \in Tree!Used(x, j)
  <2>1. \A j \in D : x.inode[j].size \in 2 .. MaxEntries
    BY <1>1 DEF Heads
  <2>2. QED  BY <2>1, TreeSizes DEF Tree!Used
<1>3. \A j \in D : \A k \in Tree!Used(x, j) : Tree!EntryAt(y, j, k) = Tree!EntryAt(x, j, k)
  BY <1>1 DEF SameDir, Extended
<1>4. \A j \in D : y.inode[j].size \in 2 .. MaxEntries
  <2>1. \A j \in D \ {i} : y.inode[j].size \in 2 .. MaxEntries
    BY <1>1 DEF Heads, SameDir
  <2>2. y.inode[i].size \in 2 .. MaxEntries
    BY <1>1, TreeSizes DEF Extended
  <2>3. QED  BY <2>1, <2>2
<1>5. Heads(y, D)
  BY <1>1, <1>2, <1>3, <1>4 DEF Heads
<1>6. ASSUME NEW j \in D, NEW k \in Tree!Used(y, j), NEW l \in Tree!Used(y, j),
             Tree!EntryAt(y, j, k).name = Tree!EntryAt(y, j, l).name
      PROVE  k = l
  <2>1. CASE j # i
    <3>1. k \in Tree!Used(x, j) /\ l \in Tree!Used(x, j)
      BY <1>1, <2>1, SameDirEntries
    <3>2. QED  BY <1>1, <1>3, <1>6, <3>1 DEF NamesApart
  <2>2. CASE j = i
    <3>1. \A p \in Tree!Used(y, i) : p \in Tree!Used(x, i) \/ p = x.inode[i].size
      BY <1>1, ExtendedEntries
    <3>2. Tree!EntryAt(y, i, x.inode[i].size) = q
      BY <1>1 DEF Extended
    <3>3. \A p \in Tree!Used(x, i) : Tree!EntryAt(y, i, p).name # q.name
      BY <1>1, <1>3 DEF Tree!Found
    <3>4. CASE k \in Tree!Used(x, i) /\ l \in Tree!Used(x, i)
      BY <1>1, <1>3, <1>6, <2>2, <3>4 DEF NamesApart
    <3>5. CASE k \notin Tree!Used(x, i) \/ l \notin Tree!Used(x, i)
      BY <1>6, <2>2, <3>1, <3>2, <3>3, <3>5
    <3>6. QED  BY <3>4, <3>5
  <2>3. QED  BY <2>1, <2>2
<1>7. QED  BY <1>2, <1>3, <1>5, <1>6 DEF NamesApart

\* One more name is counted at most once.
LEMMA OneMore ==
    ASSUME NEW S, IsFiniteSet(S), NEW w, NEW m, Cardinality(S) + 1 <= m, m \in Nat
    PROVE  Cardinality(S \cup {w}) <= m
<1>1. Cardinality(S) \in Nat
  BY FS_CardinalityType
<1>2. Cardinality(S \cup {w}) = IF w \in S THEN Cardinality(S) ELSE Cardinality(S) + 1
  BY FS_AddElement
<1>3. QED  BY <1>1, <1>2

\* A file gets a name.
LEMMA AddFile ==
    ASSUME NEW x, NEW y, NEW D, NEW r, WholeTree(x, D, r), y \in Disks,
           NEW i \in D, NEW n \in Names, NEW v \in Tree!Inodes \ D, NEW q,
           q = [name |-> n, type |-> "file", inode |-> v], Grown(x, y, D, i, q),
           y.imap = x.imap \cup {v}, BlocksApart(y, D), BlocksMarked(y),
           \A j \in x.imap \ D : j = v \/ x.inode[j].reference <= y.inode[j].reference,
           Cardinality(Naming(Under(x, D), v)) + 1 <= y.inode[v].reference
    PROVE  WholeTree(y, D, r)
<1> DEFINE A == Under(x, D)
           w == EntryIn(i, q)
<1>1. /\ Family(A, D, r) /\ D \in SUBSET Tree!Inodes /\ r \in [D -> Nat] /\ x.imap = D \cup {z.to : z \in A}
      /\ UpLinks(x, D) /\ Linked(x, D)
  BY DEF WholeTree
<1>2. w = [dir |-> i, name |-> n, type |-> "file", to |-> v] /\ w.type = "file" /\ w.type # "dir" /\ w.to = v
  BY DEF EntryIn
<1>3. Under(y, D) = A \cup {w}
  BY UnderGrows
<1> HIDE DEF A, w
<1>4. Family(A \cup {w}, D, r)
  BY <1>1, <1>2, FamilyFile
<1>5. y.imap = D \cup {z.to : z \in A \cup {w}}
  BY <1>1, <1>2
<1>6. /\ Heads(y, D) /\ NamesApart(y, D)
      /\ \A j \in D : Tree!EntryAt(y, j, 1) = Tree!EntryAt(x, j, 1)
  BY HeadsGrow
<1>7. UpLinks(y, D)
  <2>1. Ranked(A, D, r)
    BY <1>1 DEF Family
  <2>2. \A z \in A : z.type = "dir" => z.to \in D
    BY <2>1 DEF Ranked
  <2>3. Tree!Root \in D
    BY <2>1 DEF Ranked
  <2>4. QED  BY <1>1, <1>2, <1>3, <1>6, <2>2, <2>3 DEF UpLinks, A
<1>8. Linked(y, D)
  <2>1. IsFiniteSet(A) /\ IsFiniteSet(A \cup {w})
    BY <1>1, FS_AddElement DEF Linked, A
  <2>2. \A j : IsFiniteSet(Naming(A, j)) /\ Cardinality(Naming(A, j)) \in Nat
    <3>1. \A j : Naming(A, j) \in SUBSET A
      BY DEF Naming
    <3>2. QED  BY <2>1, <3>1, FS_Subset, FS_CardinalityType
  <2>3. ASSUME NEW j \in y.imap \ D PROVE Cardinality(Naming(A \cup {w}, j)) <= y.inode[j].reference
    <3>1. CASE j = v
      <4>1. Naming(A \cup {w}, v) = Naming(A, v) \cup {w}
        BY <1>2 DEF Naming
      <4>2. y.inode[v].reference \in Nat
        BY DiskTyped
      <4>3. Cardinality(Naming(A, v)) + 1 <= y.inode[v].reference
        BY DEF A
      <4>4. Cardinality(Naming(A, v) \cup {w}) <= y.inode[v].reference
        BY <2>2, <4>2, <4>3, OneMore
      <4>5. QED  BY <3>1, <4>1, <4>4
    <3>2. CASE j # v
      <4>1. Naming(A \cup {w}, j) = Naming(A, j)
        BY <1>2, <3>2 DEF Naming
      <4>2. j \in x.imap \ D
        BY <2>3, <3>2
      <4>3. Cardinality(Naming(A, j)) <= x.inode[j].reference
        BY <1>1, <4>2 DEF Linked, A
      <4>4. x.inode[j].reference <= y.inode[j].reference
        BY <3>2, <4>2
      <4>5. x.inode[j].reference \in Nat /\ y.inode[j].reference \in Nat
        <5>1. j \in Tree!Inodes /\ x \in Disks
          BY <4>2, DiskTyped DEF WholeTree
        <5>2. QED  BY <5>1, DiskTyped
      <4>6. QED  BY <2>2, <4>1, <4>3, <4>4, <4>5
    <3>3. QED  BY <3>1, <3>2
  <2>4. QED  BY <1>3, <2>1, <2>3 DEF Linked
<1>9. QED  BY <1>1, <1>3, <1>4, <1>5, <1>6, <1>7, <1>8 DEF WholeTree

\* Directory v holds itself and its parent, i.
EmptyDir(y, v, i) ==
    /\ y.inode[v].size = 2
    /\ Tree!EntryAt(y, v, 0) = [name |-> ".", type |-> "dot", inode |-> v]
    /\ Tree!EntryAt(y, v, 1) = [name |-> "..", type |-> "dotdot", inode |-> i]

\* A new directory, in directory i.
LEMMA AddDir ==
    ASSUME NEW x, NEW y, NEW D, NEW r, WholeTree(x, D, r), y \in Disks,
           NEW i \in D, NEW n \in Names, NEW v \in Tree!Inodes \ x.imap, NEW q,
           q = [name |-> n, type |-> "dir", inode |-> v], Grown(x, y, D, i, q),
           y.imap = x.imap \cup {v}, BlocksApart(y, D \cup {v}), BlocksMarked(y),
           \A j \in x.imap \ D : x.inode[j].reference <= y.inode[j].reference, EmptyDir(y, v, i)
    PROVE  \E E \in SUBSET Tree!Inodes : \E s : D \subseteq E /\ WholeTree(y, E, s)
<1> DEFINE A == Under(x, D)
           w == EntryIn(i, q)
           E == D \cup {v}
           s == RanksWith(D, r, i, v)
<1>1. /\ Family(A, D, r) /\ D \in SUBSET Tree!Inodes /\ r \in [D -> Nat] /\ x.imap = D \cup {z.to : z \in A}
      /\ UpLinks(x, D) /\ Linked(x, D) /\ x \in Disks
  BY DEF WholeTree
<1>2. /\ w = [dir |-> i, name |-> n, type |-> "dir", to |-> v] /\ w.type = "dir" /\ w.type # "file"
      /\ w.to = v /\ w.dir = i
  BY DEF EntryIn
<1>3. v \in Tree!Inodes \ D /\ \A z \in A : z.to # v
  BY <1>1
<1>4. Under(y, D) = A \cup {w}
  BY UnderGrows
<1>5. Tree!EntriesOf(y, v) = {} /\ Tree!Used(y, v) = {0, 1}
  <2>1. Tree!Used(y, v) = {0, 1}
    BY TreeSizes DEF Tree!Used, EmptyDir
  <2>2. QED  BY <2>1 DEF Tree!EntriesOf
<1>6. Under(y, E) = A \cup {w}
  BY <1>4, <1>5 DEF Under
<1> HIDE DEF A, w
<1>7. Family(A \cup {w}, E, s) /\ s \in [E -> Nat]
  <2>1. Family(A \cup {DirEntry(i, n, v)}, E, s) /\ s \in [E -> Nat]
    BY <1>1, <1>3, FamilyDir
  <2>2. QED  BY <1>2, <2>1 DEF DirEntry
<1>8. y.imap = E \cup {z.to : z \in A \cup {w}}
  BY <1>1, <1>2
<1>9. /\ Heads(y, D) /\ NamesApart(y, D)
      /\ \A j \in D : Tree!EntryAt(y, j, 1) = Tree!EntryAt(x, j, 1)
  BY HeadsGrow
<1>10. Heads(y, E)
  <2>1. y.inode[v].size \in 2 .. MaxEntries
    BY TreeSizes DEF EmptyDir
  <2>2. QED  BY <1>9, <2>1 DEF Heads, EmptyDir
<1>11. NamesApart(y, E)
  <2>1. Tree!EntryAt(y, v, 0).name # Tree!EntryAt(y, v, 1).name
    BY DEF EmptyDir
  <2>2. QED  BY <1>5, <1>9, <2>1 DEF NamesApart
<1>12. UpLinks(y, E)
  <2>1. Ranked(A, D, r)
    BY <1>1 DEF Family
  <2>2. \A z \in A : z.type = "dir" => z.to \in D
    BY <2>1 DEF Ranked
  <2>3. Tree!Root \in D
    BY <2>1 DEF Ranked
  <2>4. Tree!EntryAt(y, v, 1).inode = i
    BY DEF EmptyDir
  <2>5. QED  BY <1>1, <1>2, <1>6, <1>9, <2>2, <2>3, <2>4 DEF UpLinks, A
<1>13. Linked(y, E)
  <2>1. IsFiniteSet(A) /\ IsFiniteSet(A \cup {w})
    BY <1>1, FS_AddElement DEF Linked, A
  <2>2. ASSUME NEW j \in y.imap \ E PROVE Cardinality(Naming(A \cup {w}, j)) <= y.inode[j].reference
    <3>1. Naming(A \cup {w}, j) = Naming(A, j) /\ Naming(A, j) \in SUBSET A
      BY <1>2 DEF Naming
    <3>2. j \in x.imap \ D
      BY <2>2
    <3>3. Cardinality(Naming(A, j)) <= x.inode[j].reference
      BY <1>1, <3>2 DEF Linked, A
    <3>4. x.inode[j].reference <= y.inode[j].reference
      BY <3>2
    <3>5. x.inode[j].reference \in Nat /\ y.inode[j].reference \in Nat
      BY <1>1, <3>2, DiskTyped
    <3>6. Cardinality(Naming(A, j)) \in Nat
      BY <2>1, <3>1, FS_Subset, FS_CardinalityType
    <3>7. QED  BY <3>1, <3>3, <3>4, <3>5, <3>6
  <2>3. QED  BY <1>6, <2>1, <2>2 DEF Linked
<1>14. E \in SUBSET Tree!Inodes /\ D \subseteq E
  BY <1>1
<1> HIDE DEF E, s
<1>15. WholeTree(y, E, s)
  <2>1. BlocksApart(y, E)
    BY DEF E
  <2>2. QED  BY <1>6, <1>7, <1>8, <1>10, <1>11, <1>12, <1>13, <1>14, <2>1 DEF WholeTree
<1>16. QED  BY <1>14, <1>15

\* The entry at place k of directory i is gone, those behind it have moved.
Shrunk(x, y, i, k) ==
    /\ x.inode[i].size \in 3 .. MaxEntries /\ y.inode[i].size = x.inode[i].size - 1
    /\ k \in 2 .. x.inode[i].size - 1
    /\ Tree!BlockOf(y, i) = Tree!BlockOf(x, i)
    /\ \A j \in 0 .. x.inode[i].size - 2 :
           Tree!EntryAt(y, i, j) = Tree!EntryAt(x, i, IF j < k THEN j ELSE j + 1)

\* Of the directories of D only i changes.
Reduced(x, y, D, i, k) ==
    i \in D /\ Shrunk(x, y, i, k) /\ \A j \in D \ {i} : SameDir(x, y, j)

\* The places behind the one that is removed move forward, and no entry is lost or doubled.
LEMMA ShrunkPlaces ==
    ASSUME NEW x, NEW y, NEW i, NEW k, Shrunk(x, y, i, k)
    PROVE  /\ k \in Tree!Used(x, i) /\ k > 1 /\ 0 \in Tree!Used(y, i) /\ 1 \in Tree!Used(y, i)
           /\ Tree!EntryAt(y, i, 0) = Tree!EntryAt(x, i, 0) /\ Tree!EntryAt(y, i, 1) = Tree!EntryAt(x, i, 1)
           /\ \A j \in Tree!Used(y, i) : \E l \in Tree!Used(x, i) \ {k} :
                  /\ l = (IF j < k THEN j ELSE j + 1) /\ j \in Nat /\ l \in Nat
                  /\ (j > 1 => l > 1)
                  /\ Tree!EntryAt(y, i, j) = Tree!EntryAt(x, i, l)
           /\ \A l \in Tree!Used(x, i) \ {k} : l > 1 => \E j \in Tree!Used(y, i) :
                  j > 1 /\ Tree!EntryAt(y, i, j) = Tree!EntryAt(x, i, l)
<1>1. PICK m : m = x.inode[i].size
  OBVIOUS
<1>2. /\ m \in 3 .. MaxEntries /\ MaxEntries \in Nat /\ Tree!Places = 0 .. MaxEntries - 1
      /\ y.inode[i].size = m - 1 /\ k \in 2 .. m - 1
      /\ \A j \in 0 .. m - 2 : Tree!EntryAt(y, i, j) = Tree!EntryAt(x, i, IF j < k THEN j ELSE j + 1)
  BY <1>1, TreeSizes DEF Shrunk
<1>3. Tree!Used(x, i) = 0 .. m - 1 /\ Tree!Used(y, i) = 0 .. m - 2
  <2>1. Tree!Used(x, i) = {j \in Tree!Places : j < m} /\ Tree!Used(y, i) = {j \in Tree!Places : j < m - 1}
    BY <1>1, <1>2 DEF Tree!Used
  <2>2. {j \in 0 .. MaxEntries - 1 : j < m} = 0 .. m - 1
    BY <1>2
  <2>3. {j \in 0 .. MaxEntries - 1 : j < m - 1} = 0 .. m - 2
    BY <1>2
  <2>4. QED  BY <1>2, <2>1, <2>2, <2>3
<1>4. k \in Tree!Used(x, i) /\ k > 1 /\ 0 \in Tree!Used(y, i) /\ 1 \in Tree!Used(y, i) /\ 0 < k /\ 1 < k
  BY <1>2, <1>3
<1>5. Tree!EntryAt(y, i, 0) = Tree!EntryAt(x, i, 0) /\ Tree!EntryAt(y, i, 1) = Tree!EntryAt(x, i, 1)
  BY <1>2, <1>3, <1>4
<1>6. ASSUME NEW j \in Tree!Used(y, i)
      PROVE  \E l \in Tree!Used(x, i) \ {k} :
                  /\ l = (IF j < k THEN j ELSE j + 1) /\ j \in Nat /\ l \in Nat
                  /\ (j > 1 => l > 1)
                  /\ Tree!EntryAt(y, i, j) = Tree!EntryAt(x, i, l)
  <2>1. PICK l : l = IF j < k THEN j ELSE j + 1
    OBVIOUS
  <2>2. l \in 0 .. m - 1 /\ l # k /\ (j > 1 => l > 1) /\ j \in Nat /\ l \in Nat
    BY <1>2, <1>3, <2>1
  <2>3. Tree!EntryAt(y, i, j) = Tree!EntryAt(x, i, l)
    BY <1>2, <1>3, <2>1
  <2>4. QED  BY <1>3, <2>1, <2>2, <2>3
<1>7. ASSUME NEW l \in Tree!Used(x, i) \ {k}, l > 1
      PROVE  \E j \in Tree!Used(y, i) : j > 1 /\ Tree!EntryAt(y, i, j) = Tree!EntryAt(x, i, l)
  <2>1. PICK j : j = IF l < k THEN l ELSE l - 1
    OBVIOUS
  <2>2. j \in 0 .. m - 2 /\ j > 1 /\ l = (IF j < k THEN j ELSE j + 1)
    <3>1. l \in 0 .. m - 1 /\ l > 1 /\ l # k /\ k \in 2 .. m - 1 /\ m \in Nat
      BY <1>2, <1>3, <1>7
    <3>2. CASE l < k
      BY <2>1, <3>1, <3>2
    <3>3. CASE ~ (l < k)
      <4>1. j = l - 1 /\ l > k
        BY <2>1, <3>1, <3>3
      <4>2. QED  BY <3>1, <4>1
    <3>4. QED  BY <3>2, <3>3
  <2>3. Tree!EntryAt(y, i, j) = Tree!EntryAt(x, i, l)
    BY <1>2, <2>2
  <2>4. QED  BY <1>3, <2>2, <2>3
<1>8. QED  BY <1>4, <1>5, <1>6, <1>7

\* A directory that is shrunk has lost exactly the entry.
LEMMA ShrunkEntries ==
    ASSUME NEW x, NEW y, NEW i, NEW k, Shrunk(x, y, i, k),
           \A l \in Tree!Used(x, i) : Tree!EntryAt(x, i, l).name = Tree!EntryAt(x, i, k).name => l = k
    PROVE  Tree!EntriesOf(y, i) = Tree!EntriesOf(x, i) \ {EntryIn(i, Tree!EntryAt(x, i, k))}
<1>1. ASSUME NEW z \in Tree!EntriesOf(y, i) PROVE z \in Tree!EntriesOf(x, i) \ {EntryIn(i, Tree!EntryAt(x, i, k))}
  <2>1. PICK j \in Tree!Used(y, i) : j > 1 /\ z = EntryIn(i, Tree!EntryAt(y, i, j))
    BY EntryOf DEF EntryIn
  <2>2. PICK l \in Tree!Used(x, i) \ {k} : l > 1 /\ Tree!EntryAt(y, i, j) = Tree!EntryAt(x, i, l)
    BY <2>1, ShrunkPlaces
  <2>3. z = EntryIn(i, Tree!EntryAt(x, i, l)) /\ Tree!EntryAt(x, i, l).name # Tree!EntryAt(x, i, k).name
    BY <2>1, <2>2
  <2>4. z \in Tree!EntriesOf(x, i)
    BY <2>2, <2>3, EntryOf DEF EntryIn
  <2>5. QED  BY <2>3, <2>4 DEF EntryIn
<1>2. ASSUME NEW z \in Tree!EntriesOf(x, i) \ {EntryIn(i, Tree!EntryAt(x, i, k))} PROVE z \in Tree!EntriesOf(y, i)
  <2>1. PICK l \in Tree!Used(x, i) : l > 1 /\ z = EntryIn(i, Tree!EntryAt(x, i, l))
    BY EntryOf DEF EntryIn
  <2>2. l # k
    BY <2>1
  <2>3. PICK j \in Tree!Used(y, i) : j > 1 /\ Tree!EntryAt(y, i, j) = Tree!EntryAt(x, i, l)
    BY <2>1, <2>2, ShrunkPlaces
  <2>4. QED  BY <2>1, <2>3, EntryOf DEF EntryIn
<1>3. QED  BY <1>1, <1>2

\* The first two entries stay, and names stay apart.
LEMMA HeadsShrink ==
    ASSUME NEW x, NEW y, NEW D, NEW i, NEW k, Reduced(x, y, D, i, k), Heads(x, D), NamesApart(x, D)
    PROVE  /\ Heads(y, D) /\ NamesApart(y, D)
           /\ \A j \in D : Tree!EntryAt(y, j, 1) = Tree!EntryAt(x, j, 1)
<1>1. i \in D /\ Shrunk(x, y, i, k) /\ \A j \in D \ {i} : SameDir(x, y, j)
  BY DEF Reduced
<1>2. \A j \in D : Tree!EntryAt(y, j, 0) = Tree!EntryAt(x, j, 0) /\ Tree!EntryAt(y, j, 1) = Tree!EntryAt(x, j, 1)
  <2>1. ASSUME NEW j \in D \ {i}
        PROVE  Tree!EntryAt(y, j, 0) = Tree!EntryAt(x, j, 0) /\ Tree!EntryAt(y, j, 1) = Tree!EntryAt(x, j, 1)
    <3>1. x.inode[j].size \in 2 .. MaxEntries
      BY DEF Heads
    <3>2. 0 \in Tree!Used(x, j) /\ 1 \in Tree!Used(x, j)
      BY <3>1, TreeSizes DEF Tree!Used
    <3>3. QED  BY <1>1, <3>2 DEF SameDir
  <2>2. Tree!EntryAt(y, i, 0) = Tree!EntryAt(x, i, 0) /\ Tree!EntryAt(y, i, 1) = Tree!EntryAt(x, i, 1)
    BY <1>1, ShrunkPlaces
  <2>3. QED  BY <2>1, <2>2
<1>3. \A j \in D : y.inode[j].size \in 2 .. MaxEntries
  <2>1. \A j \in D \ {i} : y.inode[j].size \in 2 .. MaxEntries
    BY <1>1 DEF Heads, SameDir
  <2>2. y.inode[i].size \in 2 .. MaxEntries
    <3>1. x.inode[i].size \in 3 .. MaxEntries /\ y.inode[i].size = x.inode[i].size - 1
      BY <1>1 DEF Shrunk
    <3>2. MaxEntries \in Nat
      BY TreeSizes
    <3>3. QED  BY <3>1, <3>2
  <2>3. QED  BY <2>1, <2>2
<1>4. Heads(y, D)
  BY <1>2, <1>3 DEF Heads
<1>5. ASSUME NEW j \in D, NEW p \in Tree!Used(y, j), NEW q \in Tree!Used(y, j),
             Tree!EntryAt(y, j, p).name = Tree!EntryAt(y, j, q).name
      PROVE  p = q
  <2>1. CASE j # i
    <3>1. SameDir(x, y, j)
      BY <1>1, <2>1
    <3>2. p \in Tree!Used(x, j) /\ q \in Tree!Used(x, j)
      BY <3>1, SameDirEntries
    <3>3. QED  BY <1>5, <3>1, <3>2 DEF NamesApart, SameDir
  <2>2. CASE j = i
    <3>1. PICK l \in Tree!Used(x, i) : /\ l = (IF p < k THEN p ELSE p + 1) /\ p \in Nat /\ l \in Nat
                                       /\ Tree!EntryAt(y, i, p) = Tree!EntryAt(x, i, l)
      BY <1>1, <2>2, ShrunkPlaces
    <3>2. PICK m \in Tree!Used(x, i) : /\ m = (IF q < k THEN q ELSE q + 1) /\ q \in Nat /\ m \in Nat
                                       /\ Tree!EntryAt(y, i, q) = Tree!EntryAt(x, i, m)
      BY <1>1, <2>2, ShrunkPlaces
    <3>3. l = m
      BY <1>1, <1>5, <2>2, <3>1, <3>2 DEF NamesApart
    <3>4. k \in Nat
      BY <1>1, TreeSizes DEF Shrunk
    <3>5. QED  BY <3>1, <3>2, <3>3, <3>4
  <2>3. QED  BY <2>1, <2>2
<1>6. QED  BY <1>2, <1>4, <1>5 DEF NamesApart

\* The directories together have lost exactly the entry.
LEMMA UnderShrinks ==
    ASSUME NEW x, NEW y, NEW D, NEW E \in SUBSET D, NEW i, NEW k, Reduced(x, y, E, i, k), NamesApart(x, D),
           \A v \in D \ E : Tree!EntriesOf(x, v) = {}
    PROVE  Under(y, E) = Under(x, D) \ {EntryIn(i, Tree!EntryAt(x, i, k))}
<1> DEFINE w == EntryIn(i, Tree!EntryAt(x, i, k))
<1>1. i \in E /\ Shrunk(x, y, i, k) /\ \A j \in E \ {i} : SameDir(x, y, j)
  BY DEF Reduced
<1>2. Tree!EntriesOf(y, i) = Tree!EntriesOf(x, i) \ {w}
  <2>1. \A l \in Tree!Used(x, i) : Tree!EntryAt(x, i, l).name = Tree!EntryAt(x, i, k).name => l = k
    BY <1>1, ShrunkPlaces DEF NamesApart
  <2>2. QED  BY <1>1, <2>1, ShrunkEntries
<1>3. \A j \in E \ {i} : Tree!EntriesOf(y, j) = Tree!EntriesOf(x, j)
  BY <1>1, SameDirEntries
<1>4. w.dir = i
  BY DEF EntryIn
<1> HIDE DEF w
<1>5. \A j \in E : Tree!EntriesOf(y, j) = Tree!EntriesOf(x, j) \ {w}
  <2>1. \A j \in E \ {i} : w \notin Tree!EntriesOf(x, j)
    BY <1>4, EntryOf
  <2>2. QED  BY <1>2, <1>3, <2>1
<1>6. Under(y, E) = Under(x, D) \ {w}
  BY <1>5 DEF Under
<1>7. QED  BY <1>6 DEF w

\* A name goes, and with it what it led to.
LEMMA RemoveEntry ==
    ASSUME NEW x, NEW y, NEW D, NEW r, WholeTree(x, D, r), y \in Disks, NEW i, NEW k, NEW w, NEW E,
           w = EntryIn(i, Tree!EntryAt(x, i, k)), w \in Under(x, D),
           E = D \ {w.to}, Reduced(x, y, E, i, k),
           w.to \in D => Tree!EntriesOf(x, w.to) = {},
           \A z \in Under(x, D) : z.to = w.to => z = w,
           y.imap = x.imap \ {w.to}, BlocksApart(y, E), BlocksMarked(y),
           \A j \in y.imap \ E : x.inode[j].reference <= y.inode[j].reference
    PROVE  \E s : WholeTree(y, E, s)
<1> DEFINE A == Under(x, D)
           s == [j \in E |-> r[j]]
<1>1. /\ Family(A, D, r) /\ D \in SUBSET Tree!Inodes /\ r \in [D -> Nat] /\ x.imap = D \cup {z.to : z \in A}
      /\ UpLinks(x, D) /\ Linked(x, D) /\ x \in Disks /\ Heads(x, D) /\ NamesApart(x, D)
  BY DEF WholeTree
<1>2. Under(y, E) = A \ {w}
  <2>1. \A v \in D \ E : Tree!EntriesOf(x, v) = {}
    OBVIOUS
  <2>2. QED  BY <1>1, <2>1, UnderShrinks
<1>3. \A z \in A : z.dir \in D /\ z.type \in {"dir", "file"}
  BY <1>1 DEF Family
<1>4. Family(A \ {w}, E, s) /\ s \in [E -> Nat]
  <2>1. CASE w.type = "file"
    <3>1. w.to \notin D
      BY <1>1, <2>1 DEF Family
    <3>2. E = D /\ s = r
      BY <1>1, <3>1
    <3> HIDE DEF A, s
    <3>3. Family(A \ {w}, D, r)
      BY <1>1, <2>1, FamilyNoFile
    <3>4. QED  BY <1>1, <3>2, <3>3
  <2>2. CASE w.type = "dir"
    <3>1. w.to \in D
      BY <1>1, <2>2 DEF Family, Ranked
    <3>2. \A z \in A : z.dir # w.to
      BY <3>1, EntryUnder
    <3>3. w \in A /\ s = [j \in D \ {w.to} |-> r[j]]
      OBVIOUS
    <3> HIDE DEF A, s
    <3>4. Family(A \ {w}, D \ {w.to}, s) /\ s \in [D \ {w.to} -> Nat]
      BY <1>1, <2>2, <3>2, <3>3, FamilyNoDir
    <3>5. QED  BY <3>4
  <2>3. QED  BY <1>3, <2>1, <2>2
<1>5. y.imap = E \cup {z.to : z \in A \ {w}}
  BY <1>1
<1>6. /\ Heads(y, E) /\ NamesApart(y, E)
      /\ \A j \in E : Tree!EntryAt(y, j, 1) = Tree!EntryAt(x, j, 1)
  <2>1. Heads(x, E) /\ NamesApart(x, E)
    BY <1>1 DEF Heads, NamesApart
  <2>2. QED  BY <2>1, HeadsShrink
<1>7. UpLinks(y, E)
  <2>1. Ranked(A \ {w}, E, s)
    BY <1>4 DEF Family
  <2>2. \A z \in A \ {w} : z.type = "dir" => z.to \in E
    BY <2>1 DEF Ranked
  <2>3. Tree!Root \in E
    BY <2>1 DEF Ranked
  <2>4. QED  BY <1>1, <1>2, <1>6, <2>2, <2>3 DEF UpLinks
<1> HIDE DEF A
<1>8. Linked(y, E)
  <2>1. IsFiniteSet(A) /\ IsFiniteSet(A \ {w})
    BY <1>1, FS_RemoveElement DEF Linked, A
  <2>2. ASSUME NEW j \in y.imap \ E PROVE Cardinality(Naming(A \ {w}, j)) <= y.inode[j].reference
    <3>1. Naming(A \ {w}, j) \in SUBSET Naming(A, j) /\ Naming(A, j) \in SUBSET A
      BY DEF Naming
    <3>2. j \in x.imap \ D /\ j \in y.imap
      BY <2>2
    <3>3. Cardinality(Naming(A, j)) <= x.inode[j].reference
      BY <1>1, <3>2 DEF Linked, A
    <3>4. x.inode[j].reference <= y.inode[j].reference
      BY <2>2
    <3>5. x.inode[j].reference \in Nat /\ y.inode[j].reference \in Nat
      BY <1>1, <3>2, DiskTyped
    <3>6. IsFiniteSet(Naming(A, j)) /\ Cardinality(Naming(A, j)) \in Nat
      BY <2>1, <3>1, FS_Subset, FS_CardinalityType
    <3>7. Cardinality(Naming(A \ {w}, j)) <= Cardinality(Naming(A, j)) /\ Cardinality(Naming(A \ {w}, j)) \in Nat
      BY <3>1, <3>6, FS_Subset, FS_CardinalityType
    <3>8. QED  BY <3>3, <3>4, <3>5, <3>6, <3>7
  <2>3. QED  BY <1>2, <2>1, <2>2 DEF Linked
<1>9. E \in SUBSET Tree!Inodes
  BY <1>1
<1> HIDE DEF s
<1>10. WholeTree(y, E, s)
  BY <1>2, <1>4, <1>5, <1>6, <1>7, <1>8, <1>9 DEF WholeTree
<1>11. QED  BY <1>10

----------------------------------------------------------------------------
(* What the operations make                                                *)

\* alloc_inode and alloc_datablock find what is free, when something is.
LEMMA FreeFound ==
    ASSUME NEW x \in Disks
    PROVE  /\ x.imap # Tree!Inodes => Tree!FirstFree(Tree!Inodes, x.imap) \in Tree!Inodes \ x.imap
           /\ x.bmap # Tree!Blocks => Tree!FirstFree(Tree!Blocks, x.bmap) \in Tree!Blocks \ x.bmap
<1>1. Tree!Inodes \subseteq Nat /\ Tree!Blocks \subseteq Nat
  BY TreeSizes
<1>2. x.imap \subseteq Tree!Inodes /\ x.bmap \subseteq Tree!Blocks
  BY DiskTyped
<1>3. /\ x.imap # Tree!Inodes => Tree!Inodes \ x.imap # {} /\ Tree!Inodes \ x.imap \in SUBSET Nat
      /\ x.bmap # Tree!Blocks => Tree!Blocks \ x.bmap # {} /\ Tree!Blocks \ x.bmap \in SUBSET Nat
  BY <1>1, <1>2
<1>4. QED  BY <1>3, TreeLowest DEF Tree!FirstFree

\* What WithEntry writes.
LEMMA WithEntryIs ==
    ASSUME NEW x \in Disks, NEW i \in Tree!Inodes, NEW q \in TreeEntries, x.inode[i].size < MaxEntries,
           NEW y, y = Tree!WithEntry(x, i, q.name, q.type, q.inode)
    PROVE  /\ y \in Disks /\ y.imap = x.imap /\ y.bmap = x.bmap
           /\ \A j \in Tree!Inodes : /\ y.inode[j].block = x.inode[j].block
                                     /\ y.inode[j].reference = x.inode[j].reference
                                     /\ j # i => y.inode[j].size = x.inode[j].size
           /\ y.inode[i].size = x.inode[i].size + 1
           /\ \A z \in Tree!Blocks \ {Tree!BlockOf(x, i)} : y.block[z] = x.block[z]
           /\ y.block[Tree!BlockOf(x, i)][x.inode[i].size] = q
           /\ \A k \in Tree!Places \ {x.inode[i].size} :
                  y.block[Tree!BlockOf(x, i)][k] = x.block[Tree!BlockOf(x, i)][k]
<1>1. PICK m, bb : m = x.inode[i].size /\ bb = Tree!BlockOf(x, i)
  OBVIOUS
<1>2. m \in Tree!Places /\ m \in Nat /\ bb \in Tree!Blocks
  <2>1. m \in Nat /\ bb \in Tree!Blocks
    BY <1>1, DiskTyped
  <2>2. m < MaxEntries
    BY <1>1
  <2>3. QED  BY <2>1, <2>2, TreeSizes
<1>3. q = [name |-> q.name, type |-> q.type, inode |-> q.inode]
  BY DEF TreeEntries
<1>4. y = [[x EXCEPT !.block[bb][m] = q] EXCEPT !.inode[i].size = @ + 1]
  BY <1>1, <1>3 DEF Tree!WithEntry
<1>5. /\ x.imap \in SUBSET Tree!Inodes /\ x.bmap \in SUBSET Tree!Blocks
      /\ x.inode \in TreeInodes /\ x.block \in [Tree!Blocks -> DirBlock]
      /\ DOMAIN x = {"imap", "bmap", "inode", "block"}
  BY DEF Disks
<1>6. /\ y.imap = x.imap /\ y.bmap = x.bmap
      /\ y.inode = [x.inode EXCEPT ![i].size = @ + 1]
      /\ y.block = [x.block EXCEPT ![bb][m] = q]
      /\ y = [imap |-> y.imap, bmap |-> y.bmap, inode |-> y.inode, block |-> y.block]
  BY <1>4 DEF Disks
<1>7. y.inode \in TreeInodes
  BY <1>5, <1>6 DEF TreeInodes
<1>8. y.block \in [Tree!Blocks -> DirBlock]
  BY <1>2, <1>5, <1>6 DEF DirBlock
<1>9. y \in Disks
  BY <1>5, <1>6, <1>7, <1>8 DEF Disks
<1>10. /\ \A j \in Tree!Inodes : /\ y.inode[j].block = x.inode[j].block
                                 /\ y.inode[j].reference = x.inode[j].reference
                                 /\ j # i => y.inode[j].size = x.inode[j].size
       /\ y.inode[i].size = m + 1
  BY <1>1, <1>5, <1>6 DEF TreeInodes
<1>11. /\ \A z \in Tree!Blocks \ {bb} : y.block[z] = x.block[z]
       /\ y.block[bb][m] = q
       /\ \A k \in Tree!Places \ {m} : y.block[bb][k] = x.block[bb][k]
  BY <1>2, <1>5, <1>6 DEF DirBlock
<1>12. QED  BY <1>1, <1>6, <1>9, <1>10, <1>11

\* What NewInode writes.
LEMMA NewInodeIs ==
    ASSUME NEW x \in Disks, NEW i \in Tree!Inodes, NEW p \in Tree!Blocks, NEW m \in Nat, NEW l \in Nat,
           NEW y, y = Tree!NewInode(x, i, p, m, l)
    PROVE  /\ y \in Disks /\ y.imap = x.imap \cup {i} /\ y.bmap = x.bmap \cup {p} /\ y.block = x.block
           /\ \A j \in Tree!Inodes \ {i} : y.inode[j] = x.inode[j]
           /\ y.inode[i] = [size |-> m, block |-> p, reference |-> l]
<1>1. /\ x.imap \in SUBSET Tree!Inodes /\ x.bmap \in SUBSET Tree!Blocks
      /\ x.inode \in TreeInodes /\ x.block \in [Tree!Blocks -> DirBlock]
  BY DEF Disks
<1>2. /\ y.imap = x.imap \cup {i} /\ y.bmap = x.bmap \cup {p} /\ y.block = x.block
      /\ y.inode = [x.inode EXCEPT ![i] = [size |-> m, block |-> p, reference |-> l]]
      /\ y = [imap |-> y.imap, bmap |-> y.bmap, inode |-> y.inode, block |-> y.block]
  BY DEF Disks, Tree!NewInode
<1>3. /\ y.inode \in TreeInodes /\ y.inode[i] = [size |-> m, block |-> p, reference |-> l]
      /\ \A j \in Tree!Inodes \ {i} : y.inode[j] = x.inode[j]
  BY <1>1, <1>2 DEF TreeInodes
<1>4. y \in Disks
  BY <1>1, <1>2, <1>3 DEF Disks
<1>5. QED  BY <1>2, <1>3, <1>4

\* z is x with changes that no directory of D shows.
LEMMA WithEntryGrows ==
    ASSUME NEW x, NEW D, NEW r, WholeTree(x, D, r), NEW z \in Disks, \A j \in D : SameDir(x, z, j),
           NEW i \in D, NEW q \in TreeEntries, x.inode[i].size < MaxEntries, Tree!Found(x, i, q.name) = {},
           NEW y, y = Tree!WithEntry(z, i, q.name, q.type, q.inode)
    PROVE  /\ Grown(x, y, D, i, q)
           /\ y \in Disks /\ y.imap = z.imap /\ y.bmap = z.bmap
           /\ \A j \in Tree!Inodes : /\ Tree!BlockOf(y, j) = Tree!BlockOf(z, j)
                                     /\ y.inode[j].reference = z.inode[j].reference
                                     /\ j # i => y.inode[j].size = z.inode[j].size
           /\ \A p \in Tree!Blocks \ {Tree!BlockOf(x, i)} : y.block[p] = z.block[p]
<1>1. x \in Disks /\ D \in SUBSET Tree!Inodes /\ Heads(x, D) /\ BlocksApart(x, D) /\ D \subseteq x.imap
  BY DEF WholeTree
<1>2. PICK m, bb : m = x.inode[i].size /\ bb = Tree!BlockOf(x, i)
  OBVIOUS
<1>3. /\ m \in 2 .. MaxEntries - 1 /\ m < MaxEntries /\ m \in Tree!Places
  <2>1. m \in 2 .. MaxEntries /\ m < MaxEntries
    BY <1>1, <1>2 DEF Heads
  <2>2. QED  BY <2>1, TreeSizes
<1>4. z.inode[i].size = m /\ Tree!BlockOf(z, i) = bb /\ i \in Tree!Inodes
  BY <1>1, <1>2 DEF SameDir
<1>5. /\ y \in Disks /\ y.imap = z.imap /\ y.bmap = z.bmap
      /\ \A j \in Tree!Inodes : /\ y.inode[j].block = z.inode[j].block
                                /\ y.inode[j].reference = z.inode[j].reference
                                /\ j # i => y.inode[j].size = z.inode[j].size
      /\ y.inode[i].size = m + 1
      /\ \A p \in Tree!Blocks \ {bb} : y.block[p] = z.block[p]
      /\ y.block[bb][m] = q
      /\ \A k \in Tree!Places \ {m} : y.block[bb][k] = z.block[bb][k]
  BY <1>3, <1>4, WithEntryIs
<1>6. \A j \in Tree!Inodes : Tree!BlockOf(y, j) = Tree!BlockOf(z, j)
  BY <1>5 DEF Tree!BlockOf
<1>7. Extended(x, y, i, q)
  <2>1. \A k \in Tree!Used(x, i) : k \in Tree!Places \ {m}
    BY <1>2, <1>3, TreeSizes DEF Tree!Used
  <2>2. \A k \in Tree!Used(x, i) : Tree!EntryAt(y, i, k) = Tree!EntryAt(x, i, k)
    <3>1. \A k \in Tree!Used(x, i) : Tree!EntryAt(z, i, k) = Tree!EntryAt(x, i, k)
      BY DEF SameDir
    <3>2. QED  BY <1>4, <1>5, <1>6, <2>1, <3>1 DEF Tree!EntryAt
  <2>3. Tree!EntryAt(y, i, m) = q
    BY <1>4, <1>5, <1>6 DEF Tree!EntryAt
  <2>4. QED  BY <1>2, <1>3, <1>4, <1>5, <1>6, <2>2, <2>3 DEF Extended
<1>8. ASSUME NEW j \in D \ {i} PROVE SameDir(x, y, j)
  <2>1. SameDir(x, z, j) /\ j \in Tree!Inodes
    BY <1>1
  <2>2. Tree!BlockOf(z, j) \in Tree!Blocks \ {bb}
    <3>1. Tree!BlockOf(x, j) # bb
      BY <1>1, <1>2 DEF BlocksApart
    <3>2. Tree!BlockOf(x, j) \in Tree!Blocks
      BY <1>1, <2>1, DiskTyped
    <3>3. QED  BY <2>1, <3>1, <3>2 DEF SameDir
  <2>3. \A k : Tree!EntryAt(y, j, k) = Tree!EntryAt(z, j, k)
    BY <1>5, <1>6, <2>1, <2>2 DEF Tree!EntryAt
  <2>4. QED  BY <1>5, <1>6, <2>1, <2>3 DEF SameDir
<1>9. Grown(x, y, D, i, q)
  BY <1>7, <1>8 DEF Grown
<1>10. QED  BY <1>2, <1>5, <1>6, <1>9

\* From x to y an inode v is new, with block p.
Gains(x, y, v, p) ==
    /\ v \in Tree!Inodes \ x.imap
    /\ y.imap = x.imap \cup {v} /\ y.bmap = x.bmap \cup {p}
    /\ \A j \in x.imap : Tree!BlockOf(y, j) = Tree!BlockOf(x, j)
    /\ Tree!BlockOf(y, v) = p

\* An inode more with a block marked leaves the block map exact; a free block has one owner.
LEMMA OneMoreBlock ==
    ASSUME NEW x, NEW D, NEW r, WholeTree(x, D, r), NEW y, NEW v, NEW p, Gains(x, y, v, p),
           \A j \in D : Tree!BlockOf(x, j) # p
    PROVE  /\ BlocksApart(y, D) /\ BlocksMarked(y)
           /\ p \notin x.bmap => BlocksApart(y, D \cup {v})
<1>0. /\ v \in Tree!Inodes \ x.imap /\ y.imap = x.imap \cup {v} /\ y.bmap = x.bmap \cup {p}
      /\ \A j \in x.imap : Tree!BlockOf(y, j) = Tree!BlockOf(x, j)
      /\ Tree!BlockOf(y, v) = p
  BY DEF Gains
<1>1. /\ BlocksApart(x, D) /\ D \subseteq x.imap /\ x.bmap = {Tree!BlockOf(x, j) : j \in x.imap}
  BY DEF WholeTree, BlocksMarked
<1>2. BlocksApart(y, D)
  BY <1>0, <1>1 DEF BlocksApart
<1>3. BlocksMarked(y)
  BY <1>0, <1>1 DEF BlocksMarked
<1>4. p \notin x.bmap => BlocksApart(y, D \cup {v})
  BY <1>0, <1>1, <1>2 DEF BlocksApart
<1>5. QED  BY <1>2, <1>3, <1>4

\* No name leads to an inode that is free.
LEMMA NobodyNames ==
    ASSUME NEW x, NEW D, NEW r, WholeTree(x, D, r), NEW v, v \notin x.imap
    PROVE  Cardinality(Naming(Under(x, D), v)) = 0
<1>1. Naming(Under(x, D), v) = {}
  BY DEF WholeTree, Naming
<1>2. QED  BY <1>1, FS_EmptySet

\* The entries that operations write.
LEMMA EntryTyped ==
    ASSUME NEW n \in Names, NEW t \in {"dir", "file"}, NEW v \in Tree!Inodes, NEW q,
           q = [name |-> n, type |-> t, inode |-> v]
    PROVE  q \in TreeEntries
BY DEF TreeEntries

\* What the directories of D held is still there, in the same blocks.
Keeps(x, y, D) ==
    \A j \in D : \A k \in Tree!Used(x, j) : y.block[Tree!BlockOf(x, j)][k] = Tree!EntryAt(x, j, k)

\* An entry added at the end overwrites none.
LEMMA GrownKeeps ==
    ASSUME NEW x, NEW y, NEW D, NEW i, NEW q, Grown(x, y, D, i, q)
    PROVE  Keeps(x, y, D)
<1>1. \A j \in D : /\ Tree!BlockOf(y, j) = Tree!BlockOf(x, j)
                   /\ \A k \in Tree!Used(x, j) : Tree!EntryAt(y, j, k) = Tree!EntryAt(x, j, k)
  BY DEF Grown, Extended, SameDir
<1>2. QED  BY <1>1 DEF Keeps, Tree!EntryAt

\* The directories whose inodes and blocks are not written are untouched.
LEMMA NotTouched ==
    ASSUME NEW x, NEW z, NEW D, NEW r, WholeTree(x, D, r), \A j \in x.imap : z.inode[j] = x.inode[j],
           \A j \in D : z.block[Tree!BlockOf(x, j)] = x.block[Tree!BlockOf(x, j)]
    PROVE  \A j \in D : SameDir(x, z, j)
<1>1. D \subseteq x.imap
  BY DEF WholeTree
<1>2. QED  BY <1>1 DEF SameDir, Tree!BlockOf, Tree!EntryAt

\* What do_touch and mkdir make of x in directory i, with inode v and block p.
Touched(x, i, n, v, p) == Tree!WithEntry(Tree!NewInode(x, v, p, 0, 1), i, n, "file", v)
Founded(x, i, n, v, p) ==
    Tree!WithEntry(Tree!NewInode([x EXCEPT !.block[p] = Tree!Dentry(@, v, i)], v, p, 2, 2), i, n, "dir", v)

\* touch leaves a whole card.
LEMMA TouchMakes ==
    ASSUME NEW x, NEW D, NEW r, WholeTree(x, D, r), NEW i \in D, NEW n \in Names, x.inode[i].size < MaxEntries,
           Tree!Found(x, i, n) = {}, NEW v \in Tree!Inodes \ x.imap, NEW p \in Tree!Blocks \ x.bmap,
           NEW y, y = Touched(x, i, n, v, p)
    PROVE  /\ y \in Disks /\ WholeTree(y, D, r) /\ Keeps(x, y, D)
           /\ \A l \in Tree!Blocks \ {Tree!BlockOf(x, i)} : y.block[l] = x.block[l]
<1>1. /\ x \in Disks /\ D \in SUBSET Tree!Inodes /\ D \subseteq x.imap /\ x.bmap = {Tree!BlockOf(x, j) : j \in x.imap}
      /\ x.imap \subseteq Tree!Inodes
  BY DiskTyped DEF WholeTree, BlocksMarked
<1>2. PICK z, q : z = Tree!NewInode(x, v, p, 0, 1) /\ q = [name |-> n, type |-> "file", inode |-> v]
  OBVIOUS
<1>3. /\ z \in Disks /\ z.imap = x.imap \cup {v} /\ z.bmap = x.bmap \cup {p} /\ z.block = x.block
      /\ \A j \in Tree!Inodes \ {v} : z.inode[j] = x.inode[j]
      /\ z.inode[v] = [size |-> 0, block |-> p, reference |-> 1]
  <2>1. 0 \in Nat /\ 1 \in Nat /\ v \in Tree!Inodes /\ p \in Tree!Blocks
    OBVIOUS
  <2>2. x \in Disks /\ z = Tree!NewInode(x, v, p, 0, 1)
    BY <1>1, <1>2
  <2>3. QED  BY <2>1, <2>2, NewInodeIs
<1>4. \A j \in D : SameDir(x, z, j)
  BY <1>1, <1>3, NotTouched
<1>5. q \in TreeEntries /\ y = Tree!WithEntry(z, i, q.name, q.type, q.inode) /\ Tree!Found(x, i, q.name) = {}
  <2>1. q.name = n /\ q.type = "file" /\ q.inode = v
    BY <1>2
  <2>2. QED  BY <1>2, <2>1, EntryTyped DEF Touched
<1>6. /\ Grown(x, y, D, i, q) /\ y \in Disks /\ y.imap = z.imap /\ y.bmap = z.bmap
      /\ \A j \in Tree!Inodes : /\ Tree!BlockOf(y, j) = Tree!BlockOf(z, j)
                                /\ y.inode[j].reference = z.inode[j].reference
      /\ \A l \in Tree!Blocks \ {Tree!BlockOf(x, i)} : y.block[l] = z.block[l]
  BY <1>3, <1>4, <1>5, WithEntryGrows
<1>7. /\ Gains(x, y, v, p) /\ y.imap = x.imap \cup {v}
      /\ \A j \in D : Tree!BlockOf(x, j) # p
  BY <1>1, <1>3, <1>6 DEF Tree!BlockOf, Gains
<1>8. BlocksApart(y, D) /\ BlocksMarked(y)
  BY <1>7, OneMoreBlock
<1>9. /\ \A j \in x.imap \ D : x.inode[j].reference <= y.inode[j].reference
      /\ y.inode[v].reference = 1 /\ Cardinality(Naming(Under(x, D), v)) = 0
  <2>1. \A j \in x.imap : y.inode[j].reference = x.inode[j].reference /\ x.inode[j].reference \in Nat
    BY <1>1, <1>3, <1>6, DiskTyped
  <2>2. y.inode[v].reference = 1
    BY <1>3, <1>6
  <2>3. QED  BY <2>1, <2>2, NobodyNames
<1>10. v \in Tree!Inodes \ D /\ Cardinality(Naming(Under(x, D), v)) + 1 <= y.inode[v].reference
  BY <1>1, <1>9
<1>11. WholeTree(y, D, r)
  <2>1. \A j \in x.imap \ D : j = v \/ x.inode[j].reference <= y.inode[j].reference
    BY <1>9
  <2>2. QED  BY <1>2, <1>6, <1>7, <1>8, <1>10, <2>1, AddFile
<1>12. QED  BY <1>3, <1>6, <1>11, GrownKeeps

\* What init_dentry writes.
LEMMA DentryIs ==
    ASSUME NEW w \in DirBlock, NEW v \in Tree!Inodes, NEW i \in Tree!Inodes, NEW u, u = Tree!Dentry(w, v, i)
    PROVE  /\ u \in DirBlock
           /\ u[0] = [name |-> ".", type |-> "dot", inode |-> v]
           /\ u[1] = [name |-> "..", type |-> "dotdot", inode |-> i]
<1>1. 0 \in Tree!Places /\ 1 \in Tree!Places
  BY TreeSizes
<1>2. PICK q, t : q = [name |-> ".", type |-> "dot", inode |-> v] /\ t = [name |-> "..", type |-> "dotdot", inode |-> i]
  OBVIOUS
<1>3. u = [w EXCEPT ![0] = q, ![1] = t]
  BY <1>2 DEF Tree!Dentry
<1>4. u \in DirBlock /\ u[0] = q /\ u[1] = t
  <2>1. q \in TreeEntries
    BY <1>2 DEF TreeEntries
  <2>2. t \in TreeEntries
    BY <1>2 DEF TreeEntries
  <2>3. QED  BY <1>1, <1>3, <2>1, <2>2 DEF DirBlock
<1>5. QED  BY <1>2, <1>4

\* One block written.
LEMMA WithBlockIs ==
    ASSUME NEW x \in Disks, NEW p \in Tree!Blocks, NEW w \in DirBlock, NEW y, y = [x EXCEPT !.block[p] = w]
    PROVE  /\ y \in Disks /\ y.imap = x.imap /\ y.bmap = x.bmap /\ y.inode = x.inode /\ y.block[p] = w
           /\ \A l \in Tree!Blocks \ {p} : y.block[l] = x.block[l]
BY DEF Disks

\* mkdir leaves a whole card.
LEMMA MkdirMakes ==
    ASSUME NEW x, NEW D, NEW r, WholeTree(x, D, r), NEW i \in D, NEW n \in Names, x.inode[i].size < MaxEntries,
           Tree!Found(x, i, n) = {}, NEW v \in Tree!Inodes \ x.imap, NEW p \in Tree!Blocks \ x.bmap,
           NEW y, y = Founded(x, i, n, v, p)
    PROVE  /\ y \in Disks /\ Keeps(x, y, D)
           /\ \E E \in SUBSET Tree!Inodes : \E s : D \subseteq E /\ WholeTree(y, E, s)
           /\ \A l \in Tree!Blocks \ {Tree!BlockOf(x, i), p} : y.block[l] = x.block[l]
<1>1. /\ x \in Disks /\ D \in SUBSET Tree!Inodes /\ D \subseteq x.imap /\ x.bmap = {Tree!BlockOf(x, j) : j \in x.imap}
      /\ x.imap \subseteq Tree!Inodes /\ x.block[p] \in DirBlock
  BY DiskTyped DEF WholeTree, BlocksMarked, Disks
<1>2. PICK u, z0, q : /\ u = Tree!Dentry(x.block[p], v, i) /\ z0 = [x EXCEPT !.block[p] = u]
                      /\ q = [name |-> n, type |-> "dir", inode |-> v]
  OBVIOUS
<1>17. PICK z : z = Tree!NewInode(z0, v, p, 2, 2)
  OBVIOUS
<1>3. /\ u \in DirBlock /\ u[0] = [name |-> ".", type |-> "dot", inode |-> v]
      /\ u[1] = [name |-> "..", type |-> "dotdot", inode |-> i]
  BY <1>1, <1>2, DentryIs
<1>4. /\ z0 \in Disks /\ z0.imap = x.imap /\ z0.bmap = x.bmap /\ z0.inode = x.inode /\ z0.block[p] = u
      /\ \A l \in Tree!Blocks \ {p} : z0.block[l] = x.block[l]
  BY <1>1, <1>2, <1>3, WithBlockIs
<1>5. /\ z \in Disks /\ z.imap = x.imap \cup {v} /\ z.bmap = x.bmap \cup {p} /\ z.block = z0.block
      /\ \A j \in Tree!Inodes \ {v} : z.inode[j] = x.inode[j]
      /\ z.inode[v] = [size |-> 2, block |-> p, reference |-> 2]
  <2>1. 2 \in Nat /\ v \in Tree!Inodes
    OBVIOUS
  <2>2. /\ z \in Disks /\ z.imap = z0.imap \cup {v} /\ z.bmap = z0.bmap \cup {p} /\ z.block = z0.block
        /\ \A j \in Tree!Inodes \ {v} : z.inode[j] = z0.inode[j]
        /\ z.inode[v] = [size |-> 2, block |-> p, reference |-> 2]
    BY <1>4, <1>17, <2>1, NewInodeIs
  <2>3. QED  BY <1>4, <2>2
<1>6. \A j \in x.imap : Tree!BlockOf(x, j) \in Tree!Blocks \ {p}
  BY <1>1, DiskTyped
<1>7. \A j \in D : SameDir(x, z, j)
  <2>1. \A j \in x.imap : z.inode[j] = x.inode[j]
    BY <1>1, <1>4, <1>5
  <2>2. \A j \in D : z.block[Tree!BlockOf(x, j)] = x.block[Tree!BlockOf(x, j)]
    BY <1>1, <1>4, <1>5, <1>6
  <2>3. QED  BY <2>1, <2>2, NotTouched
<1>8. q \in TreeEntries /\ y = Tree!WithEntry(z, i, q.name, q.type, q.inode) /\ Tree!Found(x, i, q.name) = {}
  <2>1. q.name = n /\ q.type = "dir" /\ q.inode = v
    BY <1>2
  <2>2. y = Tree!WithEntry(z, i, n, "dir", v)
    BY <1>2, <1>17 DEF Founded
  <2>3. QED  BY <1>2, <2>1, <2>2, EntryTyped
<1>9. /\ Grown(x, y, D, i, q) /\ y \in Disks /\ y.imap = z.imap /\ y.bmap = z.bmap
      /\ \A j \in Tree!Inodes : /\ Tree!BlockOf(y, j) = Tree!BlockOf(z, j)
                                /\ y.inode[j].reference = z.inode[j].reference
                                /\ j # i => y.inode[j].size = z.inode[j].size
      /\ \A l \in Tree!Blocks \ {Tree!BlockOf(x, i)} : y.block[l] = z.block[l]
  BY <1>5, <1>7, <1>8, WithEntryGrows
<1>10. /\ Gains(x, y, v, p) /\ y.imap = x.imap \cup {v} /\ Tree!BlockOf(y, v) = p
       /\ \A j \in D : Tree!BlockOf(x, j) # p
  BY <1>1, <1>5, <1>6, <1>9 DEF Tree!BlockOf, Gains
<1>11. BlocksApart(y, D \cup {v}) /\ BlocksMarked(y)
  BY <1>10, OneMoreBlock
<1>12. \A j \in x.imap \ D : x.inode[j].reference <= y.inode[j].reference
  <2>1. \A j \in x.imap : y.inode[j].reference = x.inode[j].reference /\ x.inode[j].reference \in Nat
    BY <1>1, <1>5, <1>9, DiskTyped
  <2>2. QED  BY <2>1
<1>13. EmptyDir(y, v, i)
  <2>1. v # i /\ p # Tree!BlockOf(x, i)
    BY <1>1, <1>10
  <2>2. y.inode[v].size = 2
    BY <1>5, <1>9, <2>1
  <2>3. y.block[p] = u
    BY <1>4, <1>5, <1>9, <2>1
  <2>4. QED  BY <1>3, <1>10, <2>2, <2>3 DEF EmptyDir, Tree!EntryAt
<1>14. \E E \in SUBSET Tree!Inodes : \E s : D \subseteq E /\ WholeTree(y, E, s)
  <2>1. y.imap = x.imap \cup {v}
    BY <1>10
  <2>2. QED  BY <1>2, <1>9, <1>11, <1>12, <1>13, <2>1, AddDir
<1>15. \A l \in Tree!Blocks \ {Tree!BlockOf(x, i), p} : y.block[l] = x.block[l]
  BY <1>4, <1>5, <1>9
<1>16. QED  BY <1>9, <1>14, <1>15, GrownKeeps

\* What do_ln and do_ln_s make of x in directory i, for inode v.
HardLinked(x, i, n, v) == Tree!Counted(Tree!WithEntry(x, i, n, "file", v), v)
CopiedInode(x, v, u) == [x EXCEPT !.imap = @ \cup {u}, !.inode[u] = x.inode[v]]
SoftLinked(x, i, n, v, u) == Tree!WithEntry(CopiedInode(x, v, u), i, n, "file", u)

\* What Counted writes.
LEMMA CountedIs ==
    ASSUME NEW x \in Disks, NEW v \in Tree!Inodes, NEW y, y = Tree!Counted(x, v)
    PROVE  /\ y \in Disks /\ y.imap = x.imap /\ y.bmap = x.bmap /\ y.block = x.block
           /\ \A j \in Tree!Inodes : /\ y.inode[j].size = x.inode[j].size /\ Tree!BlockOf(y, j) = Tree!BlockOf(x, j)
                                     /\ j # v => y.inode[j].reference = x.inode[j].reference
           /\ y.inode[v].reference = x.inode[v].reference + 1
<1>1. /\ x.imap \in SUBSET Tree!Inodes /\ x.bmap \in SUBSET Tree!Blocks
      /\ x.inode \in TreeInodes /\ x.block \in [Tree!Blocks -> DirBlock]
  BY DEF Disks
<1>2. /\ y.imap = x.imap /\ y.bmap = x.bmap /\ y.block = x.block
      /\ y.inode = [x.inode EXCEPT ![v].reference = @ + 1]
      /\ y = [imap |-> y.imap, bmap |-> y.bmap, inode |-> y.inode, block |-> y.block]
  BY DEF Disks, Tree!Counted
<1>3. /\ y.inode \in TreeInodes /\ y.inode[v].reference = x.inode[v].reference + 1
      /\ \A j \in Tree!Inodes : /\ y.inode[j].size = x.inode[j].size /\ y.inode[j].block = x.inode[j].block
                                /\ j # v => y.inode[j].reference = x.inode[j].reference
  BY <1>1, <1>2 DEF TreeInodes
<1>4. y \in Disks
  BY <1>1, <1>2, <1>3 DEF Disks
<1>5. QED  BY <1>2, <1>3, <1>4 DEF Tree!BlockOf

\* A count changes no directory.
LEMMA GrownCounted ==
    ASSUME NEW x, NEW y, NEW z, NEW D \in SUBSET Tree!Inodes, NEW i, NEW q, Grown(x, y, D, i, q), z.block = y.block,
           \A j \in Tree!Inodes : z.inode[j].size = y.inode[j].size /\ Tree!BlockOf(z, j) = Tree!BlockOf(y, j)
    PROVE  Grown(x, z, D, i, q)
<1>1. \A j \in D : \A k : Tree!EntryAt(z, j, k) = Tree!EntryAt(y, j, k)
  BY DEF Tree!EntryAt
<1>2. QED  BY <1>1 DEF Grown, Extended, SameDir

\* The inode of a file that has a name.
LEMMA NamedFile ==
    ASSUME NEW x, NEW D, NEW r, WholeTree(x, D, r), NEW z \in Under(x, D), z.type = "file"
    PROVE  /\ z.to \in Tree!Inodes \ D /\ z.to \in x.imap
           /\ IsFiniteSet(Naming(Under(x, D), z.to)) /\ z \in Naming(Under(x, D), z.to)
           /\ Cardinality(Naming(Under(x, D), z.to)) \in Nat
           /\ Cardinality(Naming(Under(x, D), z.to)) >= 1
           /\ Cardinality(Naming(Under(x, D), z.to)) <= x.inode[z.to].reference
           /\ x.inode[z.to].reference \in Nat
<1>1. /\ x \in Disks /\ Family(Under(x, D), D, r) /\ Linked(x, D) /\ x.imap = D \cup {w.to : w \in Under(x, D)}
  BY DEF WholeTree
<1>2. z.to \in Tree!Inodes \ D /\ z.to \in x.imap
  BY <1>1 DEF Family
<1>3. Naming(Under(x, D), z.to) \in SUBSET Under(x, D) /\ z \in Naming(Under(x, D), z.to)
  BY DEF Naming
<1>4. IsFiniteSet(Naming(Under(x, D), z.to)) /\ Cardinality(Naming(Under(x, D), z.to)) \in Nat
  BY <1>1, <1>3, FS_Subset, FS_CardinalityType DEF Linked
<1>5. Cardinality(Naming(Under(x, D), z.to)) # 0
  BY <1>3, <1>4, FS_EmptySet
<1>6. Cardinality(Naming(Under(x, D), z.to)) >= 1
  BY <1>4, <1>5
<1>7. Cardinality(Naming(Under(x, D), z.to)) <= x.inode[z.to].reference
  BY <1>1, <1>2 DEF Linked
<1>8. x.inode[z.to].reference \in Nat
  BY <1>1, <1>2, DiskTyped
<1>9. QED  BY <1>2, <1>3, <1>4, <1>6, <1>7, <1>8

\* ln leaves a whole card: one name more and one count more.
LEMMA LinkMakes ==
    ASSUME NEW x, NEW D, NEW r, WholeTree(x, D, r), NEW i \in D, NEW n \in Names, x.inode[i].size < MaxEntries,
           Tree!Found(x, i, n) = {}, NEW w \in Under(x, D), w.type = "file",
           NEW y, y = HardLinked(x, i, n, w.to)
    PROVE  /\ y \in Disks /\ WholeTree(y, D, r) /\ y.imap = x.imap /\ y.bmap = x.bmap
           /\ \A l \in Tree!Blocks \ {Tree!BlockOf(x, i)} : y.block[l] = x.block[l]
<1>1. /\ x \in Disks /\ D \in SUBSET Tree!Inodes /\ D \subseteq x.imap /\ BlocksMarked(x) /\ BlocksApart(x, D)
      /\ x.imap \subseteq Tree!Inodes
  BY DiskTyped DEF WholeTree
<1>2. PICK v : v = w.to
  OBVIOUS
<1>3. /\ v \in Tree!Inodes \ D /\ v \in x.imap
      /\ Cardinality(Naming(Under(x, D), v)) \in Nat
      /\ Cardinality(Naming(Under(x, D), v)) <= x.inode[v].reference
      /\ x.inode[v].reference \in Nat
  BY <1>2, NamedFile
<1>4. PICK q : q = [name |-> n, type |-> "file", inode |-> v]
  OBVIOUS
<1>5. PICK z : z = Tree!WithEntry(x, i, n, "file", v)
  OBVIOUS
<1>6. q \in TreeEntries /\ z = Tree!WithEntry(x, i, q.name, q.type, q.inode) /\ Tree!Found(x, i, q.name) = {}
  <2>1. q.name = n /\ q.type = "file" /\ q.inode = v
    BY <1>4
  <2>2. QED  BY <1>3, <1>4, <1>5, <2>1, EntryTyped
<1>7. \A j \in D : SameDir(x, x, j)
  BY DEF SameDir
<1>8. /\ Grown(x, z, D, i, q) /\ z \in Disks /\ z.imap = x.imap /\ z.bmap = x.bmap
      /\ \A j \in Tree!Inodes : /\ Tree!BlockOf(z, j) = Tree!BlockOf(x, j)
                                /\ z.inode[j].reference = x.inode[j].reference
      /\ \A l \in Tree!Blocks \ {Tree!BlockOf(x, i)} : z.block[l] = x.block[l]
  BY <1>1, <1>6, <1>7, WithEntryGrows
<1>9. y = Tree!Counted(z, v)
  BY <1>2, <1>5 DEF HardLinked
<1>10. /\ y \in Disks /\ y.imap = z.imap /\ y.bmap = z.bmap /\ y.block = z.block
       /\ \A j \in Tree!Inodes : /\ y.inode[j].size = z.inode[j].size /\ Tree!BlockOf(y, j) = Tree!BlockOf(z, j)
                                 /\ j # v => y.inode[j].reference = z.inode[j].reference
       /\ y.inode[v].reference = z.inode[v].reference + 1
  BY <1>3, <1>8, <1>9, CountedIs
<1>11. Grown(x, y, D, i, q)
  BY <1>1, <1>8, <1>10, GrownCounted
<1>12. /\ y.imap = x.imap /\ y.bmap = x.bmap /\ \A j \in x.imap : Tree!BlockOf(y, j) = Tree!BlockOf(x, j)
  BY <1>1, <1>8, <1>10
<1>13. BlocksApart(y, D) /\ BlocksMarked(y)
  BY <1>1, <1>12 DEF BlocksApart, BlocksMarked
<1>14. \A j \in x.imap \ D : j = v \/ x.inode[j].reference <= y.inode[j].reference
  <2>1. \A j \in x.imap \ D : j # v => y.inode[j].reference = x.inode[j].reference /\ x.inode[j].reference \in Nat
    BY <1>1, <1>8, <1>10, DiskTyped
  <2>2. QED  BY <2>1
<1>15. Cardinality(Naming(Under(x, D), v)) + 1 <= y.inode[v].reference
  <2>1. y.inode[v].reference = x.inode[v].reference + 1
    BY <1>3, <1>8, <1>10
  <2>2. QED  BY <1>3, <2>1
<1>16. y.imap = x.imap \cup {v}
  BY <1>3, <1>12
<1>17. WholeTree(y, D, r)
  BY <1>3, <1>4, <1>10, <1>11, <1>13, <1>14, <1>15, <1>16, AddFile
<1>18. QED  BY <1>8, <1>10, <1>12, <1>17

\* What the copy of an inode writes.
LEMMA CopiedIs ==
    ASSUME NEW x \in Disks, NEW v \in Tree!Inodes, NEW u \in Tree!Inodes
    PROVE  /\ CopiedInode(x, v, u) \in Disks /\ CopiedInode(x, v, u).imap = x.imap \cup {u}
           /\ CopiedInode(x, v, u).bmap = x.bmap /\ CopiedInode(x, v, u).block = x.block
           /\ \A j \in Tree!Inodes \ {u} : CopiedInode(x, v, u).inode[j] = x.inode[j]
           /\ CopiedInode(x, v, u).inode[u] = x.inode[v]
<1> PICK y : y = CopiedInode(x, v, u)
  OBVIOUS
<1>1. /\ x.imap \in SUBSET Tree!Inodes /\ x.bmap \in SUBSET Tree!Blocks
      /\ x.inode \in TreeInodes /\ x.block \in [Tree!Blocks -> DirBlock]
  BY DEF Disks
<1>2. /\ y.imap = x.imap \cup {u} /\ y.bmap = x.bmap /\ y.block = x.block
      /\ y.inode = [x.inode EXCEPT ![u] = x.inode[v]]
      /\ y = [imap |-> y.imap, bmap |-> y.bmap, inode |-> y.inode, block |-> y.block]
  BY DEF Disks, CopiedInode
<1>3. /\ y.inode \in TreeInodes /\ y.inode[u] = x.inode[v]
      /\ \A j \in Tree!Inodes \ {u} : y.inode[j] = x.inode[j]
  BY <1>1, <1>2 DEF TreeInodes
<1>4. y \in Disks
  BY <1>1, <1>2, <1>3 DEF Disks
<1>5. QED  BY <1>2, <1>3, <1>4

\* ln -s leaves a whole card: the copy has one name and the count of the other.
LEMMA SoftLinkMakes ==
    ASSUME NEW x, NEW D, NEW r, WholeTree(x, D, r), NEW i \in D, NEW n \in Names, x.inode[i].size < MaxEntries,
           Tree!Found(x, i, n) = {}, NEW w \in Under(x, D), w.type = "file", NEW u \in Tree!Inodes \ x.imap,
           NEW y, y = SoftLinked(x, i, n, w.to, u)
    PROVE  /\ y \in Disks /\ WholeTree(y, D, r) /\ y.bmap = x.bmap
           /\ \A l \in Tree!Blocks \ {Tree!BlockOf(x, i)} : y.block[l] = x.block[l]
<1>1. /\ x \in Disks /\ D \in SUBSET Tree!Inodes /\ D \subseteq x.imap /\ BlocksMarked(x) /\ BlocksApart(x, D)
      /\ x.imap \subseteq Tree!Inodes
  BY DiskTyped DEF WholeTree
<1>2. PICK v : v = w.to
  OBVIOUS
<1>3. /\ v \in Tree!Inodes \ D /\ v \in x.imap
      /\ Cardinality(Naming(Under(x, D), v)) \in Nat
      /\ Cardinality(Naming(Under(x, D), v)) >= 1
      /\ Cardinality(Naming(Under(x, D), v)) <= x.inode[v].reference
      /\ x.inode[v].reference \in Nat
  BY <1>2, NamedFile
<1>4. PICK q : q = [name |-> n, type |-> "file", inode |-> u]
  OBVIOUS
<1>5. PICK z : z = CopiedInode(x, v, u)
  OBVIOUS
<1>6. q \in TreeEntries /\ y = Tree!WithEntry(z, i, q.name, q.type, q.inode) /\ Tree!Found(x, i, q.name) = {}
  <2>1. q.name = n /\ q.type = "file" /\ q.inode = u
    BY <1>4
  <2>2. y = Tree!WithEntry(z, i, n, "file", u)
    BY <1>2, <1>5 DEF SoftLinked
  <2>3. QED  BY <1>4, <2>1, <2>2, EntryTyped
<1>7. /\ z \in Disks /\ z.imap = x.imap \cup {u} /\ z.bmap = x.bmap /\ z.block = x.block
      /\ \A j \in Tree!Inodes \ {u} : z.inode[j] = x.inode[j]
      /\ z.inode[u] = x.inode[v]
  <2>1. u \in Tree!Inodes /\ v \in Tree!Inodes /\ x \in Disks
    BY <1>1, <1>3
  <2>2. /\ CopiedInode(x, v, u) \in Disks /\ CopiedInode(x, v, u).imap = x.imap \cup {u}
        /\ CopiedInode(x, v, u).bmap = x.bmap /\ CopiedInode(x, v, u).block = x.block
        /\ \A j \in Tree!Inodes \ {u} : CopiedInode(x, v, u).inode[j] = x.inode[j]
        /\ CopiedInode(x, v, u).inode[u] = x.inode[v]
    BY <2>1, CopiedIs
  <2>3. QED  BY <1>5, <2>2
<1>8. \A j \in D : SameDir(x, z, j)
  BY <1>1, <1>7, NotTouched
<1>9. /\ Grown(x, y, D, i, q) /\ y \in Disks /\ y.imap = z.imap /\ y.bmap = z.bmap
      /\ \A j \in Tree!Inodes : /\ Tree!BlockOf(y, j) = Tree!BlockOf(z, j)
                                /\ y.inode[j].reference = z.inode[j].reference
      /\ \A l \in Tree!Blocks \ {Tree!BlockOf(x, i)} : y.block[l] = z.block[l]
  BY <1>1, <1>6, <1>7, <1>8, WithEntryGrows
<1>10. PICK p : p = Tree!BlockOf(x, v)
  OBVIOUS
<1>11. p \in x.bmap /\ \A j \in D : Tree!BlockOf(x, j) # p
  BY <1>1, <1>3, <1>10 DEF BlocksMarked, BlocksApart
<1>12. Gains(x, y, u, p) /\ y.imap = x.imap \cup {u}
  <2>1. Tree!BlockOf(y, u) = p
    BY <1>7, <1>9, <1>10 DEF Tree!BlockOf
  <2>2. \A j \in x.imap : Tree!BlockOf(y, j) = Tree!BlockOf(x, j)
    BY <1>1, <1>7, <1>9 DEF Tree!BlockOf
  <2>3. y.bmap = x.bmap \cup {p}
    BY <1>7, <1>9, <1>11
  <2>4. QED  BY <1>7, <1>9, <2>1, <2>2, <2>3 DEF Gains
<1>13. BlocksApart(y, D) /\ BlocksMarked(y)
  BY <1>11, <1>12, OneMoreBlock
<1>14. \A j \in x.imap \ D : j = u \/ x.inode[j].reference <= y.inode[j].reference
  <2>1. \A j \in x.imap \ D : y.inode[j].reference = x.inode[j].reference /\ x.inode[j].reference \in Nat
    <3>1. \A j \in x.imap : j \in Tree!Inodes /\ j # u
      BY <1>1
    <3>2. \A j \in x.imap : y.inode[j].reference = x.inode[j].reference
      BY <1>7, <1>9, <3>1
    <3>3. \A j \in x.imap : x.inode[j].reference \in Nat
      BY <1>1, <3>1, DiskTyped
    <3>4. QED  BY <3>2, <3>3
  <2>2. QED  BY <2>1
<1>15. Cardinality(Naming(Under(x, D), u)) + 1 <= y.inode[u].reference
  <2>1. y.inode[u].reference = x.inode[v].reference
    BY <1>7, <1>9
  <2>2. Cardinality(Naming(Under(x, D), u)) = 0
    BY NobodyNames
  <2>3. QED  BY <1>3, <2>1, <2>2
<1>16. u \in Tree!Inodes \ D
  BY <1>1
<1>17. WholeTree(y, D, r)
  BY <1>4, <1>9, <1>12, <1>13, <1>14, <1>15, <1>16, AddFile
<1>18. QED  BY <1>7, <1>9, <1>17

\* What rmdir may take away: an empty directory, or a file with one name and its own block.
Loose(x, v, t) ==
    \/ t = "dir" /\ x.inode[v].size = 2
    \/ /\ t = "file" /\ x.inode[v].reference = 1
       /\ \A j \in x.imap \ {v} : Tree!BlockOf(x, j) # Tree!BlockOf(x, v)

\* What rmdir may take away has one name and nothing below it.
LEMMA OnlyName ==
    ASSUME NEW x, NEW D, NEW r, WholeTree(x, D, r), NEW w \in Under(x, D), Loose(x, w.to, w.type)
    PROVE  /\ \A z \in Under(x, D) : z.to = w.to => z = w
           /\ w.to \in D => Tree!EntriesOf(x, w.to) = {}
           /\ \A j \in x.imap \ {w.to} : Tree!BlockOf(x, j) # Tree!BlockOf(x, w.to)
           /\ w.to # w.dir /\ w.to \in x.imap
<1> DEFINE A == Under(x, D)
<1>1. /\ Family(A, D, r) /\ Ranked(A, D, r) /\ BlocksApart(x, D) /\ D \subseteq x.imap /\ x.imap = D \cup {z.to : z \in A}
      /\ D \in SUBSET Tree!Inodes /\ r \in [D -> Nat]
  BY DEF WholeTree, Family
<1>2. \A z \in A : /\ z.type \in {"dir", "file"} /\ z.dir \in D
                   /\ z.type = "file" => z.to \notin D
                   /\ z.type = "dir" => z.to \in D /\ r[z.to] = r[z.dir] + 1
  BY <1>1 DEF Family, Ranked
<1>3. CASE w.type = "dir"
  <2>1. w.to \in D /\ x.inode[w.to].size = 2 /\ r[w.to] = r[w.dir] + 1
    BY <1>2, <1>3 DEF Loose
  <2>2. \A z \in A : z.to = w.to => z = w
    BY <1>1, <1>2, <1>3, <2>1 DEF Family
  <2>3. Tree!EntriesOf(x, w.to) = {}
    <3>1. \A k \in Tree!Used(x, w.to) : ~ (k > 1)
      BY <2>1, TreeSizes DEF Tree!Used
    <3>2. QED  BY <3>1, EntryOf
  <2>4. \A j \in x.imap \ {w.to} : Tree!BlockOf(x, j) # Tree!BlockOf(x, w.to)
    BY <1>1, <2>1 DEF BlocksApart
  <2>5. w.to # w.dir
    <3>1. r[w.dir] \in Nat
      BY <1>1, <1>2
    <3>2. r[w.dir] # r[w.dir] + 1
      BY <3>1
    <3>3. QED  BY <2>1, <3>2
  <2>6. QED  BY <1>1, <2>1, <2>2, <2>3, <2>4, <2>5
<1>4. CASE w.type = "file"
  <2>1. /\ x.inode[w.to].reference = 1 /\ w.to \notin D
        /\ \A j \in x.imap \ {w.to} : Tree!BlockOf(x, j) # Tree!BlockOf(x, w.to)
    BY <1>2, <1>4 DEF Loose
  <2>2. /\ IsFiniteSet(Naming(A, w.to)) /\ w \in Naming(A, w.to) /\ Cardinality(Naming(A, w.to)) \in Nat
        /\ Cardinality(Naming(A, w.to)) <= 1 /\ w.to \in x.imap
    BY <1>4, <2>1, NamedFile
  <2>3. Naming(A, w.to) \ {w} = {}
    <3>1. /\ IsFiniteSet(Naming(A, w.to) \ {w})
          /\ Cardinality(Naming(A, w.to) \ {w}) = Cardinality(Naming(A, w.to)) - 1
      BY <2>2, FS_RemoveElement
    <3>2. Cardinality(Naming(A, w.to) \ {w}) \in Nat
      BY <3>1, FS_CardinalityType
    <3>3. Cardinality(Naming(A, w.to) \ {w}) = 0
      BY <2>2, <3>1, <3>2
    <3>4. QED  BY <3>1, <3>3, FS_EmptySet
  <2>4. \A z \in A : z.to = w.to => z = w
    <3>1. \A z \in A : z.to = w.to => z.type = "file"
      BY <1>2, <2>1
    <3>2. QED  BY <2>3, <3>1 DEF Naming
  <2>5. w.to # w.dir
    BY <1>2, <2>1
  <2>6. QED  BY <2>1, <2>2, <2>4, <2>5
<1>5. QED  BY <1>2, <1>3, <1>4

\* What WithoutEntry writes.
LEMMA WithoutEntryIs ==
    ASSUME NEW x \in Disks, NEW i \in Tree!Inodes, NEW k \in Tree!Places, NEW v, v = Tree!EntryAt(x, i, k).inode,
           NEW p, p = Tree!BlockOf(x, v), NEW l, l = Tree!BlockOf(x, i), v # i, p # l, x.inode[i].size \in 3 .. MaxEntries,
           NEW y, y = Tree!WithoutEntry(x, i, k)
    PROVE  /\ y \in Disks /\ y.imap = x.imap \ {v} /\ y.bmap = x.bmap \ {p}
           /\ \A j \in Tree!Inodes \ {v, i} : y.inode[j] = x.inode[j]
           /\ y.inode[i].size = x.inode[i].size - 1 /\ y.inode[i].block = x.inode[i].block
           /\ y.inode[i].reference = x.inode[i].reference
           /\ \A j \in Tree!Blocks \ {p, l} : y.block[j] = x.block[j]
           /\ y.block[l] = Tree!MovedUp(x.block[l], k, x.inode[i].size)
<1>1. /\ x.imap \in SUBSET Tree!Inodes /\ x.bmap \in SUBSET Tree!Blocks
      /\ x.inode \in TreeInodes /\ x.block \in [Tree!Blocks -> DirBlock]
  BY DEF Disks
<1>2. v \in Tree!Inodes /\ p \in Tree!Blocks /\ l \in Tree!Blocks
  BY DiskTyped
<1>3. PICK w, t : w = [j \in Tree!Places |-> Tree!NoEntry] /\ t = Tree!MovedUp(x.block[l], k, x.inode[i].size)
  OBVIOUS
<1>4. w \in DirBlock
  <2>1. Tree!NoEntry \in TreeEntries
    BY TreeSizes DEF Tree!NoEntry, TreeEntries
  <2>2. QED  BY <1>3, <2>1 DEF DirBlock
<1>5. t \in DirBlock
  <2>1. PICK o, s : o = x.block[l] /\ s = x.inode[i].size
    OBVIOUS
  <2>2. o \in DirBlock /\ s \in Nat
    BY <1>1, <1>2, <2>1 DEF TreeInodes
  <2>3. t = [j \in Tree!Places |-> IF j \in k .. s - 2 THEN o[j + 1] ELSE o[j]]
    BY <1>3, <2>1 DEF Tree!MovedUp
  <2>4. ASSUME NEW j \in Tree!Places, j \in k .. s - 2 PROVE j + 1 \in Tree!Places
    <3>1. s \in 3 .. MaxEntries
      BY <2>1
    <3>2. QED  BY <2>4, <3>1, TreeSizes
  <2>5. QED  BY <2>2, <2>3, <2>4 DEF DirBlock
<1>6. /\ y.imap = x.imap \ {v} /\ y.bmap = x.bmap \ {p}
      /\ y.inode = [x.inode EXCEPT ![v] = Tree!NoInode, ![i].size = @ - 1]
      /\ y.block = [x.block EXCEPT ![p] = w, ![l] = Tree!MovedUp(@, k, x.inode[i].size)]
      /\ y = [imap |-> y.imap, bmap |-> y.bmap, inode |-> y.inode, block |-> y.block]
  BY <1>3 DEF Tree!WithoutEntry
<1>7. /\ y.block \in [Tree!Blocks -> DirBlock] /\ y.block[l] = t
      /\ \A j \in Tree!Blocks \ {p, l} : y.block[j] = x.block[j]
  <2>1. y.block = [[x.block EXCEPT ![p] = w] EXCEPT ![l] = t]
    <3>1. [x.block EXCEPT ![p] = w][l] = x.block[l]
      BY <1>1, <1>2
    <3>2. QED  BY <1>3, <1>6, <3>1
  <2>2. QED  BY <1>1, <1>2, <1>4, <1>5, <2>1
<1>8. /\ \A j \in Tree!Inodes \ {v, i} : y.inode[j] = x.inode[j]
      /\ y.inode[i].size = x.inode[i].size - 1 /\ y.inode[i].block = x.inode[i].block
      /\ y.inode[i].reference = x.inode[i].reference
      /\ y.inode \in TreeInodes
  <2>1. Tree!NoInode \in [size : Nat, block : Tree!Blocks, reference : Nat]
    BY TreeSizes DEF Tree!NoInode
  <2>2. x.inode[i].size - 1 \in Nat
    BY TreeSizes
  <2>3. QED  BY <1>1, <1>2, <1>6, <2>1, <2>2 DEF TreeInodes
<1>9. y \in Disks
  <2>1. y.imap \in SUBSET Tree!Inodes /\ y.bmap \in SUBSET Tree!Blocks
    BY <1>1, <1>6
  <2>2. QED  BY <1>6, <1>7, <1>8, <2>1 DEF Disks
<1>10. QED  BY <1>3, <1>6, <1>7, <1>8, <1>9

\* rmdir leaves a whole card, with the user in it.
LEMMA RmdirMakes ==
    ASSUME NEW x, NEW D, NEW r, WholeTree(x, D, r), NEW i \in D, NEW n \in Names, NEW k \in Tree!Found(x, i, n),
           Loose(x, Tree!EntryAt(x, i, k).inode, Tree!EntryAt(x, i, k).type),
           NEW y, y = Tree!WithoutEntry(x, i, k)
    PROVE  /\ y \in Disks
           /\ \E E \in SUBSET Tree!Inodes : \E s : i \in E /\ WholeTree(y, E, s)
           /\ \A l \in Tree!Blocks \ {Tree!BlockOf(x, i), Tree!BlockOf(x, Tree!EntryAt(x, i, k).inode)} :
                  y.block[l] = x.block[l]
<1>1. /\ x \in Disks /\ D \in SUBSET Tree!Inodes /\ D \subseteq x.imap /\ BlocksMarked(x) /\ BlocksApart(x, D)
      /\ Heads(x, D) /\ x.imap \subseteq Tree!Inodes
  BY DiskTyped DEF WholeTree
<1>2. PICK w, v, p, l : /\ w = EntryIn(i, Tree!EntryAt(x, i, k)) /\ v = Tree!EntryAt(x, i, k).inode
                        /\ p = Tree!BlockOf(x, v) /\ l = Tree!BlockOf(x, i)
  OBVIOUS
<1>3. w.dir = i /\ w.to = v /\ w.type = Tree!EntryAt(x, i, k).type
  BY <1>2 DEF EntryIn
<1>4. k > 1 /\ k \in Tree!Used(x, i) /\ w \in Under(x, D)
  <2>1. Tree!EntryAt(x, i, k).name = n
    BY DEF Tree!Found
  <2>2. QED  BY <1>2, <2>1, NamedEntry, FoundOnce DEF EntryIn
<1>5. /\ \A z \in Under(x, D) : z.to = w.to => z = w
      /\ w.to \in D => Tree!EntriesOf(x, w.to) = {}
      /\ \A j \in x.imap \ {v} : Tree!BlockOf(x, j) # p
      /\ v # i /\ v \in x.imap
  <2>1. Loose(x, w.to, w.type)
    BY <1>2, <1>3
  <2>2. QED  BY <1>2, <1>3, <1>4, <2>1, OnlyName
<1>6. p # l
  BY <1>1, <1>2, <1>5
<1>7. PICK m : m = x.inode[i].size
  OBVIOUS
<1>8. m \in 3 .. MaxEntries /\ k \in 2 .. m - 1 /\ k \in Tree!Places
  <2>1. m \in 2 .. MaxEntries
    BY <1>1, <1>7 DEF Heads
  <2>2. k \in Tree!Places /\ k < m /\ k > 1
    BY <1>4, <1>7 DEF Tree!Used
  <2>3. QED  BY <2>1, <2>2, TreeSizes
<1>9. /\ y \in Disks /\ y.imap = x.imap \ {v} /\ y.bmap = x.bmap \ {p}
      /\ \A j \in Tree!Inodes \ {v, i} : y.inode[j] = x.inode[j]
      /\ y.inode[i].size = m - 1 /\ y.inode[i].block = x.inode[i].block
      /\ y.inode[i].reference = x.inode[i].reference
      /\ \A j \in Tree!Blocks \ {p, l} : y.block[j] = x.block[j]
      /\ y.block[l] = Tree!MovedUp(x.block[l], k, m)
  <2>1. i \in Tree!Inodes
    BY <1>1
  <2>2. QED  BY <1>1, <1>2, <1>5, <1>6, <1>7, <1>8, <2>1, WithoutEntryIs
<1>10. PICK E : E = D \ {w.to}
  OBVIOUS
<1>11. i \in E /\ E \subseteq D /\ E \subseteq y.imap /\ E \in SUBSET Tree!Inodes
  BY <1>1, <1>3, <1>5, <1>9, <1>10
<1>12. \A j \in y.imap : /\ Tree!BlockOf(y, j) = Tree!BlockOf(x, j) /\ y.inode[j].reference = x.inode[j].reference
                         /\ j \in x.imap /\ j # v
  BY <1>1, <1>9 DEF Tree!BlockOf
<1>13. Shrunk(x, y, i, k)
  <2>1. Tree!BlockOf(y, i) = l /\ Tree!BlockOf(x, i) = l
    BY <1>2, <1>9 DEF Tree!BlockOf
  <2>2. ASSUME NEW j \in 0 .. m - 2
        PROVE  Tree!EntryAt(y, i, j) = Tree!EntryAt(x, i, IF j < k THEN j ELSE j + 1)
    <3>1. j \in Tree!Places /\ (j \in k .. m - 2 <=> ~ (j < k))
      BY <1>8, TreeSizes
    <3>2. y.block[l][j] = IF j \in k .. m - 2 THEN x.block[l][j + 1] ELSE x.block[l][j]
      BY <1>9, <3>1 DEF Tree!MovedUp
    <3>3. QED  BY <2>1, <3>1, <3>2 DEF Tree!EntryAt
  <2>3. QED  BY <1>7, <1>8, <1>9, <2>1, <2>2 DEF Shrunk
<1>14. ASSUME NEW j \in E \ {i} PROVE SameDir(x, y, j)
  <2>1. j \in D /\ j # i /\ j # v /\ j \in Tree!Inodes /\ j \in x.imap /\ i \in x.imap
    BY <1>1, <1>3, <1>10
  <2>2. Tree!BlockOf(x, j) \in Tree!Blocks \ {p, l}
    BY <1>1, <1>2, <1>5, <2>1, DiskTyped DEF BlocksApart
  <2>3. y.inode[j] = x.inode[j] /\ y.block[Tree!BlockOf(x, j)] = x.block[Tree!BlockOf(x, j)]
    BY <1>9, <2>1, <2>2
  <2>4. QED  BY <2>3 DEF SameDir, Tree!BlockOf, Tree!EntryAt
<1>15. Reduced(x, y, E, i, k)
  BY <1>11, <1>13, <1>14 DEF Reduced
<1>16. BlocksApart(y, E)
  BY <1>1, <1>11, <1>12 DEF BlocksApart
<1>17. BlocksMarked(y)
  <2>1. x.bmap = {Tree!BlockOf(x, j) : j \in x.imap}
    BY <1>1 DEF BlocksMarked
  <2>2. \A z : z \in y.bmap <=> \E j \in y.imap : z = Tree!BlockOf(y, j)
    BY <1>2, <1>5, <1>9, <1>12, <2>1
  <2>3. QED  BY <2>2 DEF BlocksMarked
<1>18. \A j \in y.imap \ E : x.inode[j].reference <= y.inode[j].reference
  <2>1. \A j \in y.imap : x.inode[j].reference \in Nat
    BY <1>1, <1>12, DiskTyped
  <2>2. QED  BY <1>12, <2>1
<1>19. y.imap = x.imap \ {w.to}
  BY <1>3, <1>9
<1>20. \E s : WholeTree(y, E, s)
  BY <1>2, <1>4, <1>5, <1>9, <1>10, <1>15, <1>16, <1>17, <1>18, <1>19, RemoveEntry
<1>21. QED  BY <1>2, <1>9, <1>11, <1>20

\* do_mkfs leaves a whole card, whatever was there.
LEMMA MkfsMakes ==
    ASSUME NEW w \in [Tree!Blocks -> DirBlock], NEW y, y = Tree!Formatted(w)
    PROVE  /\ y \in Disks /\ \E s : WholeTree(y, {Tree!Root}, s)
           /\ \A l \in Tree!Blocks \ {0} : y.block[l] = w[l]
<1>1. PICK u, s : u = Tree!Dentry(w[0], Tree!Root, Tree!Root) /\ s = [j \in {Tree!Root} |-> 0]
  OBVIOUS
<1>2. /\ w[0] \in DirBlock /\ 0 \in Tree!Blocks /\ Tree!Root \in Tree!Inodes
  BY TreeSizes
<1>3. /\ u \in DirBlock /\ u[0] = [name |-> ".", type |-> "dot", inode |-> Tree!Root]
      /\ u[1] = [name |-> "..", type |-> "dotdot", inode |-> Tree!Root]
  BY <1>1, <1>2, DentryIs
<1>4. /\ y.imap = {Tree!Root} /\ y.bmap = {0}
      /\ y.inode = [j \in Tree!Inodes |-> IF j = Tree!Root THEN [Tree!NoInode EXCEPT !.size = 2] ELSE Tree!NoInode]
      /\ y.block = [w EXCEPT ![0] = u]
      /\ y = [imap |-> y.imap, bmap |-> y.bmap, inode |-> y.inode, block |-> y.block]
  BY <1>1 DEF Tree!Formatted
<1>5. /\ y.inode \in TreeInodes /\ y.inode[Tree!Root].size = 2 /\ y.inode[Tree!Root].block = 0
  <2>1. /\ Tree!NoInode \in [size : Nat, block : Tree!Blocks, reference : Nat]
        /\ [Tree!NoInode EXCEPT !.size = 2] \in [size : Nat, block : Tree!Blocks, reference : Nat]
        /\ [Tree!NoInode EXCEPT !.size = 2].size = 2 /\ [Tree!NoInode EXCEPT !.size = 2].block = 0
    BY <1>2 DEF Tree!NoInode
  <2>2. QED  BY <1>2, <1>4, <2>1 DEF TreeInodes
<1>6. y.block \in [Tree!Blocks -> DirBlock] /\ y.block[0] = u /\ \A l \in Tree!Blocks \ {0} : y.block[l] = w[l]
  BY <1>2, <1>3, <1>4
<1>7. y \in Disks
  BY <1>2, <1>4, <1>5, <1>6 DEF Disks
<1>8. Tree!BlockOf(y, Tree!Root) = 0
  BY <1>5 DEF Tree!BlockOf
<1>9. /\ Tree!EntryAt(y, Tree!Root, 0) = [name |-> ".", type |-> "dot", inode |-> Tree!Root]
      /\ Tree!EntryAt(y, Tree!Root, 1) = [name |-> "..", type |-> "dotdot", inode |-> Tree!Root]
  BY <1>3, <1>6, <1>8 DEF Tree!EntryAt
<1>10. Tree!Used(y, Tree!Root) = {0, 1}
  BY <1>5, TreeSizes DEF Tree!Used
<1>11. Under(y, {Tree!Root}) = {}
  <2>1. Tree!EntriesOf(y, Tree!Root) = {}
    BY <1>10 DEF Tree!EntriesOf
  <2>2. QED  BY <2>1 DEF Under
<1>12. s \in [{Tree!Root} -> Nat] /\ s[Tree!Root] = 0
  BY <1>1
<1>13. Family({}, {Tree!Root}, s)
  BY <1>12 DEF Family, Ranked
<1>14. Heads(y, {Tree!Root})
  <2>1. y.inode[Tree!Root].size \in 2 .. MaxEntries
    BY <1>5, TreeSizes
  <2>2. QED  BY <1>9, <2>1 DEF Heads
<1>15. UpLinks(y, {Tree!Root})
  <2>1. Tree!EntryAt(y, Tree!Root, 1).inode = Tree!Root
    BY <1>9
  <2>2. QED  BY <1>11, <2>1 DEF UpLinks
<1>16. NamesApart(y, {Tree!Root})
  <2>1. Tree!EntryAt(y, Tree!Root, 0).name # Tree!EntryAt(y, Tree!Root, 1).name
    BY <1>9
  <2>2. QED  BY <1>10, <2>1 DEF NamesApart
<1>17. BlocksApart(y, {Tree!Root}) /\ BlocksMarked(y)
  BY <1>4, <1>8 DEF BlocksApart, BlocksMarked
<1>18. Linked(y, {Tree!Root})
  BY <1>4, <1>11, FS_EmptySet DEF Linked
<1>19. WholeTree(y, {Tree!Root}, s)
  <2>1. {Tree!Root} \in SUBSET Tree!Inodes
    BY <1>2
  <2>2. QED  BY <1>4, <1>7, <1>11, <1>12, <1>13, <1>14, <1>15, <1>16, <1>17, <1>18, <2>1 DEF WholeTree
<1>20. QED  BY <1>6, <1>7, <1>19

----------------------------------------------------------------------------
(* The writes to the card                                                  *)

Regions == {Tree!Inode, Tree!Imap, Tree!Bmap} \cup {Tree!Block(l) : l \in Tree!Blocks}
Kinds == {"create", "remove", "link", "format"}
TreeOps == [kind : Kinds, mem : Disks, writes : Seq(Regions), before : Disks]

\* Region z is still to be written.
Awaited(w, z) == \E j \in 1 .. Len(w) : w[j] = z

\* What is not to be written any more is on the card.
Pending(x, y, w) ==
    /\ Awaited(w, Tree!Inode) \/ x.inode = y.inode
    /\ Awaited(w, Tree!Imap) \/ x.imap = y.imap
    /\ Awaited(w, Tree!Bmap) \/ x.bmap = y.bmap
    /\ \A l \in Tree!Blocks : Awaited(w, Tree!Block(l)) \/ x.block[l] = y.block[l]

\* The inodes are written once, behind every block.
BlocksBefore(w) ==
    /\ \A j, k \in 1 .. Len(w) : w[j] = Tree!Inode /\ w[k] = Tree!Inode => j = k
    /\ \A j \in 1 .. Len(w) : \A l \in Tree!Blocks :
           w[j] = Tree!Block(l) => \E k \in j .. Len(w) : w[k] = Tree!Inode

\* While something is made, the blocks on the card hold all that the old inodes lead to.
Creating(x, z, y, w) ==
    /\ \E D, r : WholeTree(z, D, r) /\ Keeps(z, y, D)
    /\ \A l \in Tree!Blocks : x.block[l] \in {z.block[l], y.block[l]}
    /\ Awaited(w, Tree!Inode) => x.inode = z.inode
    /\ BlocksBefore(w)

\* The user stands in a directory of a whole tree.
Standing(x, m) == \E D, r : WholeTree(x, D, r) /\ m \in D

Working(x, o, m) ==
    /\ o \in TreeOps /\ o.writes # <<>>
    /\ Pending(x, o.mem, o.writes) /\ Standing(o.mem, m)
    /\ o.kind = "create" => Creating(x, o.before, o.mem, o.writes)

\* The inductive invariant of the directory tree.
TreeInv ==
    /\ a \in Disks
    /\ Tree!Whole => Standing(a, c)
    /\ ~ Tree!Quiet => ~ d /\ Working(a, b, c)

\* The regions are told apart.
LEMMA RegionsApart ==
    /\ Tree!Inode # Tree!Imap /\ Tree!Inode # Tree!Bmap /\ Tree!Imap # Tree!Bmap
    /\ \A l : Tree!Block(l) # Tree!Inode /\ Tree!Block(l) # Tree!Imap /\ Tree!Block(l) # Tree!Bmap
    /\ \A l, m : Tree!Block(l) = Tree!Block(m) => l = m
    /\ \A l : Tree!Block(l)[2] = l
BY DEF Tree!Inode, Tree!Imap, Tree!Bmap, Tree!Block

\* What one write to the card changes.
LEMMA WrittenIs ==
    ASSUME a \in Disks, b \in TreeOps, NEW z \in Regions, NEW y, y = Tree!Written(z)
    PROVE  /\ y \in Disks
           /\ y.inode = IF z = Tree!Inode THEN b.mem.inode ELSE a.inode
           /\ y.imap = IF z = Tree!Imap THEN b.mem.imap ELSE a.imap
           /\ y.bmap = IF z = Tree!Bmap THEN b.mem.bmap ELSE a.bmap
           /\ \A l \in Tree!Blocks : y.block[l] = IF z = Tree!Block(l) THEN b.mem.block[l] ELSE a.block[l]
<1>1. PICK m : m = b.mem
  OBVIOUS
<1>2. m \in Disks
  BY <1>1 DEF TreeOps
<1>3. CASE z = Tree!Inode
  <2>1. y = [a EXCEPT !.inode = m.inode]
    BY <1>1, <1>3, RegionsApart DEF Tree!Written
  <2>2. y \in Disks /\ y.inode = m.inode /\ y.imap = a.imap /\ y.bmap = a.bmap /\ y.block = a.block
    BY <1>2, <2>1 DEF Disks
  <2>3. QED  BY <1>1, <1>3, <2>2, RegionsApart
<1>4. CASE z = Tree!Imap
  <2>1. y = [a EXCEPT !.imap = m.imap]
    BY <1>1, <1>4, RegionsApart DEF Tree!Written
  <2>2. y \in Disks /\ y.inode = a.inode /\ y.imap = m.imap /\ y.bmap = a.bmap /\ y.block = a.block
    BY <1>2, <2>1 DEF Disks
  <2>3. QED  BY <1>1, <1>4, <2>2, RegionsApart
<1>5. CASE z = Tree!Bmap
  <2>1. y = [a EXCEPT !.bmap = m.bmap]
    BY <1>1, <1>5, RegionsApart DEF Tree!Written
  <2>2. y \in Disks /\ y.inode = a.inode /\ y.imap = a.imap /\ y.bmap = m.bmap /\ y.block = a.block
    BY <1>2, <2>1 DEF Disks
  <2>3. QED  BY <1>1, <1>5, <2>2, RegionsApart
<1>6. ASSUME NEW p \in Tree!Blocks, z = Tree!Block(p)
      PROVE  /\ y \in Disks /\ y.inode = a.inode /\ y.imap = a.imap /\ y.bmap = a.bmap
             /\ y.block[p] = m.block[p] /\ \A l \in Tree!Blocks \ {p} : y.block[l] = a.block[l]
  <2>1. z[2] = p /\ z # Tree!Inode /\ z # Tree!Imap /\ z # Tree!Bmap
    BY <1>6, RegionsApart
  <2>2. PICK u : u = m.block[p]
    OBVIOUS
  <2>3. y = [a EXCEPT !.block[p] = u]
    BY <1>1, <2>1, <2>2 DEF Tree!Written
  <2>4. u \in DirBlock
    BY <1>2, <2>2 DEF Disks
  <2>5. QED  BY <2>2, <2>3, <2>4 DEF Disks
<1>7. CASE \E p \in Tree!Blocks : z = Tree!Block(p)
  <2>1. PICK p \in Tree!Blocks : z = Tree!Block(p)
    BY <1>7
  <2>2. /\ y \in Disks /\ y.inode = a.inode /\ y.imap = a.imap /\ y.bmap = a.bmap
        /\ y.block[p] = m.block[p] /\ \A l \in Tree!Blocks \ {p} : y.block[l] = a.block[l]
    BY <1>6, <2>1
  <2>3. z # Tree!Inode /\ z # Tree!Imap /\ z # Tree!Bmap /\ \A l : z = Tree!Block(l) <=> l = p
    BY <2>1, RegionsApart
  <2>4. QED  BY <1>1, <2>2, <2>3
<1>8. QED  BY <1>3, <1>4, <1>5, <1>7 DEF Regions

\* The first write of a list, and those behind it.
LEMMA TailAwaits ==
    ASSUME NEW w \in Seq(Regions), w # <<>>
    PROVE  /\ Head(w) \in Regions /\ Head(w) = w[1] /\ Tail(w) \in Seq(Regions) /\ Len(w) \in Nat /\ Len(w) >= 1
           /\ Len(Tail(w)) = Len(w) - 1 /\ \A j \in 1 .. Len(Tail(w)) : Tail(w)[j] = w[j + 1]
           /\ \A z : Awaited(w, z) <=> z = Head(w) \/ Awaited(Tail(w), z)
           /\ Len(w) = 1 => Tail(w) = <<>>
           /\ Len(w) # 1 => Tail(w) # <<>>
<1>1. /\ Head(w) \in Regions /\ Head(w) = w[1] /\ Tail(w) \in Seq(Regions) /\ Len(w) \in Nat /\ Len(w) >= 1
      /\ Len(Tail(w)) = Len(w) - 1 /\ \A j \in 1 .. Len(Tail(w)) : Tail(w)[j] = w[j + 1]
  BY HeadTailProperties, EmptySeq
<1>2. ASSUME NEW z, Awaited(w, z) PROVE z = Head(w) \/ Awaited(Tail(w), z)
  <2>1. PICK j \in 1 .. Len(w) : w[j] = z
    BY <1>2 DEF Awaited
  <2>2. CASE j = 1
    BY <1>1, <2>1, <2>2
  <2>3. CASE j # 1
    <3>1. j - 1 \in 1 .. Len(Tail(w)) /\ (j - 1) + 1 = j
      BY <1>1, <2>3
    <3>2. Tail(w)[j - 1] = z
      BY <1>1, <2>1, <3>1
    <3>3. QED  BY <3>1, <3>2 DEF Awaited
  <2>4. QED  BY <2>2, <2>3
<1>3. ASSUME NEW z, z = Head(w) \/ Awaited(Tail(w), z) PROVE Awaited(w, z)
  <2>1. CASE z = Head(w)
    <3>1. 1 \in 1 .. Len(w)
      BY <1>1
    <3>2. QED  BY <1>1, <2>1, <3>1 DEF Awaited
  <2>2. CASE Awaited(Tail(w), z)
    <3>1. PICK j \in 1 .. Len(Tail(w)) : Tail(w)[j] = z
      BY <2>2 DEF Awaited
    <3>2. j + 1 \in 1 .. Len(w)
      BY <1>1
    <3>3. QED  BY <1>1, <3>1, <3>2 DEF Awaited
  <2>3. QED  BY <1>3, <2>1, <2>2
<1>4. /\ Len(w) = 1 => Tail(w) = <<>>
      /\ Len(w) # 1 => Tail(w) # <<>>
  <2>1. Len(Tail(w)) = 0 <=> Len(w) = 1
    BY <1>1
  <2>2. QED  BY <1>1, <2>1, EmptySeq
<1>5. QED  BY <1>1, <1>2, <1>3, <1>4

\* What the order of the writes leaves for those behind the first.
LEMMA TailBlocksBefore ==
    ASSUME NEW w \in Seq(Regions), w # <<>>, BlocksBefore(w)
    PROVE  BlocksBefore(Tail(w)) /\ (Awaited(Tail(w), Tree!Inode) => Head(w) # Tree!Inode)
<1>1. PICK s, n : s = Tail(w) /\ n = Len(s)
  OBVIOUS
<1>2. n \in Nat /\ Len(w) = n + 1 /\ \A j \in 1 .. n : s[j] = w[j + 1]
  <2>1. Len(w) \in Nat /\ Len(w) >= 1 /\ n = Len(w) - 1
    BY <1>1, TailAwaits
  <2>2. QED  BY <1>1, <2>1, TailAwaits
<1>3. \A j \in 1 .. n : j + 1 \in 1 .. Len(w) /\ j + 1 # 1
  BY <1>2
<1>4. \A j, k \in 1 .. n : s[j] = Tree!Inode /\ s[k] = Tree!Inode => j = k
  <2>1. \A j, k \in 1 .. n : s[j] = Tree!Inode /\ s[k] = Tree!Inode => j + 1 = k + 1
    BY <1>2, <1>3 DEF BlocksBefore
  <2>2. QED  BY <1>2, <2>1
<1>5. ASSUME NEW j \in 1 .. n, NEW l \in Tree!Blocks, s[j] = Tree!Block(l)
      PROVE  \E k \in j .. n : s[k] = Tree!Inode
  <2>1. PICK k \in j + 1 .. Len(w) : w[k] = Tree!Inode
    BY <1>2, <1>3, <1>5 DEF BlocksBefore
  <2>2. k - 1 \in j .. n /\ k - 1 \in 1 .. n /\ (k - 1) + 1 = k
    BY <1>2
  <2>3. QED  BY <1>2, <2>1, <2>2
<1>6. ASSUME Awaited(s, Tree!Inode) PROVE Head(w) # Tree!Inode
  <2>1. PICK j \in 1 .. n : s[j] = Tree!Inode
    BY <1>1, <1>6 DEF Awaited
  <2>2. w[j + 1] = Tree!Inode /\ 1 \in 1 .. Len(w) /\ Head(w) = w[1]
    BY <1>2, <2>1, TailAwaits
  <2>3. QED  BY <1>3, <2>2 DEF BlocksBefore
<1>7. QED  BY <1>1, <1>4, <1>5, <1>6 DEF BlocksBefore

\* Cards that agree in every region are one.
LEMMA DisksSame ==
    ASSUME NEW x \in Disks, NEW y \in Disks, x.inode = y.inode, x.imap = y.imap, x.bmap = y.bmap,
           \A l \in Tree!Blocks : x.block[l] = y.block[l]
    PROVE  x = y
<1>1. x.block = y.block
  BY DEF Disks
<1>2. QED  BY <1>1 DEF Disks

\* A region that is written is as in memory, and is not awaited any more.
LEMMA WriteDone ==
    ASSUME a \in Disks, b \in TreeOps, NEW w, w = b.writes, w # <<>>, Pending(a, b.mem, w),
           NEW y, y = Tree!Written(Head(w))
    PROVE  Pending(y, b.mem, Tail(w))
<1>1. PICK z, s, m : z = Head(w) /\ s = Tail(w) /\ m = b.mem
  OBVIOUS
<1>2. z \in Regions /\ \A u : Awaited(w, u) <=> u = z \/ Awaited(s, u)
  <2>1. w \in Seq(Regions)
    BY DEF TreeOps
  <2>2. QED  BY <1>1, <2>1, TailAwaits
<1>3. /\ y.inode = IF z = Tree!Inode THEN m.inode ELSE a.inode
      /\ y.imap = IF z = Tree!Imap THEN m.imap ELSE a.imap
      /\ y.bmap = IF z = Tree!Bmap THEN m.bmap ELSE a.bmap
      /\ \A l \in Tree!Blocks : y.block[l] = IF z = Tree!Block(l) THEN m.block[l] ELSE a.block[l]
  BY <1>1, <1>2, WrittenIs
<1>4. Pending(a, m, w)
  BY <1>1
<1>5. Pending(y, m, s)
  BY <1>2, <1>3, <1>4 DEF Pending
<1>6. QED  BY <1>1, <1>5

\* A write of mkdir or touch leaves what the old inodes lead to.
LEMMA WriteCreating ==
    ASSUME a \in Disks, b \in TreeOps, NEW w, w = b.writes, w # <<>>, Creating(a, b.before, b.mem, w),
           NEW y, y = Tree!Written(Head(w))
    PROVE  Creating(y, b.before, b.mem, Tail(w))
<1>1. PICK z, s, m, u : z = Head(w) /\ s = Tail(w) /\ m = b.mem /\ u = b.before
  OBVIOUS
<1>2. z \in Regions /\ w \in Seq(Regions) /\ (Awaited(s, Tree!Inode) => Awaited(w, Tree!Inode))
  <2>1. w \in Seq(Regions)
    BY DEF TreeOps
  <2>2. QED  BY <1>1, <2>1, TailAwaits
<1>3. /\ y.inode = IF z = Tree!Inode THEN m.inode ELSE a.inode
      /\ \A l \in Tree!Blocks : y.block[l] = IF z = Tree!Block(l) THEN m.block[l] ELSE a.block[l]
  BY <1>1, <1>2, WrittenIs
<1>4. Creating(a, u, m, w)
  BY <1>1
<1>5. BlocksBefore(s) /\ (Awaited(s, Tree!Inode) => z # Tree!Inode)
  BY <1>1, <1>2, <1>4, TailBlocksBefore DEF Creating
<1>6. Awaited(s, Tree!Inode) => y.inode = u.inode
  BY <1>2, <1>3, <1>4, <1>5 DEF Creating
<1>7. \A l \in Tree!Blocks : y.block[l] \in {u.block[l], m.block[l]}
  BY <1>3, <1>4 DEF Creating
<1>8. Creating(y, u, m, s)
  BY <1>4, <1>5, <1>6, <1>7 DEF Creating
<1>9. QED  BY <1>1, <1>8

\* Write, the last one too.
LEMMA CardWritten ==
    ASSUME TreeInv, Tree!Write
    PROVE  TreeInv'
<1>1. /\ ~ Tree!Quiet /\ a' = Tree!Written(Head(b.writes)) /\ c' = c /\ d' = d
      /\ b' = IF Len(b.writes) = 1 THEN Tree!Idle ELSE [b EXCEPT !.writes = Tail(@)]
  BY DEF Tree!Write
<1>2. a \in Disks /\ ~ d /\ Working(a, b, c)
  BY <1>1 DEF TreeInv
<1>3. b \in TreeOps /\ b.kind # "none"
  BY <1>1, <1>2 DEF Working, Tree!Quiet
<1>4. PICK m, w, y, s : m = b.mem /\ w = b.writes /\ y = Tree!Written(Head(w)) /\ s = Tail(w)
  OBVIOUS
<1>5. /\ w # <<>> /\ Pending(a, m, w) /\ Standing(m, c)
      /\ b.kind = "create" => Creating(a, b.before, m, w)
  BY <1>2, <1>4 DEF Working
<1>6. m \in Disks /\ w \in Seq(Regions)
  BY <1>3, <1>4 DEF TreeOps
<1>7. y \in Disks
  <2>1. Head(w) \in Regions
    BY <1>5, <1>6, TailAwaits
  <2>2. QED  BY <1>2, <1>3, <1>4, <2>1, WrittenIs
<1>8. Pending(y, m, s)
  BY <1>2, <1>3, <1>4, <1>5, WriteDone
<1>9. CASE Len(w) = 1
  <2>1. s = <<>>
    BY <1>4, <1>5, <1>6, <1>9, TailAwaits
  <2>2. \A u : ~ Awaited(s, u)
    BY <2>1 DEF Awaited
  <2>3. y = m
    BY <1>6, <1>7, <1>8, <2>2, DisksSame DEF Pending
  <2>4. a' \in Disks /\ Standing(a', c')
    BY <1>1, <1>4, <1>5, <1>7, <2>3
  <2>5. b'.kind = "none"
    BY <1>1, <1>4, <1>9 DEF Tree!Idle
  <2>6. QED  BY <2>4, <2>5 DEF TreeInv, Tree!Quiet
<1>10. CASE Len(w) # 1
  <2>1. b' = [b EXCEPT !.writes = s]
    BY <1>1, <1>4, <1>10
  <2>2. s # <<>> /\ s \in Seq(Regions)
    BY <1>4, <1>5, <1>6, <1>10, TailAwaits
  <2>3. /\ b' \in TreeOps /\ b'.kind = b.kind /\ b'.mem = m /\ b'.before = b.before /\ b'.writes = s
    BY <1>3, <1>4, <2>1, <2>2 DEF TreeOps
  <2>4. b.kind = "create" => Creating(y, b.before, m, s)
    BY <1>2, <1>3, <1>4, <1>5, WriteCreating
  <2>5. Working(y, b', c)
    BY <1>5, <1>8, <2>2, <2>3, <2>4 DEF Working
  <2>6. a' = y /\ c' = c /\ ~ d'
    BY <1>1, <1>2, <1>4
  <2>7. b'.kind # "none"
    BY <1>3, <2>3
  <2>8. QED  BY <1>7, <2>5, <2>6, <2>7 DEF TreeInv, Tree!Quiet, Tree!Whole
<1>11. QED  BY <1>9, <1>10

\* PowerFails.
LEMMA PowerKeeps ==
    ASSUME TreeInv, Tree!PowerFails
    PROVE  TreeInv'
<1>1. a' = a /\ b' = Tree!Idle /\ d'
  BY DEF Tree!PowerFails
<1>2. b'.kind = "none"
  BY <1>1 DEF Tree!Idle
<1>3. QED  BY <1>1, <1>2 DEF TreeInv, Tree!Quiet, Tree!Whole

----------------------------------------------------------------------------
(* What an operation begins with                                           *)

\* An operation that begins with a whole card in memory.
LEMMA TreeBegun ==
    ASSUME TreeInv, NEW t \in Kinds, NEW y \in Disks, NEW w \in Seq(Regions), w # <<>>, Tree!Begin(t, y, w),
           Pending(a, y, w), Standing(y, c'), t = "create" => Creating(a, a, y, w)
    PROVE  TreeInv'
<1>1. a \in Disks /\ a' = a /\ ~ d' /\ b' = [kind |-> t, mem |-> y, writes |-> w, before |-> a]
  BY DEF TreeInv, Tree!Begin
<1>2. b' \in TreeOps /\ b'.kind = t /\ b'.mem = y /\ b'.writes = w /\ b'.before = a
  BY <1>1 DEF TreeOps
<1>3. Working(a, b', c')
  BY <1>2 DEF Working
<1>4. b'.kind # "none"
  BY <1>2 DEF Kinds
<1>5. QED  BY <1>1, <1>3, <1>4 DEF TreeInv, Tree!Quiet, Tree!Whole

\* The lists of writes.
Maps == <<Tree!Inode, Tree!Imap, Tree!Bmap>>
\* What BlocksFirst writes, and in which order.
LEMMA BlocksFirstIs ==
    ASSUME NEW s \in Seq({Tree!Block(l) : l \in Tree!Blocks}), NEW w, w = Tree!BlocksFirst(s)
    PROVE  /\ w \in Seq(Regions) /\ w # <<>> /\ BlocksBefore(w)
           /\ Awaited(w, Tree!Inode) /\ Awaited(w, Tree!Imap) /\ Awaited(w, Tree!Bmap)
           /\ \A j \in 1 .. Len(s) : Awaited(w, s[j])
<1>1. PICK t, n : t = Maps /\ n = Len(s)
  OBVIOUS
<1>2. t \in Seq(Regions) /\ Len(t) = 3 /\ t[1] = Tree!Inode /\ t[2] = Tree!Imap /\ t[3] = Tree!Bmap
  BY <1>1 DEF Maps, Regions
<1>3. s \in Seq(Regions) /\ n \in Nat /\ \A j \in 1 .. n : \E l \in Tree!Blocks : s[j] = Tree!Block(l)
  <2>1. n \in Nat /\ \A j \in 1 .. n : s[j] \in {Tree!Block(l) : l \in Tree!Blocks}
    BY <1>1, ElementOfSeq, LenProperties
  <2>2. \A j \in 1 .. n : s[j] \in Regions
    BY <2>1 DEF Regions
  <2>3. QED  BY <1>1, <2>1, <2>2 DEF Regions
<1>4. w = s \o t
  BY <1>1 DEF Tree!BlocksFirst, Maps
<1>5. /\ w \in Seq(Regions) /\ Len(w) = n + 3
      /\ \A j \in 1 .. n : w[j] = s[j]
      /\ w[n + 1] = Tree!Inode /\ w[n + 2] = Tree!Imap /\ w[n + 3] = Tree!Bmap
  <2>1. /\ w \in Seq(Regions) /\ Len(w) = n + 3
        /\ \A j \in 1 .. n + 3 : w[j] = IF j <= n THEN s[j] ELSE t[j - n]
    <3>1. s \in Seq(Regions) /\ t \in Seq(Regions)
      BY <1>2, <1>3
    <3>2. /\ s \o t \in Seq(Regions) /\ Len(s \o t) = Len(s) + Len(t)
          /\ \A j \in 1 .. Len(s) + Len(t) : (s \o t)[j] = IF j <= Len(s) THEN s[j] ELSE t[j - Len(s)]
      BY <3>1, ConcatProperties
    <3>3. Len(s) = n /\ Len(t) = 3
      BY <1>1, <1>2
    <3>4. QED  BY <1>4, <3>2, <3>3
  <2>2. /\ n + 1 \in 1 .. n + 3 /\ n + 2 \in 1 .. n + 3 /\ n + 3 \in 1 .. n + 3
        /\ ~ (n + 1 <= n) /\ ~ (n + 2 <= n) /\ ~ (n + 3 <= n)
        /\ (n + 1) - n = 1 /\ (n + 2) - n = 2 /\ (n + 3) - n = 3
        /\ \A j \in 1 .. n : j \in 1 .. n + 3 /\ j <= n
    BY <1>3
  <2>3. QED  BY <1>2, <2>1, <2>2
<1>6. n + 1 \in 1 .. Len(w) /\ n + 2 \in 1 .. Len(w) /\ n + 3 \in 1 .. Len(w) /\ \A j \in 1 .. n : j \in 1 .. Len(w)
  BY <1>3, <1>5
<1>7. /\ Awaited(w, Tree!Inode) /\ Awaited(w, Tree!Imap) /\ Awaited(w, Tree!Bmap)
      /\ \A j \in 1 .. n : Awaited(w, s[j])
  BY <1>5, <1>6 DEF Awaited
<1>8. w # <<>>
  BY <1>6, EmptySeq
<1>9. \A j \in 1 .. Len(w) : j \in 1 .. n \/ j = n + 1 \/ j = n + 2 \/ j = n + 3
  BY <1>3, <1>5
<1>10. \A j \in 1 .. Len(w) : w[j] = Tree!Inode => j = n + 1
  BY <1>3, <1>5, <1>9, RegionsApart
<1>11. ASSUME NEW j \in 1 .. Len(w), NEW l \in Tree!Blocks, w[j] = Tree!Block(l)
       PROVE  \E k \in j .. Len(w) : w[k] = Tree!Inode
  <2>1. j \in 1 .. n
    BY <1>5, <1>9, <1>11, RegionsApart
  <2>2. n + 1 \in j .. Len(w)
    BY <1>3, <1>5, <2>1
  <2>3. QED  BY <1>5, <2>2
<1>12. BlocksBefore(w)
  BY <1>10, <1>11 DEF BlocksBefore
<1>13. QED  BY <1>1, <1>5, <1>7, <1>8, <1>12

\* Between operations the user stands in a whole tree.
LEMMA Standpoint ==
    ASSUME TreeInv, Tree!Quiet, ~ d
    PROVE  a \in Disks /\ \E D, r : WholeTree(a, D, r) /\ c \in D
BY DEF TreeInv, Tree!Whole, Standing

\* What is made is written blocks first, and what was there stays.
LEMMA MakingBegun ==
    ASSUME TreeInv, NEW D, NEW r, WholeTree(a, D, r), NEW y \in Disks, Keeps(a, y, D), Standing(y, c'),
           NEW s \in Seq({Tree!Block(l) : l \in Tree!Blocks}), Tree!Begin("create", y, Tree!BlocksFirst(s)),
           \A l \in Tree!Blocks : Awaited(Tree!BlocksFirst(s), Tree!Block(l)) \/ a.block[l] = y.block[l]
    PROVE  TreeInv'
<1>1. PICK w : w = Tree!BlocksFirst(s)
  OBVIOUS
<1>2. /\ w \in Seq(Regions) /\ w # <<>> /\ BlocksBefore(w)
      /\ Awaited(w, Tree!Inode) /\ Awaited(w, Tree!Imap) /\ Awaited(w, Tree!Bmap)
  BY <1>1, BlocksFirstIs
<1>3. Pending(a, y, w)
  BY <1>1, <1>2 DEF Pending
<1>4. Creating(a, a, y, w)
  BY <1>2 DEF Creating
<1>5. "create" \in Kinds
  BY DEF Kinds
<1>6. Tree!Begin("create", y, w)
  BY <1>1
<1>7. QED  BY <1>2, <1>3, <1>4, <1>5, <1>6, TreeBegun

\* do_touch.
LEMMA TouchKeepsTree ==
    ASSUME TreeInv, NEW n \in Names, Tree!do_touch(n)
    PROVE  TreeInv'
<1>1. PICK v, p, l : /\ v = Tree!FirstFree(Tree!Inodes, a.imap) /\ p = Tree!FirstFree(Tree!Blocks, a.bmap)
                     /\ l = Tree!BlockOf(a, c)
  OBVIOUS
<1>2. PICK y, s : y = Touched(a, c, n, v, p) /\ s = <<Tree!Block(l)>>
  OBVIOUS
<1>3. /\ ~ d /\ a.imap # Tree!Inodes /\ a.bmap # Tree!Blocks /\ a.inode[c].size < MaxEntries
      /\ Tree!Found(a, c, n) = {} /\ c' = c
      /\ Tree!Begin("create", y, Tree!BlocksFirst(s))
  BY <1>1, <1>2 DEF Tree!do_touch, Tree!HasRoom, Tree!Fresh, Touched
<1>4. a \in Disks /\ Tree!Quiet
  BY <1>3 DEF TreeInv, Tree!Begin
<1>5. PICK D, r : WholeTree(a, D, r) /\ c \in D
  BY <1>3, <1>4, Standpoint
<1>6. v \in Tree!Inodes \ a.imap /\ p \in Tree!Blocks \ a.bmap
  BY <1>1, <1>3, <1>4, FreeFound
<1>7. /\ y \in Disks /\ WholeTree(y, D, r) /\ Keeps(a, y, D)
      /\ \A k \in Tree!Blocks \ {l} : y.block[k] = a.block[k]
  BY <1>1, <1>2, <1>3, <1>5, <1>6, TouchMakes
<1>8. l \in Tree!Blocks
  BY <1>1, <1>4, <1>5, DiskTyped DEF WholeTree
<1>9. s \in Seq({Tree!Block(k) : k \in Tree!Blocks}) /\ Len(s) = 1 /\ s[1] = Tree!Block(l)
  BY <1>2, <1>8
<1>10. Awaited(Tree!BlocksFirst(s), Tree!Block(l))
  BY <1>9, BlocksFirstIs
<1>11. Standing(y, c')
  BY <1>3, <1>5, <1>7 DEF Standing
<1>12. \A k \in Tree!Blocks : Awaited(Tree!BlocksFirst(s), Tree!Block(k)) \/ a.block[k] = y.block[k]
  BY <1>7, <1>10
<1>13. QED  BY <1>3, <1>5, <1>7, <1>9, <1>11, <1>12, MakingBegun

\* mkdir.
LEMMA MkdirKeepsTree ==
    ASSUME TreeInv, NEW n \in Names, Tree!mkdir(n)
    PROVE  TreeInv'
<1>1. PICK v, p, l : /\ v = Tree!FirstFree(Tree!Inodes, a.imap) /\ p = Tree!FirstFree(Tree!Blocks, a.bmap)
                     /\ l = Tree!BlockOf(a, c)
  OBVIOUS
<1>2. PICK y, s : y = Founded(a, c, n, v, p) /\ s = <<Tree!Block(p), Tree!Block(l)>>
  OBVIOUS
<1>3. /\ ~ d /\ a.imap # Tree!Inodes /\ a.bmap # Tree!Blocks /\ a.inode[c].size < MaxEntries
      /\ Tree!Found(a, c, n) = {} /\ c' = c
      /\ Tree!Begin("create", y, Tree!BlocksFirst(s))
  BY <1>1, <1>2 DEF Tree!mkdir, Tree!HasRoom, Tree!Fresh, Founded
<1>4. a \in Disks /\ Tree!Quiet
  BY <1>3 DEF TreeInv, Tree!Begin
<1>5. PICK D, r : WholeTree(a, D, r) /\ c \in D
  BY <1>3, <1>4, Standpoint
<1>6. v \in Tree!Inodes \ a.imap /\ p \in Tree!Blocks \ a.bmap
  BY <1>1, <1>3, <1>4, FreeFound
<1>7. /\ y \in Disks /\ Keeps(a, y, D)
      /\ \E E \in SUBSET Tree!Inodes : \E q : D \subseteq E /\ WholeTree(y, E, q)
      /\ \A k \in Tree!Blocks \ {l, p} : y.block[k] = a.block[k]
  BY <1>1, <1>2, <1>3, <1>5, <1>6, MkdirMakes
<1>8. l \in Tree!Blocks
  BY <1>1, <1>4, <1>5, DiskTyped DEF WholeTree
<1>9. /\ s \in Seq({Tree!Block(k) : k \in Tree!Blocks})
      /\ Len(s) = 2 /\ s[1] = Tree!Block(p) /\ s[2] = Tree!Block(l)
  BY <1>2, <1>6, <1>8
<1>10. Awaited(Tree!BlocksFirst(s), Tree!Block(l)) /\ Awaited(Tree!BlocksFirst(s), Tree!Block(p))
  <2>1. \A j \in 1 .. Len(s) : Awaited(Tree!BlocksFirst(s), s[j])
    BY <1>9, BlocksFirstIs
  <2>2. 1 \in 1 .. Len(s) /\ 2 \in 1 .. Len(s)
    BY <1>9
  <2>3. QED  BY <1>9, <2>1, <2>2
<1>11. Standing(y, c')
  BY <1>3, <1>5, <1>7 DEF Standing
<1>12. \A k \in Tree!Blocks : Awaited(Tree!BlocksFirst(s), Tree!Block(k)) \/ a.block[k] = y.block[k]
  BY <1>7, <1>10
<1>13. QED  BY <1>3, <1>5, <1>7, <1>9, <1>11, <1>12, MakingBegun

\* rmdir, for a name that is there and for one that is not.
LEMMA RmdirKeepsTree ==
    ASSUME TreeInv, NEW n \in Names, Tree!rmdir(n)
    PROVE  TreeInv'
<1>1. ~ d /\ c' = c
  BY DEF Tree!rmdir
<1>2. a \in Disks /\ Tree!Quiet
  BY DEF TreeInv, Tree!rmdir, Tree!Begin
<1>3. PICK D, r : WholeTree(a, D, r) /\ c \in D
  BY <1>1, <1>2, Standpoint
<1>4. "remove" \in Kinds /\ "remove" # "create"
  BY DEF Kinds
<1>5. CASE Tree!Fresh(c, n)
  <2>1. PICK w : w = Maps
    OBVIOUS
  <2>2. w \in Seq(Regions) /\ w # <<>>
    BY <2>1 DEF Maps, Regions
  <2>3. Tree!Begin("remove", a, w)
    BY <1>5, <2>1 DEF Tree!rmdir, Maps
  <2>4. Pending(a, a, w)
    BY DEF Pending
  <2>5. Standing(a, c')
    BY <1>1, <1>3 DEF Standing
  <2>6. QED  BY <1>2, <1>4, <2>2, <2>3, <2>4, <2>5, TreeBegun
<1>6. CASE ~ Tree!Fresh(c, n)
  <2>1. PICK k \in Tree!Found(a, c, n) : TRUE
    BY <1>6 DEF Tree!Fresh
  <2>2. Tree!Lowest(Tree!Found(a, c, n)) = k
    BY <1>3, FoundOnce
  <2>3. PICK z, y, l, p : /\ z = Tree!EntryAt(a, c, k) /\ y = Tree!WithoutEntry(a, c, k)
                          /\ l = Tree!BlockOf(a, c) /\ p = Tree!BlockOf(a, z.inode)
    OBVIOUS
  <2>4. PICK s : s = <<Tree!Block(p), Tree!Block(l)>>
    OBVIOUS
  <2>5. Tree!Removable(z) /\ Tree!Begin("remove", y, Tree!BlocksFirst(s))
    BY <1>6, <2>2, <2>3, <2>4 DEF Tree!rmdir
  <2>6. Loose(a, z.inode, z.type)
    BY <2>5 DEF Tree!Removable, Loose
  <2>7. /\ y \in Disks
        /\ \E E \in SUBSET Tree!Inodes : \E q : c \in E /\ WholeTree(y, E, q)
        /\ \A j \in Tree!Blocks \ {l, p} : y.block[j] = a.block[j]
    BY <1>3, <2>1, <2>3, <2>6, RmdirMakes
  <2>8. l \in Tree!Blocks /\ p \in Tree!Blocks
    <3>1. c \in Tree!Inodes /\ k \in Tree!Places
      BY <1>2, <1>3, <2>1, DiskTyped DEF WholeTree, Tree!Found
    <3>2. z.inode \in Tree!Inodes
      BY <1>2, <2>3, <3>1, DiskTyped
    <3>3. QED  BY <1>2, <2>3, <3>1, <3>2, DiskTyped
  <2>9. /\ s \in Seq({Tree!Block(j) : j \in Tree!Blocks})
        /\ Len(s) = 2 /\ s[1] = Tree!Block(p) /\ s[2] = Tree!Block(l)
    BY <2>4, <2>8
  <2>10. PICK w : w = Tree!BlocksFirst(s)
    OBVIOUS
  <2>11. /\ w \in Seq(Regions) /\ w # <<>>
         /\ Awaited(w, Tree!Inode) /\ Awaited(w, Tree!Imap) /\ Awaited(w, Tree!Bmap)
         /\ Awaited(w, Tree!Block(p)) /\ Awaited(w, Tree!Block(l))
    <3>1. /\ w \in Seq(Regions) /\ w # <<>>
          /\ Awaited(w, Tree!Inode) /\ Awaited(w, Tree!Imap) /\ Awaited(w, Tree!Bmap)
          /\ \A j \in 1 .. Len(s) : Awaited(w, s[j])
      BY <2>9, <2>10, BlocksFirstIs
    <3>2. 1 \in 1 .. Len(s) /\ 2 \in 1 .. Len(s)
      BY <2>9
    <3>3. QED  BY <2>9, <3>1, <3>2
  <2>12. Pending(a, y, w)
    BY <2>7, <2>11 DEF Pending
  <2>13. Standing(y, c')
    BY <1>1, <2>7 DEF Standing
  <2>14. QED  BY <1>4, <2>5, <2>7, <2>10, <2>11, <2>12, <2>13, TreeBegun
<1>7. QED  BY <1>5, <1>6

\* do_ln.
LEMMA LnKeepsTree ==
    ASSUME TreeInv, NEW i, NEW n \in Names, NEW m, NEW t \in Names, Tree!Whole,
           i \in Tree!Resolvable, m \in Tree!Resolvable, Tree!do_ln(i, n, m, t)
    PROVE  TreeInv'
<1>1. ~ d /\ c' = c /\ a \in Disks /\ Tree!Quiet
  BY DEF Tree!do_ln, Tree!Whole, TreeInv
<1>2. PICK D, r : WholeTree(a, D, r) /\ c \in D
  BY <1>1, Standpoint
<1>3. i \in D /\ m \in D
  BY <1>2, ResolvedIn
<1>4. PICK k \in Tree!Found(a, i, n) :
          /\ Tree!EntryAt(a, i, k).type = "file"
          /\ Tree!Begin("link", HardLinked(a, m, t, Tree!EntryAt(a, i, k).inode),
                        <<Tree!Inode, Tree!Block(Tree!BlockOf(a, m))>>)
  BY DEF Tree!do_ln, HardLinked
<1>5. a.inode[m].size < MaxEntries /\ Tree!Found(a, m, t) = {}
  BY DEF Tree!do_ln, Tree!Fresh
<1>6. PICK z : z = [dir |-> i, name |-> n, type |-> Tree!EntryAt(a, i, k).type, to |-> Tree!EntryAt(a, i, k).inode]
  OBVIOUS
<1>7. z \in Under(a, D) /\ z.type = "file" /\ z.to = Tree!EntryAt(a, i, k).inode
  BY <1>2, <1>3, <1>4, <1>6, NamedEntry
<1>8. PICK y, l, w : /\ y = HardLinked(a, m, t, z.to) /\ l = Tree!BlockOf(a, m)
                     /\ w = <<Tree!Inode, Tree!Block(l)>>
  OBVIOUS
<1>9. /\ y \in Disks /\ WholeTree(y, D, r) /\ y.imap = a.imap /\ y.bmap = a.bmap
      /\ \A j \in Tree!Blocks \ {l} : y.block[j] = a.block[j]
  BY <1>2, <1>3, <1>5, <1>7, <1>8, LinkMakes
<1>10. Tree!Begin("link", y, w)
  BY <1>4, <1>7, <1>8
<1>11. l \in Tree!Blocks
  BY <1>1, <1>2, <1>3, <1>8, DiskTyped DEF WholeTree
<1>12. w \in Seq(Regions) /\ w # <<>> /\ Len(w) = 2 /\ w[1] = Tree!Inode /\ w[2] = Tree!Block(l)
  BY <1>8, <1>11 DEF Regions
<1>13. Awaited(w, Tree!Inode) /\ Awaited(w, Tree!Block(l))
  <2>1. 1 \in 1 .. Len(w) /\ 2 \in 1 .. Len(w)
    BY <1>12
  <2>2. QED  BY <1>12, <2>1 DEF Awaited
<1>14. Pending(a, y, w)
  BY <1>9, <1>13 DEF Pending
<1>15. Standing(y, c')
  BY <1>1, <1>2, <1>9 DEF Standing
<1>16. "link" \in Kinds /\ "link" # "create"
  BY DEF Kinds
<1>17. QED  BY <1>9, <1>10, <1>12, <1>14, <1>15, <1>16, TreeBegun

\* do_ln_s.
LEMMA LnSKeepsTree ==
    ASSUME TreeInv, NEW i, NEW n \in Names, NEW m, NEW t \in Names, Tree!Whole,
           i \in Tree!Resolvable, m \in Tree!Resolvable, Tree!do_ln_s(i, n, m, t)
    PROVE  TreeInv'
<1>1. ~ d /\ c' = c /\ a \in Disks /\ Tree!Quiet
  BY DEF Tree!do_ln_s, Tree!Whole, TreeInv
<1>2. PICK D, r : WholeTree(a, D, r) /\ c \in D
  BY <1>1, Standpoint
<1>3. i \in D /\ m \in D
  BY <1>2, ResolvedIn
<1>4. PICK u : u = Tree!FirstFree(Tree!Inodes, a.imap)
  OBVIOUS
<1>5. PICK k \in Tree!Found(a, i, n) :
          /\ Tree!EntryAt(a, i, k).type = "file"
          /\ Tree!Begin("link", SoftLinked(a, m, t, Tree!EntryAt(a, i, k).inode, u),
                        <<Tree!Inode, Tree!Imap, Tree!Bmap, Tree!Block(Tree!BlockOf(a, m))>>)
  BY <1>4 DEF Tree!do_ln_s, SoftLinked, CopiedInode
<1>6. a.inode[m].size < MaxEntries /\ Tree!Found(a, m, t) = {} /\ a.imap # Tree!Inodes
  BY DEF Tree!do_ln_s, Tree!Fresh, Tree!HasRoom
<1>7. u \in Tree!Inodes \ a.imap
  BY <1>1, <1>4, <1>6, FreeFound
<1>8. PICK z : z = [dir |-> i, name |-> n, type |-> Tree!EntryAt(a, i, k).type, to |-> Tree!EntryAt(a, i, k).inode]
  OBVIOUS
<1>9. z \in Under(a, D) /\ z.type = "file" /\ z.to = Tree!EntryAt(a, i, k).inode
  BY <1>2, <1>3, <1>5, <1>8, NamedEntry
<1>10. PICK y, l, w : /\ y = SoftLinked(a, m, t, z.to, u) /\ l = Tree!BlockOf(a, m)
                      /\ w = <<Tree!Inode, Tree!Imap, Tree!Bmap, Tree!Block(l)>>
  OBVIOUS
<1>11. /\ y \in Disks /\ WholeTree(y, D, r) /\ y.bmap = a.bmap
       /\ \A j \in Tree!Blocks \ {l} : y.block[j] = a.block[j]
  BY <1>2, <1>3, <1>6, <1>7, <1>9, <1>10, SoftLinkMakes
<1>12. Tree!Begin("link", y, w)
  BY <1>5, <1>9, <1>10
<1>13. l \in Tree!Blocks
  BY <1>1, <1>2, <1>3, <1>10, DiskTyped DEF WholeTree
<1>14. /\ w \in Seq(Regions) /\ w # <<>> /\ Len(w) = 4
       /\ w[1] = Tree!Inode /\ w[2] = Tree!Imap /\ w[4] = Tree!Block(l)
  BY <1>10, <1>13 DEF Regions
<1>15. Awaited(w, Tree!Inode) /\ Awaited(w, Tree!Imap) /\ Awaited(w, Tree!Block(l))
  <2>1. 1 \in 1 .. Len(w) /\ 2 \in 1 .. Len(w) /\ 4 \in 1 .. Len(w)
    BY <1>14
  <2>2. QED  BY <1>14, <2>1 DEF Awaited
<1>16. Pending(a, y, w)
  BY <1>11, <1>15 DEF Pending
<1>17. Standing(y, c')
  BY <1>1, <1>2, <1>11 DEF Standing
<1>18. "link" \in Kinds /\ "link" # "create"
  BY DEF Kinds
<1>19. QED  BY <1>11, <1>12, <1>14, <1>16, <1>17, <1>18, TreeBegun

\* do_mkfs.
LEMMA MkfsKeepsTree ==
    ASSUME TreeInv, Tree!do_mkfs
    PROVE  TreeInv'
<1>1. PICK w, y : /\ w = <<Tree!Block(0), Tree!Imap, Tree!Bmap, Tree!Inode>>
                  /\ y = Tree!Formatted(a.block)
  OBVIOUS
<1>2. c' = Tree!Root /\ Tree!Begin("format", y, w)
  BY <1>1 DEF Tree!do_mkfs
<1>3. a.block \in [Tree!Blocks -> DirBlock]
  BY DEF TreeInv, Disks
<1>4. /\ y \in Disks /\ \E s : WholeTree(y, {Tree!Root}, s)
      /\ \A l \in Tree!Blocks \ {0} : y.block[l] = a.block[l]
  BY <1>1, <1>3, MkfsMakes
<1>5. 0 \in Tree!Blocks
  BY TreeSizes
<1>6. /\ w \in Seq(Regions) /\ w # <<>> /\ Len(w) = 4
      /\ w[1] = Tree!Block(0) /\ w[2] = Tree!Imap /\ w[3] = Tree!Bmap /\ w[4] = Tree!Inode
  BY <1>1, <1>5 DEF Regions
<1>7. Awaited(w, Tree!Block(0)) /\ Awaited(w, Tree!Imap) /\ Awaited(w, Tree!Bmap) /\ Awaited(w, Tree!Inode)
  <2>1. 1 \in 1 .. Len(w) /\ 2 \in 1 .. Len(w) /\ 3 \in 1 .. Len(w) /\ 4 \in 1 .. Len(w)
    BY <1>6
  <2>2. QED  BY <1>6, <2>1 DEF Awaited
<1>8. Pending(a, y, w)
  BY <1>4, <1>7 DEF Pending
<1>9. Standing(y, c')
  BY <1>2, <1>4 DEF Standing
<1>10. "format" \in Kinds /\ "format" # "create"
  BY DEF Kinds
<1>11. QED  BY <1>2, <1>4, <1>6, <1>8, <1>9, <1>10, TreeBegun

\* do_cd.
LEMMA CdKeepsTree ==
    ASSUME TreeInv, Tree!do_cd
    PROVE  TreeInv'
<1>1. a' = a /\ b' = b /\ d' = d /\ c' \in Tree!Resolvable /\ Tree!Quiet /\ ~ d
  BY DEF Tree!do_cd, Tree!Whole
<1>2. PICK D, r : WholeTree(a, D, r) /\ c \in D
  BY <1>1, Standpoint
<1>3. c' \in D
  BY <1>1, <1>2, ResolvedIn
<1>4. Standing(a', c')
  BY <1>1, <1>2, <1>3 DEF Standing
<1>5. a' \in Disks /\ b'.kind = "none"
  BY <1>1 DEF TreeInv, Tree!Quiet
<1>6. QED  BY <1>4, <1>5 DEF TreeInv, Tree!Quiet

----------------------------------------------------------------------------
(* The tree, always                                                        *)

\* Every step keeps the invariant.
LEMMA TreeStep ==
    ASSUME TreeInv, Tree!Next
    PROVE  TreeInv'
<1>1. ASSUME NEW n \in Names, Tree!mkdir(n) \/ Tree!do_touch(n) \/ Tree!rmdir(n) PROVE TreeInv'
  BY <1>1, MkdirKeepsTree, TouchKeepsTree, RmdirKeepsTree
<1>2. ASSUME Tree!Whole, NEW i \in Tree!Resolvable, NEW m \in Tree!Resolvable, NEW n \in Names, NEW t \in Names,
             Tree!do_ln(i, n, m, t) \/ Tree!do_ln_s(i, n, m, t)
      PROVE  TreeInv'
  BY <1>2, LnKeepsTree, LnSKeepsTree
<1>3. QED
  BY <1>1, <1>2, CdKeepsTree, MkfsKeepsTree, CardWritten, PowerKeeps DEF Tree!Next

\* It holds at first.
LEMMA TreeInit ==
    ASSUME Tree!Init
    PROVE  TreeInv
<1>1. PICK w : w = [l \in Tree!Blocks |-> [k \in Tree!Places |-> Tree!NoEntry]]
  OBVIOUS
<1>2. a = Tree!Formatted(w) /\ b.kind = "none" /\ c = Tree!Root
  BY <1>1 DEF Tree!Init, Tree!Idle
<1>3. Tree!NoEntry \in TreeEntries
  BY TreeSizes DEF Tree!NoEntry, TreeEntries
<1>4. w \in [Tree!Blocks -> DirBlock]
  BY <1>1, <1>3 DEF DirBlock
<1>5. a \in Disks /\ \E s : WholeTree(a, {Tree!Root}, s)
  BY <1>2, <1>4, MkfsMakes
<1>6. Standing(a, c)
  BY <1>2, <1>5 DEF Standing
<1>7. QED  BY <1>2, <1>5, <1>6 DEF TreeInv, Tree!Quiet

\* It always holds.
LEMMA TreeInvAlways == Spec => [](part = "tree" => TreeInv)
<1> DEFINE Inv == part = "tree" => TreeInv
<1>1. Init => Inv
  BY TreeInit DEF Init
<1>2. Inv /\ [Next]_vars => Inv'
  <2> SUFFICES ASSUME Inv, [Next]_vars, part' = "tree" PROVE TreeInv'
    OBVIOUS
  <2>1. part = "tree" /\ TreeInv
    BY DEF Next, vars
  <2>2. CASE Tree!Next
    BY <2>1, <2>2, TreeStep
  <2>3. CASE UNCHANGED vars
    BY <2>1, <2>3 DEF vars, TreeInv, Tree!Whole, Tree!Quiet
  <2>4. QED  BY <2>1, <2>2, <2>3 DEF Next
<1>3. QED  BY <1>1, <1>2, PTL DEF Spec

\* Between operations the maps mark exactly the inodes that a name leads to and the
\* blocks these own, whatever was made, linked and removed before, for any number of
\* inodes, blocks, entries and names.
THEOREM MapsExactAlways == Spec => []MapsExact
<1>1. (part = "tree" => TreeInv) => MapsExact
  <2> SUFFICES ASSUME TreeInv, Tree!Whole PROVE Tree!MapsExact
    BY DEF MapsExact, Tree!MapsExact
  <2>1. PICK D, r : WholeTree(a, D, r)
    BY Standpoint DEF Tree!Whole
  <2>2. a.imap = {Tree!Root} \cup {z.to : z \in Tree!Tree(a)}
    BY <2>1, WholeIsExact
  <2>3. a.bmap = {Tree!BlockOf(a, i) : i \in a.imap}
    BY <2>1 DEF WholeTree, BlocksMarked
  <2>4. QED  BY <2>2, <2>3 DEF Tree!MapsExact
<1>2. QED  BY <1>1, TreeInvAlways, PTL

\* The directories form a tree with the user in it: one name leads to each, its ".."
\* leads back and its block is its own; and a file has no more names than it counts.
THEOREM TreeCountedAlways == Spec => []TreeCounted
<1>1. (part = "tree" => TreeInv) => TreeCounted
  <2> SUFFICES ASSUME TreeInv, Tree!Whole PROVE Tree!TreeShaped /\ Tree!LinksCounted
    BY DEF TreeCounted, Tree!TreeShaped, Tree!LinksCounted
  <2>1. PICK D, r : WholeTree(a, D, r) /\ c \in D
    BY Standpoint DEF Tree!Whole
  <2>2. PICK A, T : A = Tree!Tree(a) /\ T = {z \in A : z.type = "dir"}
    OBVIOUS
  <2>3. /\ D = {Tree!Root} \cup {z.to : z \in T}
        /\ \A z, w \in T : z.to = w.to => z = w
        /\ \A z \in T : /\ z.to # Tree!Root
                        /\ Tree!EntryAt(a, z.to, 0).inode = z.to
                        /\ Tree!EntryAt(a, z.to, 1).inode = z.dir
                        /\ \A i \in a.imap \ {z.to} : Tree!BlockOf(a, i) # Tree!BlockOf(a, z.to)
        /\ \A i \in a.imap \ {Tree!Root} :
               Cardinality({z \in A : z.type = "file" /\ z.to = i}) <= a.inode[i].reference
    BY <2>1, <2>2, WholeIsCounted
  <2>4. Tree!TreeShaped
    BY <2>1, <2>2, <2>3 DEF Tree!TreeShaped
  <2>5. Tree!LinksCounted
    BY <2>2, <2>3 DEF Tree!LinksCounted, Tree!Cardinality, Tree!IsFiniteSet, Cardinality, IsFiniteSet
  <2>6. QED  BY <2>4, <2>5
<1>2. QED  BY <1>1, TreeInvAlways, PTL

\* Cards with the same directories have the same tree.
LEMMA SameTree ==
    ASSUME NEW x, NEW y, NEW D, NEW r, WholeTree(x, D, r), \A j \in D : SameDir(x, y, j)
    PROVE  Tree!Tree(y) = Tree!Tree(x)
<1>1. D \in SUBSET Tree!Inodes /\ r \in [D -> Nat] /\ Ranked(Under(x, D), D, r)
  BY DEF WholeTree, Family
<1>2. Under(y, D) = Under(x, D)
  <2>1. \A j \in D : Tree!EntriesOf(y, j) = Tree!EntriesOf(x, j)
    BY SameDirEntries
  <2>2. QED  BY <2>1 DEF Under
<1>3. Tree!Tree(x) = Under(x, D)
  BY <1>1, TreeIs
<1>4. Tree!Tree(y) = Under(y, D)
  BY <1>1, <1>2, TreeIs
<1>5. QED  BY <1>2, <1>3, <1>4

\* Wherever the power fails during mkdir or touch, the tree on the card is the one
\* before it or the one after it, for any number of inodes, blocks, entries and names.
THEOREM CreateAtomicAlways == Spec => []CreateAtomic
<1>1. (part = "tree" => TreeInv) => CreateAtomic
  <2> SUFFICES ASSUME TreeInv, b.kind = "create" PROVE Tree!Tree(a) \in {Tree!Tree(b.before), Tree!Tree(b.mem)}
    BY DEF CreateAtomic, Tree!CreateAtomic
  <2>1. PICK m, z, w : m = b.mem /\ z = b.before /\ w = b.writes
    OBVIOUS
  <2>2. a \in Disks /\ Working(a, b, c)
    BY DEF TreeInv, Tree!Quiet
  <2>3. /\ Pending(a, m, w) /\ Standing(m, c) /\ Creating(a, z, m, w) /\ b \in TreeOps
    BY <2>1, <2>2 DEF Working
  <2>4. z \in Disks /\ m \in Disks /\ w \in Seq(Regions)
    BY <2>1, <2>3 DEF TreeOps
  <2>5. CASE Awaited(w, Tree!Inode)
    <3>1. PICK D, r : WholeTree(z, D, r) /\ Keeps(z, m, D)
      BY <2>3 DEF Creating
    <3>2. a.inode = z.inode /\ \A l \in Tree!Blocks : a.block[l] \in {z.block[l], m.block[l]}
      BY <2>3, <2>5 DEF Creating
    <3>3. ASSUME NEW j \in D PROVE SameDir(z, a, j)
      <4>1. a.inode[j].size = z.inode[j].size /\ Tree!BlockOf(a, j) = Tree!BlockOf(z, j)
        BY <3>2 DEF Tree!BlockOf
      <4>2. Tree!BlockOf(z, j) \in Tree!Blocks
        BY <2>4, <3>1, DiskTyped DEF WholeTree
      <4>3. ASSUME NEW k \in Tree!Used(z, j) PROVE Tree!EntryAt(a, j, k) = Tree!EntryAt(z, j, k)
        BY <3>1, <3>2, <4>1, <4>2 DEF Keeps, Tree!EntryAt
      <4>4. QED  BY <4>1, <4>3 DEF SameDir
    <3>4. Tree!Tree(a) = Tree!Tree(z)
      BY <3>1, <3>3, SameTree
    <3>5. QED  BY <2>1, <3>4
  <2>6. CASE ~ Awaited(w, Tree!Inode)
    <3>1. \A l \in Tree!Blocks : ~ Awaited(w, Tree!Block(l))
      <4>1. SUFFICES ASSUME NEW l \in Tree!Blocks, NEW j \in 1 .. Len(w), w[j] = Tree!Block(l) PROVE FALSE
        BY DEF Awaited
      <4>2. PICK k \in j .. Len(w) : w[k] = Tree!Inode
        BY <2>3, <4>1 DEF Creating, BlocksBefore
      <4>3. k \in 1 .. Len(w)
        BY <2>4, LenProperties
      <4>4. QED  BY <2>6, <4>2, <4>3 DEF Awaited
    <3>2. a.inode = m.inode /\ \A l \in Tree!Blocks : a.block[l] = m.block[l]
      BY <2>3, <2>6, <3>1 DEF Pending
    <3>3. PICK D, r : WholeTree(m, D, r)
      BY <2>3 DEF Standing
    <3>4. ASSUME NEW j \in D PROVE SameDir(m, a, j)
      <4>1. Tree!BlockOf(m, j) \in Tree!Blocks
        BY <2>4, <3>3, DiskTyped DEF WholeTree
      <4>2. QED  BY <3>2, <4>1 DEF SameDir, Tree!BlockOf, Tree!EntryAt
    <3>5. Tree!Tree(a) = Tree!Tree(m)
      BY <3>3, <3>4, SameTree
    <3>6. QED  BY <2>1, <3>5
  <2>7. QED  BY <2>5, <2>6
<1>2. QED  BY <1>1, TreeInvAlways, PTL
=============================================================================
