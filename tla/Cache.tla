-------------------------------- MODULE Cache --------------------------------
(***************************************************************************)
(* cache.v: a write-back cache of two ways with a request buffer, a write  *)
(* buffer and a random victim, between the processor and the bus.  One     *)
(* step is one cycle of the clock.  The memories it is built of, tagv and  *)
(* bank, are generated and not in the repository; their output shows in    *)
(* the next cycle what was at the address in this one.                     *)
(***************************************************************************)
EXTENDS Integers, FiniteSets

CONSTANTS
    Tag,        \* values of the upper address bits
    NumWords,   \* words of a line, 4
    NumBytes,   \* bytes of a word, 4
    Lines,      \* the lines in use, pairs of tag and index
    Watched,    \* address of a byte, <<tag, index, word, byte>>; stores vary it
    RamMode,    \* what a memory shows after a write: "no_change" is its old
                \*   output, "read_first" the old contents, "write_first" the new
    Promises    \* what the processor and the bus see to

AllPromises ==
  { "steady",    \* the index changes only while the cache is at rest
    "apart",     \* no load follows at once a store of the same word that misses
    "whole",     \* a store that misses writes all bytes of its word
    "gapless" }  \* the bus returns a line in successive cycles

Index == {0, 1}     \* 8 bits
Way   == {0, 1}
Word  == 0 .. NumWords - 1
Byte  == 0 .. NumBytes - 1

ASSUME CacheAssumption ==
    /\ NumWords \in Nat \ {0} /\ NumBytes \in Nat \ {0}
    /\ Lines \subseteq Tag \X Index
    /\ Watched \in Tag \X Index \X Word \X Byte
    /\ RamMode \in {"no_change", "read_first", "write_first"}
    /\ Promises \subseteq AllPromises

VARIABLES
    main,     \* state_main
    writing,  \* state_write_buffer = WRITE
    reg,      \* the request buffer
    buffer,   \* the write buffer: index, way, word, strobe, data
    victim,   \* replace_way_r
    beat,     \* axi_num
    wrReq,    \* wr_req_r
    dirty,    \* way0_d, way1_d
    tagv,     \* contents of the tag memories
    bank,     \* contents of the banks
    tagOut,   \* their outputs
    bankOut,
    memory,   \* external: the memory behind the bus
    ideal,    \* history: what the bytes would be without a cache
    owed,     \* history: the request accepted last has had no data_ok yet
    clash     \* history: it was a load in conflict with the write buffer

vars == <<main, writing, reg, buffer, victim, beat, wrReq, dirty, tagv, bank,
          tagOut, bankOut, memory, ideal, owed, clash>>

\* A byte is known by its address; the one at Watched has two values.
Content(t, i, w, v) == [b \in Byte |-> <<t, i, w, b, IF <<t, i, w, b>> = Watched THEN v ELSE 0>>]
Fill    == [x \in Lines \X Word |-> Content(x[1][1], x[1][2], x[2], 0)]
NoTag   == [valid |-> FALSE, tag |-> CHOOSE t \in Tag : TRUE]
NoWord  == [b \in Byte |-> <<>>]

\* A word after a write of the bytes of a strobe.
Overlay(strobe, data, word) == [b \in Byte |-> IF b \in strobe THEN data[b] ELSE word[b]]

Init ==
    /\ main = "IDLE" /\ writing = FALSE
    /\ reg = [store |-> FALSE, index |-> 0, tag |-> NoTag.tag, word |-> 0, strobe |-> {}, data |-> NoWord]
    /\ buffer = [index |-> 0, way |-> 0, word |-> 0, strobe |-> {}, data |-> NoWord]
    /\ victim = 0 /\ beat = 0 /\ wrReq = FALSE
    /\ dirty = [w \in Way |-> [i \in Index |-> FALSE]]
    /\ tagv = [w \in Way |-> [i \in Index |-> NoTag]]
    /\ bank = [w \in Way |-> [i \in Index |-> [k \in Word |-> NoWord]]]
    /\ tagOut = [w \in Way |-> NoTag]
    /\ bankOut = [w \in Way |-> [k \in Word |-> NoWord]]
    /\ memory = Fill /\ ideal = Fill
    /\ owed = FALSE /\ clash = FALSE

----------------------------------------------------------------------------
(* Combinational logic                                                     *)

\* Tag compare.  Mutant: the valid bit is not looked at.
TagAlone(w) == tagOut[w].tag = reg.tag
Hits(w) == tagOut[w].valid /\ tagOut[w].tag = reg.tag
hit == \E w \in Way : Hits(w)

\* A request in: a record, with valid.  hit_write_conflict_exp: a load of the word
\* position of a store that is looked up or written back now.
Conflict(in) ==
    /\ in.valid /\ ~ in.store
    /\ \/ main = "LOOKUP" /\ reg.store /\ reg.word = in.word
       \/ writing /\ buffer.word = in.word

\* The request is taken.  Mutant: the request buffer is loaded in a conflict too.
TakenAnyway(in) == in.valid /\ (main = "IDLE" \/ (main = "LOOKUP" /\ hit))
Taken(in) == in.valid /\ ~ Conflict(in) /\ (main = "IDLE" \/ (main = "LOOKUP" /\ hit))

\* addr_ok: the processor takes its request for accepted.  In IDLE it is so in a conflict
\* too, in which the cache does not take the request.
AddrOk(in) == main = "IDLE" \/ (main = "LOOKUP" /\ hit /\ ~ Conflict(in))
Accepted(in) == in.valid /\ AddrOk(in)

hitWrite == main = "LOOKUP" /\ reg.store /\ hit

\* next_state_main; REFILL without ret_valid falls back to IDLE.
NextMain(in, bus) ==
    CASE main = "IDLE"    -> IF Taken(in) THEN "LOOKUP" ELSE "IDLE"
      [] main = "LOOKUP"  -> IF (~ in.valid /\ hit) \/ Conflict(in) THEN "IDLE"
                             ELSE IF hit THEN "LOOKUP" ELSE "MISS"
      [] main = "MISS"    -> IF bus.wrRdy THEN "REPLACE" ELSE "MISS"
      [] main = "REPLACE" -> IF bus.rdRdy THEN "REFILL" ELSE "REPLACE"
      [] main = "REFILL"  -> IF bus.retValid /\ ~ bus.retLast THEN "REFILL" ELSE "IDLE"

\* data_ok and rdata.  The word of a line being filled passes straight on.
DataOk(bus) ==
    \/ main = "LOOKUP" /\ (hit \/ reg.store)
    \/ main = "REFILL" /\ bus.retValid /\ beat = reg.word /\ ~ reg.store
ReadData(bus) ==
    IF hit THEN bankOut[CHOOSE w \in Way : Hits(w)][reg.word] ELSE bus.retData

\* Addresses of the memories: the buses that are on are ORed.
Or(S) == IF 1 \in S THEN 1 ELSE 0
TagAddr(in) == IF main = "IDLE" THEN in.index ELSE reg.index
BankAddr(in) ==
    Or((IF main = "IDLE" THEN {in.index} ELSE {}) \cup
       (IF main \in {"LOOKUP", "MISS", "REFILL"} THEN {reg.index} ELSE {}) \cup
       (IF writing THEN {buffer.index} ELSE {}))

\* ret_data1: the store that missed is merged into its word.  Mutant: it is not.
NotMerged(bus) == bus.retData
Refilled(bus) == IF beat = reg.word /\ reg.store THEN reg.data ELSE bus.retData

\* The one bank that is written, and its bytes: of the write buffer, or of the line
\* that comes in.
Port(bus) ==
    IF writing THEN [way |-> buffer.way, word |-> buffer.word, strobe |-> buffer.strobe, data |-> buffer.data]
    ELSE [way |-> victim, word |-> beat, strobe |-> IF main = "REFILL" THEN Byte ELSE {}, data |-> Refilled(bus)]

\* Is way w of the index dirty and to be written back?
MustWrite(w) == tagOut[w].valid /\ dirty[w][reg.index]
WriteBack == main = "REPLACE" /\ wrReq /\ MustWrite(victim)

\* The output of a memory whose contents go from old to new.
Shown(out, written, old, new) ==
    IF ~ written \/ RamMode = "read_first" THEN old
    ELSE IF RamMode = "no_change" THEN out ELSE new

----------------------------------------------------------------------------
(* One cycle                                                               *)

Memories(in, bus) ==
    LET fills(w) == main = "REFILL" /\ victim = w
        ta       == TagAddr(in)
        ba       == BankAddr(in)
        port     == Port(bus)
        hits(w, k) == port.way = w /\ port.word = k /\ port.strobe # {}
    IN /\ tagv' = IF main = "REFILL" THEN [tagv EXCEPT ![victim][ta] = [valid |-> TRUE, tag |-> reg.tag]]
                  ELSE tagv
       /\ tagOut' = [w \in Way |-> Shown(tagOut[w], fills(w), tagv[w][ta], tagv'[w][ta])]
       /\ bank' = IF port.strobe = {} THEN bank
                  ELSE [bank EXCEPT ![port.way][ba][port.word] = Overlay(port.strobe, port.data, @)]
       /\ bankOut' = [w \in Way |-> [k \in Word |->
             Shown(bankOut[w][k], hits(w, k), bank[w][ba][k], bank'[w][ba][k])]]
       /\ dirty' = IF port.strobe = {} THEN dirty
                   ELSE IF writing THEN [dirty EXCEPT ![port.way][buffer.index] = TRUE]
                   ELSE [dirty EXCEPT ![port.way][reg.index] = reg.store]

Registers(in, bus) ==
    /\ main' = NextMain(in, bus)
    /\ writing' = hitWrite
    /\ reg' = IF Taken(in)
              THEN [store |-> in.store, index |-> in.index, tag |-> in.tag, word |-> in.word,
                    strobe |-> in.strobe, data |-> in.data]
              ELSE reg
    /\ buffer' = IF hitWrite
                 THEN [index |-> reg.index, way |-> IF Hits(1) THEN 1 ELSE 0,
                       word |-> reg.word, strobe |-> reg.strobe, data |-> reg.data]
                 ELSE buffer
    /\ IF main = "MISS" /\ bus.wrRdy THEN victim' \in Way ELSE victim' = victim
    /\ beat' = IF main = "REPLACE" /\ bus.rdRdy THEN 0
               ELSE IF bus.retValid THEN (beat + 1) % NumWords ELSE beat
    /\ wrReq' = ((main = "MISS" /\ bus.wrRdy) \/ (wrReq /\ ~ bus.wrRdy))

\* External: a line that is written back arrives at once.
Written(bus) ==
    IF WriteBack /\ bus.wrRdy
    THEN [x \in DOMAIN memory |->
             IF x[1] = <<tagOut[victim].tag, reg.index>> THEN bankOut[victim][x[2]] ELSE memory[x]]
    ELSE memory

History(in, bus) ==
    /\ ideal' = IF Taken(in) /\ in.store
                THEN [ideal EXCEPT ![<<<<in.tag, in.index>>, in.word>>] = Overlay(in.strobe, in.data, @)]
                ELSE ideal
    /\ owed' = (Accepted(in) \/ (owed /\ ~ DataOk(bus)))
    /\ clash' = IF Accepted(in) THEN Conflict(in) ELSE clash

\* The promises about a request.
AtRest == main = "IDLE" /\ ~ writing
MayMiss(in) == \A w \in Way : ~ (tagv[w][in.index].valid /\ tagv[w][in.index].tag = in.tag)
Kept(in) ==
    /\ "steady" \in Promises => AtRest \/ in.index = reg.index
    /\ "apart" \in Promises  => ~ (main = "LOOKUP" /\ ~ hit /\ Conflict(in))
    /\ "whole" \in Promises  => (in.store /\ MayMiss(in) => in.strobe = Byte)

\* A store into the watched word takes any bytes and both values; elsewhere it
\* writes what is there.
Stores(t, i, w) ==
    IF <<t, i, w>> = <<Watched[1], Watched[2], Watched[3]>>
    THEN {<<m, Content(t, i, w, v)>> : m \in SUBSET Byte \ {{}}, v \in {0, 1}}
    ELSE {<<Byte, Content(t, i, w, 0)>>}
Request(s, t, i, w, m, d) ==
    [valid |-> TRUE, store |-> s, tag |-> t, index |-> i, word |-> w, strobe |-> m, data |-> d]
NoRequest(i) == [valid |-> FALSE, store |-> FALSE, index |-> i, tag |-> NoTag.tag,
                 word |-> 0, strobe |-> {}, data |-> NoWord]
ToWord(l, w) ==
    {Request(FALSE, l[1], l[2], w, {}, NoWord)} \cup
    {Request(TRUE, l[1], l[2], w, d[1], d[2]) : d \in Stores(l[1], l[2], w)}
AllRequests == {NoRequest(i) : i \in Index} \cup UNION {ToWord(x[1], x[2]) : x \in Lines \X Word}

\* Nothing looks at the request in the other states.
Requests == IF main \in {"IDLE", "LOOKUP"} THEN AllRequests ELSE {NoRequest(reg.index)}

\* External: the bus.  It is ready when it likes, but does not take that back
\* before a line is written; it returns the words of a line in their order.
Bus(wrRdy, rdRdy, gap) ==
    [wrRdy |-> wrRdy \/ wrReq, rdRdy |-> rdRdy,
     retValid |-> main = "REFILL" /\ ~ gap,
     retLast |-> beat = NumWords - 1,
     retData |-> memory[<<<<reg.tag, reg.index>>, beat>>]]

Cycle(bus) ==
    \E in \in Requests :
        /\ Kept(in)
        /\ Memories(in, bus)
        /\ Registers(in, bus)
        /\ memory' = Written(bus)
        /\ History(in, bus)

Next == \E wrRdy \in IF main = "MISS" THEN BOOLEAN ELSE {TRUE},
           rdRdy \in IF main = "REPLACE" THEN BOOLEAN ELSE {TRUE},
           gap \in IF main = "REFILL" /\ "gapless" \notin Promises THEN BOOLEAN ELSE {FALSE} :
            Cycle(Bus(wrRdy, rdRdy, gap))

Spec == Init /\ [][Next]_vars

----------------------------------------------------------------------------
(* Properties                                                              *)

\* A load that is answered gets what the stores before it left: through hits, the
\* write buffer, a line that is just coming in and lines written back before.
LoadsRight ==
    LET bus == Bus(TRUE, TRUE, FALSE)
    IN DataOk(bus) => owed /\ (~ reg.store => ReadData(bus) = ideal[<<<<reg.tag, reg.index>>, reg.word>>])

\* No address is in both ways; and at rest the cache and the memory behind it together
\* hold the ideal memory: what is in no way is in memory, and a clean line is the memory's.
Coherent ==
    /\ \A i \in Index : tagv[0][i].valid /\ tagv[1][i].valid => tagv[0][i].tag # tagv[1][i].tag
    /\ AtRest => \A l \in Lines, k \in Word :
        LET ways == {w \in Way : tagv[w][l[2]].valid /\ tagv[w][l[2]].tag = l[1]}
        IN /\ ways = {} => memory[<<l, k>>] = ideal[<<l, k>>]
           /\ \A w \in ways : /\ bank[w][l[2]][k] = ideal[<<l, k>>]
                              /\ ~ dirty[w][l[2]] => memory[<<l, k>>] = ideal[<<l, k>>]

\* When the cache is idle, the last request it accepted has been answered, unless that
\* is a load that came to the idle cache while the write buffer stored to its word
\* position: none of those is ever answered.
Answered == main = "IDLE" => (owed <=> clash)
----------------------------------------------------------------------------
(* The invariant that CacheProofs shows to be inductive.                   *)

Cell == (Tag \X Index \X Word \X Byte \X {0, 1}) \cup {<<>>}
Data == [Byte -> Cell]

Typed ==
    /\ main \in {"IDLE", "LOOKUP", "MISS", "REPLACE", "REFILL"} /\ {writing, wrReq, owed, clash} \subseteq BOOLEAN
    /\ reg \in [store : BOOLEAN, index : Index, tag : Tag, word : Word, strobe : SUBSET Byte, data : Data]
    /\ buffer \in [index : Index, way : Way, word : Word, strobe : SUBSET Byte, data : Data]
    /\ victim \in Way /\ beat \in Word
    /\ dirty \in [Way -> [Index -> BOOLEAN]]
    /\ tagv \in [Way -> [Index -> [valid : BOOLEAN, tag : Tag]]]
    /\ tagOut \in [Way -> [valid : BOOLEAN, tag : Tag]]
    /\ bank \in [Way -> [Index -> [Word -> Data]]]
    /\ bankOut \in [Way -> [Word -> Data]]
    /\ memory \in [Lines \X Word -> Data] /\ ideal \in [Lines \X Word -> Data]

Holds(w, l) == tagv[w][l[2]].valid /\ tagv[w][l[2]].tag = l[1]
Asked       == <<reg.tag, reg.index>>     \* the line the request buffer is about
Missed      == main \in {"MISS", "REPLACE", "REFILL"}

\* The tags are of lines that exist, and no line is in both ways.
TagsRight ==
    /\ \A w \in Way, i \in Index : tagv[w][i].valid => <<tagv[w][i].tag, i>> \in Lines
    /\ \A l \in Lines : ~ (Holds(0, l) /\ Holds(1, l))

\* What the memories show is what they hold, where somebody looks at it: the tags until
\* a line is filled, the word of a load that is looked up, the line that is written back.
Showing ==
    /\ main \in {"LOOKUP", "MISS", "REPLACE"} => \A w \in Way : tagOut[w] = tagv[w][reg.index]
    /\ main = "REFILL" => \A w \in Way \ {victim} : tagOut[w] = tagv[w][reg.index]
    /\ main = "LOOKUP" /\ ~ reg.store => \A w \in Way : bankOut[w][reg.word] = bank[w][reg.index][reg.word]
    /\ wrReq => main = "REPLACE" /\ \A w \in Way, k \in Word : bankOut[w][k] = bank[w][reg.index][k]

\* The request at work: of a line that exists, in no way once it has missed; a store that
\* misses is whole; a load in LOOKUP is not of the word in the write buffer, which is
\* of a line in the cache.
AtWork ==
    /\ main # "IDLE" => Asked \in Lines
    /\ Missed => ~ hit
    /\ (main = "LOOKUP" /\ ~ hit) \/ Missed => (reg.store => reg.strobe = Byte)
    /\ writing =>
        /\ main \in {"IDLE", "LOOKUP"} /\ buffer.index = reg.index
        /\ main = "LOOKUP" /\ ~ reg.store => buffer.word # reg.word
        /\ tagv[buffer.way][buffer.index].valid

\* data_ok is still to come, or never will.
Owing ==
    /\ clash => main = "IDLE"
    /\ owed <=> \/ clash
                \/ main = "LOOKUP"
                \/ main \in {"MISS", "REPLACE"} /\ ~ reg.store
                \/ main = "REFILL" /\ ~ reg.store /\ beat <= reg.word

\* The victim's way has the old line until the first word of the new one, and that line
\* is safe in memory before; from then on the way is dirty by the request alone.
Evicted ==
    /\ main = "REFILL" => (Holds(victim, Asked) <=> beat # 0)
    /\ main = "REFILL" /\ beat # 0 => dirty[victim][reg.index] = reg.store
    /\ main = "REFILL" \/ (main = "REPLACE" /\ ~ wrReq) =>
        \A l \in Lines, k \in Word :
            Holds(victim, l) /\ l[2] = reg.index /\ l # Asked => memory[<<l, k>>] = bank[victim][l[2]][k]

\* The words that are still to come, and those that are in a way.
Filling(l, k)  == main = "REFILL" /\ l = Asked /\ k >= beat
HasWord(w, l, k) == Holds(w, l) /\ ~ Filling(l, k)

\* A word after the stores that are on their way to it: in the write buffer, and in the
\* request buffer.
Buffered(l, k) == writing /\ l[2] = buffer.index /\ Holds(buffer.way, l) /\ k = buffer.word
Requested(l, k) ==
    /\ reg.store /\ l = Asked /\ k = reg.word
    /\ main \in {"LOOKUP", "MISS", "REPLACE"} \/ Filling(l, k)
AfterBuffer(l, k, x)  == IF Buffered(l, k) THEN Overlay(buffer.strobe, buffer.data, x) ELSE x
AfterRequest(l, k, x) == IF Requested(l, k) THEN Overlay(reg.strobe, reg.data, x) ELSE x
After(l, k, x)        == AfterRequest(l, k, AfterBuffer(l, k, x))

\* Every word is in a way or, if in none, in memory, up to the stores on their way.
Truth ==
    \A l \in Lines, k \in Word :
        /\ \A w \in Way : HasWord(w, l, k) => ideal[<<l, k>>] = After(l, k, bank[w][l[2]][k])
        /\ (\A w \in Way : ~ HasWord(w, l, k)) => ideal[<<l, k>>] = After(l, k, memory[<<l, k>>])

\* A way that is not dirty agrees with memory.
Clean ==
    \A w \in Way, l \in Lines, k \in Word :
        HasWord(w, l, k) /\ ~ dirty[w][l[2]] => bank[w][l[2]][k] = memory[<<l, k>>]

CacheInv == Typed /\ TagsRight /\ Showing /\ AtWork /\ Owing /\ Evicted /\ Truth /\ Clean
----------------------------------------------------------------------------
(* An instance with two lines for one index, of which each evicts the      *)
(* other when the victim is its way, and one line for the other index.     *)

MCLines   == {<<"x", 1>>, <<"y", 1>>, <<"x", 0>>}
MCWatched == <<"x", 1, 1, 0>>
=============================================================================
