----------------------------- MODULE CacheProofs -----------------------------
(***************************************************************************)
(* Cache gives the answers of the memory without it: whatever tags, lines  *)
(* and sizes there are, if the processor and the bus keep the promises of  *)
(* the module and a memory that is written keeps what it shows.            *)
(***************************************************************************)
EXTENDS Cache, TLAPS

\* What the theorems take for granted.
Promised == RamMode = "no_change" /\ AllPromises \subseteq Promises

\* A cycle with the request in and what the bus shows, from a state of the invariant.
Stepping(in, bus) ==
    /\ Promised /\ CacheInv
    /\ in \in Requests /\ Kept(in)
    /\ Memories(in, bus) /\ Registers(in, bus) /\ memory' = Written(bus) /\ History(in, bus)
    /\ bus.wrRdy \in BOOLEAN /\ (wrReq => bus.wrRdy) /\ bus.rdRdy \in BOOLEAN
    /\ bus.retValid = (main = "REFILL") /\ bus.retLast = (beat = NumWords - 1)
    /\ bus.retData = memory[<<Asked, beat>>]

LEMMA NextSteps ==
    ASSUME Promised, CacheInv, Next
    PROVE  \E in, bus : Stepping(in, bus)
<1>1. PICK wrRdy \in BOOLEAN, rdRdy \in BOOLEAN :
        Cycle(Bus(wrRdy, rdRdy, FALSE))
  <2>1. "gapless" \in Promises
    BY DEF Promised, AllPromises
  <2>2. PICK wrRdy \in IF main = "MISS" THEN BOOLEAN ELSE {TRUE},
             rdRdy \in IF main = "REPLACE" THEN BOOLEAN ELSE {TRUE},
             gap \in IF main = "REFILL" /\ "gapless" \notin Promises THEN BOOLEAN ELSE {FALSE} :
            Cycle(Bus(wrRdy, rdRdy, gap))
    BY DEF Next
  <2>3. gap = FALSE /\ wrRdy \in BOOLEAN /\ rdRdy \in BOOLEAN
    BY <2>1
  <2> QED BY <2>2, <2>3
<1>2. PICK bus : bus = Bus(wrRdy, rdRdy, FALSE)
  OBVIOUS
<1>3. PICK in \in Requests :
        /\ Kept(in)
        /\ Memories(in, bus) /\ Registers(in, bus) /\ memory' = Written(bus) /\ History(in, bus)
  BY <1>1, <1>2 DEF Cycle
<1>4. wrReq \in BOOLEAN
  BY DEF CacheInv, Typed
<1>5. /\ bus.wrRdy \in BOOLEAN /\ (wrReq => bus.wrRdy) /\ bus.rdRdy \in BOOLEAN
      /\ bus.retValid = (main = "REFILL") /\ bus.retLast = (beat = NumWords - 1)
      /\ bus.retData = memory[<<Asked, beat>>]
  BY <1>2, <1>4 DEF Bus, Asked
<1> QED BY <1>3, <1>5 DEF Stepping

----------------------------------------------------------------------------
(* Words and requests                                                      *)

LEMMA TagExists == Watched[1] \in Tag /\ NoTag.tag \in Tag
BY CacheAssumption DEF NoTag

LEMMA Overlays ==
    ASSUME NEW d \in Data, NEW x \in Data, NEW m
    PROVE  Overlay(m, d, x) \in Data
BY DEF Overlay, Data

LEMMA WholeWord ==
    ASSUME NEW d \in Data, NEW x
    PROVE  Overlay(Byte, d, x) = d
BY DEF Overlay, Data

LEMMA Contents ==
    ASSUME NEW t \in Tag, NEW i \in Index, NEW w \in Word, NEW v \in {0, 1}
    PROVE  Content(t, i, w, v) \in Data
BY DEF Content, Data, Cell

LEMMA NoWordTyped == NoWord \in Data
BY DEF NoWord, Data, Cell

LEMMA RequestTyped ==
    ASSUME NEW in \in AllRequests
    PROVE  /\ in.valid \in BOOLEAN /\ in.store \in BOOLEAN /\ in.index \in Index /\ in.tag \in Tag
           /\ in.word \in Word /\ in.strobe \in SUBSET Byte /\ in.data \in Data
           /\ in.valid => <<in.tag, in.index>> \in Lines
<1>1. CASE \E i \in Index : in = NoRequest(i)
  <2>1. PICK i \in Index : in = NoRequest(i)
    BY <1>1
  <2>2. 0 \in Word
    BY CacheAssumption DEF Word
  <2> QED BY <2>1, <2>2, NoWordTyped, TagExists DEF NoRequest
<1>2. CASE \E l \in Lines, w \in Word : in = Request(FALSE, l[1], l[2], w, {}, NoWord)
  <2>1. PICK l \in Lines, w \in Word : in = Request(FALSE, l[1], l[2], w, {}, NoWord)
    BY <1>2
  <2>2. l[1] \in Tag /\ l[2] \in Index /\ l = <<l[1], l[2]>>
    BY CacheAssumption
  <2> QED BY <2>1, <2>2, NoWordTyped DEF Request
<1>3. CASE \E l \in Lines, w \in Word : \E d \in Stores(l[1], l[2], w) :
             in = Request(TRUE, l[1], l[2], w, d[1], d[2])
  <2>1. PICK l \in Lines, w \in Word : \E d \in Stores(l[1], l[2], w) :
           in = Request(TRUE, l[1], l[2], w, d[1], d[2])
    BY <1>3
  <2>4. PICK d \in Stores(l[1], l[2], w) : in = Request(TRUE, l[1], l[2], w, d[1], d[2])
    BY <2>1
  <2>2. l[1] \in Tag /\ l[2] \in Index /\ l = <<l[1], l[2]>>
    BY CacheAssumption
  <2>3. d[1] \in SUBSET Byte /\ d[2] \in Data
    BY <2>1, <2>2, <2>4, Contents DEF Stores
  <2> QED BY <2>1, <2>2, <2>3, <2>4 DEF Request
<1>4. CASE \A i \in Index : in # NoRequest(i)
  <2>1. in \in UNION {ToWord(x[1], x[2]) : x \in Lines \X Word}
    BY <1>4 DEF AllRequests
  <2>2. PICK x \in Lines \X Word : in \in ToWord(x[1], x[2])
    BY <2>1
  <2>3. x[1] \in Lines /\ x[2] \in Word
    OBVIOUS
  <2>4. \/ in = Request(FALSE, x[1][1], x[1][2], x[2], {}, NoWord)
        \/ \E d \in Stores(x[1][1], x[1][2], x[2]) : in = Request(TRUE, x[1][1], x[1][2], x[2], d[1], d[2])
    BY <2>2 DEF ToWord
  <2> QED BY <1>2, <1>3, <2>3, <2>4
<1> QED BY <1>1, <1>4

----------------------------------------------------------------------------
(* What one cycle does to the memories                                     *)

LEMMA InputTyped ==
    ASSUME NEW in, NEW bus, Stepping(in, bus)
    PROVE  /\ in.valid \in BOOLEAN /\ in.store \in BOOLEAN /\ in.index \in Index /\ in.tag \in Tag
           /\ in.word \in Word /\ in.strobe \in SUBSET Byte /\ in.data \in Data
           /\ in.valid => <<in.tag, in.index>> \in Lines
           /\ main \notin {"IDLE", "LOOKUP"} => ~ in.valid
           /\ main # "IDLE" \/ writing => in.index = reg.index
<1>1. reg.index \in Index
  BY DEF Stepping, CacheInv, Typed
<1>2. in \in AllRequests
  BY <1>1 DEF Stepping, Requests, AllRequests
<1>3. main \notin {"IDLE", "LOOKUP"} => ~ in.valid
  BY DEF Stepping, Requests, NoRequest
<1>4. main # "IDLE" \/ writing => in.index = reg.index
  BY DEF Stepping, Promised, AllPromises, Kept, AtRest
<1> QED BY <1>2, <1>3, <1>4, RequestTyped

LEMMA TagStep ==
    ASSUME NEW in, NEW bus, Stepping(in, bus)
    PROVE  /\ tagv' \in [Way -> [Index -> [valid : BOOLEAN, tag : Tag]]]
           /\ tagOut' \in [Way -> [valid : BOOLEAN, tag : Tag]]
           /\ main # "REFILL" => tagv' = tagv /\ \A w \in Way : tagOut'[w] = tagv[w][in.index]
           /\ main = "REFILL" =>
                /\ tagv' = [tagv EXCEPT ![victim][reg.index] = [valid |-> TRUE, tag |-> reg.tag]]
                /\ \A w \in Way : tagOut'[w] = IF w = victim THEN tagOut[w] ELSE tagv[w][reg.index]
<1>1. /\ tagv \in [Way -> [Index -> [valid : BOOLEAN, tag : Tag]]]
      /\ tagOut \in [Way -> [valid : BOOLEAN, tag : Tag]]
      /\ victim \in Way /\ reg.index \in Index /\ reg.tag \in Tag
  BY DEF Stepping, CacheInv, Typed
<1>2. TagAddr(in) = in.index /\ in.index \in Index
  BY InputTyped DEF TagAddr
<1>3. tagv' = IF main = "REFILL" THEN [tagv EXCEPT ![victim][in.index] = [valid |-> TRUE, tag |-> reg.tag]]
              ELSE tagv
  BY <1>2 DEF Stepping, Memories
<1>4. tagv' \in [Way -> [Index -> [valid : BOOLEAN, tag : Tag]]]
  BY <1>1, <1>2, <1>3
<1>5. tagOut' = [w \in Way |-> IF main = "REFILL" /\ victim = w THEN tagOut[w] ELSE tagv[w][in.index]]
  BY <1>2 DEF Stepping, Memories, Promised, Shown
<1>6. main = "REFILL" => in.index = reg.index
  BY InputTyped
<1> QED BY <1>1, <1>2, <1>3, <1>4, <1>5, <1>6

LEMMA BankAt ==
    ASSUME NEW in, NEW bus, Stepping(in, bus), main # "REPLACE"
    PROVE  BankAddr(in) = in.index
<1>1. reg.index \in Index /\ in.index \in Index /\ (main # "IDLE" \/ writing => in.index = reg.index)
  BY InputTyped DEF Stepping, CacheInv, Typed
<1>2. main \in {"IDLE", "LOOKUP", "MISS", "REFILL"} /\ (writing => buffer.index = reg.index)
  BY DEF Stepping, CacheInv, Typed, AtWork
<1>3. (IF main = "IDLE" THEN {in.index} ELSE {}) \cup
      (IF main \in {"LOOKUP", "MISS", "REFILL"} THEN {reg.index} ELSE {}) \cup
      (IF writing THEN {buffer.index} ELSE {}) = {in.index}
  BY <1>1, <1>2
<1>4. BankAddr(in) = Or({in.index})
  BY <1>3 DEF BankAddr
<1> QED BY <1>1, <1>4 DEF Or, Index

\* The bank that is written, by the write buffer or by the line that comes in.
LEMMA PortTyped ==
    ASSUME NEW in, NEW bus, Stepping(in, bus)
    PROVE  /\ Port(bus).way \in Way /\ Port(bus).word \in Word /\ Port(bus).strobe \in SUBSET Byte
           /\ main \in {"IDLE", "LOOKUP", "MISS", "REPLACE", "REFILL"}
           /\ writing => /\ main \in {"IDLE", "LOOKUP"}
                         /\ Port(bus) = [way |-> buffer.way, word |-> buffer.word,
                                         strobe |-> buffer.strobe, data |-> buffer.data]
           /\ ~ writing => Port(bus) = [way |-> victim, word |-> beat,
                                        strobe |-> IF main = "REFILL" THEN Byte ELSE {},
                                        data |-> Refilled(bus)]
           /\ writing \/ main = "REFILL" => Port(bus).data \in Data
           /\ main = "REFILL" => Refilled(bus) \in Data
<1>1. /\ writing \in BOOLEAN /\ victim \in Way /\ beat \in Word /\ reg.data \in Data
      /\ buffer.way \in Way /\ buffer.word \in Word /\ buffer.strobe \in SUBSET Byte /\ buffer.data \in Data
      /\ main \in {"IDLE", "LOOKUP", "MISS", "REPLACE", "REFILL"}
      /\ memory \in [Lines \X Word -> Data]
  BY DEF Stepping, CacheInv, Typed
<1>2. writing => main \in {"IDLE", "LOOKUP"}
  BY DEF Stepping, CacheInv, AtWork
<1>3. main = "REFILL" => Refilled(bus) \in Data
  <2>1. main = "REFILL" => <<Asked, beat>> \in Lines \X Word
    BY <1>1 DEF Stepping, CacheInv, AtWork
  <2>2. bus.retData = memory[<<Asked, beat>>]
    BY DEF Stepping
  <2> QED BY <1>1, <2>1, <2>2 DEF Refilled
<1> QED BY <1>1, <1>2, <1>3 DEF Port

\* The bank of the port, its word, and nothing else changes.
LEMMA BankWrites ==
    ASSUME NEW in, NEW bus, Stepping(in, bus)
    PROVE  /\ bank' \in [Way -> [Index -> [Word -> Data]]]
           /\ \A w \in Way, i \in Index, k \in Word :
                bank'[w][i][k] = IF /\ writing \/ main = "REFILL"
                                    /\ w = Port(bus).way /\ i = reg.index /\ k = Port(bus).word
                                 THEN Overlay(Port(bus).strobe, Port(bus).data, bank[w][i][k])
                                 ELSE bank[w][i][k]
<1> DEFINE q == Port(bus)
<1>1. /\ bank \in [Way -> [Index -> [Word -> Data]]]
      /\ reg.index \in Index /\ in.index \in Index /\ (main # "IDLE" \/ writing => in.index = reg.index)
  BY InputTyped DEF Stepping, CacheInv, Typed
<1>2. /\ q.way \in Way /\ q.word \in Word /\ q.strobe \in SUBSET Byte
      /\ writing \/ main = "REFILL" => q.data \in Data
      /\ writing => main \in {"IDLE", "LOOKUP"}
      /\ q.strobe # {} => writing \/ main = "REFILL"
  BY PortTyped
<1>3. q.strobe # {} => BankAddr(in) = reg.index
  BY <1>1, <1>2, BankAt
<1>4. bank' = IF q.strobe = {} THEN bank
              ELSE [bank EXCEPT ![q.way][BankAddr(in)][q.word] = Overlay(q.strobe, q.data, bank[q.way][BankAddr(in)][q.word])]
  BY DEF Stepping, Memories
<1>5. bank' = IF q.strobe = {} THEN bank
              ELSE [bank EXCEPT ![q.way][reg.index][q.word] = Overlay(q.strobe, q.data, bank[q.way][reg.index][q.word])]
  BY <1>3, <1>4
<1> HIDE DEF q
<1>6. bank[q.way][reg.index][q.word] \in Data
  BY <1>1, <1>2
<1>7. q.strobe # {} => Overlay(q.strobe, q.data, bank[q.way][reg.index][q.word]) \in Data
  BY <1>2, <1>6, Overlays
<1>8. bank' \in [Way -> [Index -> [Word -> Data]]]
  BY <1>1, <1>2, <1>5, <1>7
<1>9. \A w \in Way, i \in Index, k \in Word :
        bank'[w][i][k] = IF q.strobe # {} /\ w = q.way /\ i = reg.index /\ k = q.word
                         THEN Overlay(q.strobe, q.data, bank[w][i][k]) ELSE bank[w][i][k]
  BY <1>1, <1>2, <1>5
<1>10. \A x \in Data : Overlay({}, q.data, x) = x
  BY DEF Overlay, Data
<1>11. \A w \in Way, i \in Index, k \in Word : bank[w][i][k] \in Data
  BY <1>1
<1>12. \A w \in Way, i \in Index, k \in Word :
        bank'[w][i][k] = IF /\ writing \/ main = "REFILL"
                            /\ w = q.way /\ i = reg.index /\ k = q.word
                         THEN Overlay(q.strobe, q.data, bank[w][i][k]) ELSE bank[w][i][k]
  <2>1. SUFFICES ASSUME NEW w \in Way, NEW i \in Index, NEW k \in Word,
                        w = q.way, i = reg.index, k = q.word, q.strobe = {}
                 PROVE  Overlay(q.strobe, q.data, bank[w][i][k]) = bank[w][i][k]
    BY <1>2, <1>9
  <2> QED BY <1>10, <1>11, <2>1
<1> QED BY <1>8, <1>12 DEF q

\* What the banks show: without a write, what they hold; a bank that is written does not
\* change its output.
LEMMA BankShows ==
    ASSUME NEW in, NEW bus, Stepping(in, bus)
    PROVE  /\ bankOut' \in [Way -> [Word -> Data]]
           /\ main \in {"IDLE", "LOOKUP", "MISS"} =>
                \A w \in Way, k \in Word :
                    (writing => k # buffer.word) => bankOut'[w][k] = bank[w][in.index][k]
<1> DEFINE q == Port(bus)
           hits(w, k) == q.way = w /\ q.word = k /\ q.strobe # {}
<1>1. bank \in [Way -> [Index -> [Word -> Data]]] /\ bankOut \in [Way -> [Word -> Data]] /\ in.index \in Index
  BY InputTyped DEF Stepping, CacheInv, Typed
<1>2. BankAddr(in) \in Index
  BY DEF BankAddr, Or, Index
<1>3. bankOut' = [w \in Way |-> [k \in Word |->
                    Shown(bankOut[w][k], hits(w, k), bank[w][BankAddr(in)][k], bank'[w][BankAddr(in)][k])]]
  BY DEF Stepping, Memories
<1>4. RamMode = "no_change"
  BY DEF Stepping, Promised
<1>5. \A w \in Way, k \in Word :
        bankOut'[w][k] = IF hits(w, k) THEN bankOut[w][k] ELSE bank[w][BankAddr(in)][k]
  <2> HIDE DEF hits
  <2> QED BY <1>3, <1>4 DEF Shown
<1>6. bankOut' \in [Way -> [Word -> Data]]
  <2>1. \A w \in Way, k \in Word : bankOut'[w][k] \in Data
    BY <1>1, <1>2, <1>5
  <2>2. bankOut' = [w \in Way |-> [k \in Word |-> bankOut'[w][k]]]
    BY <1>3
  <2> QED BY <2>1, <2>2
<1>7. ASSUME main \in {"IDLE", "LOOKUP", "MISS"}, NEW w \in Way, NEW k \in Word, writing => k # buffer.word
      PROVE  bankOut'[w][k] = bank[w][in.index][k]
  <2>1. BankAddr(in) = in.index
    BY <1>7, BankAt
  <2>2. ~ hits(w, k)
    BY <1>7, PortTyped
  <2> QED BY <1>5, <2>1, <2>2
<1> QED BY <1>6, <1>7

LEMMA DirtyStep ==
    ASSUME NEW in, NEW bus, Stepping(in, bus)
    PROVE  /\ dirty' \in [Way -> [Index -> BOOLEAN]]
           /\ main # "REFILL" /\ ~ writing => dirty' = dirty
           /\ writing => \A w \in Way, i \in Index :
                ~ dirty'[w][i] => ~ dirty[w][i] /\ \A k \in Word : bank'[w][i][k] = bank[w][i][k]
           /\ main = "REFILL" => \A w \in Way, i \in Index :
                dirty'[w][i] = IF w = victim /\ i = reg.index THEN reg.store ELSE dirty[w][i]
<1> DEFINE q == Port(bus)
<1>1. /\ dirty \in [Way -> [Index -> BOOLEAN]] /\ reg.index \in Index /\ reg.store \in BOOLEAN
      /\ bank \in [Way -> [Index -> [Word -> Data]]]
      /\ writing => buffer.index = reg.index
  BY DEF Stepping, CacheInv, Typed, AtWork
<1>2. /\ q.way \in Way
      /\ writing => q = [way |-> buffer.way, word |-> buffer.word, strobe |-> buffer.strobe, data |-> buffer.data]
      /\ writing => main \in {"IDLE", "LOOKUP"}
      /\ ~ writing => q = [way |-> victim, word |-> beat,
                           strobe |-> IF main = "REFILL" THEN Byte ELSE {}, data |-> Refilled(bus)]
  BY PortTyped
<1>3. dirty' = IF q.strobe = {} THEN dirty
               ELSE IF writing THEN [dirty EXCEPT ![q.way][buffer.index] = TRUE]
               ELSE [dirty EXCEPT ![q.way][reg.index] = reg.store]
  BY DEF Stepping, Memories
<1>4. \A w \in Way, i \in Index, k \in Word :
                bank'[w][i][k] = IF /\ writing \/ main = "REFILL"
                                    /\ w = q.way /\ i = reg.index /\ k = q.word
                                 THEN Overlay(q.strobe, q.data, bank[w][i][k])
                                 ELSE bank[w][i][k]
  BY BankWrites
<1>5. q.strobe = {} => \A w \in Way, i \in Index, k \in Word : Overlay(q.strobe, q.data, bank[w][i][k]) = bank[w][i][k]
  <2>1. \A x \in Data : Overlay({}, q.data, x) = x
    BY DEF Overlay, Data
  <2> QED BY <1>1, <2>1
<1>6. Byte # {}
  BY CacheAssumption DEF Byte
<1> HIDE DEF q
<1>7. dirty' \in [Way -> [Index -> BOOLEAN]]
  BY <1>1, <1>2, <1>3
<1>8. main # "REFILL" /\ ~ writing => dirty' = dirty
  BY <1>2, <1>3
<1>9. ASSUME writing, NEW w \in Way, NEW i \in Index, ~ dirty'[w][i]
      PROVE  ~ dirty[w][i] /\ \A k \in Word : bank'[w][i][k] = bank[w][i][k]
  <2>1. CASE q.strobe = {}
    BY <1>3, <1>4, <1>5, <1>9, <2>1
  <2>2. CASE q.strobe # {}
    <3>1. dirty' = [dirty EXCEPT ![q.way][reg.index] = TRUE]
      BY <1>1, <1>3, <1>9, <2>2
    <3>2. ~ (w = q.way /\ i = reg.index) /\ ~ dirty[w][i]
      BY <1>1, <1>2, <1>9, <3>1
    <3> QED BY <1>4, <3>2
  <2> QED BY <2>1, <2>2
<1>10. main = "REFILL" => \A w \in Way, i \in Index :
         dirty'[w][i] = IF w = victim /\ i = reg.index THEN reg.store ELSE dirty[w][i]
  <2>1. SUFFICES ASSUME main = "REFILL" PROVE dirty' = [dirty EXCEPT ![victim][reg.index] = reg.store] /\ victim \in Way
    BY <1>1
  <2>2. ~ writing
    BY <1>2, <2>1
  <2>3. q.way = victim /\ q.strobe = Byte
    BY <1>2, <2>1, <2>2
  <2> QED BY <1>2, <1>3, <1>6, <2>2, <2>3
<1> QED BY <1>7, <1>8, <1>9, <1>10

----------------------------------------------------------------------------
(* What one cycle does to the registers                                    *)

LEMMA Flow ==
    ASSUME NEW in, NEW bus, Stepping(in, bus)
    PROVE  /\ main = "IDLE" \/ (main = "LOOKUP" /\ hit) => main' = IF Taken(in) THEN "LOOKUP" ELSE "IDLE"
           /\ main = "LOOKUP" /\ ~ hit => main' = "MISS"
           /\ main = "MISS" => main' = IF bus.wrRdy THEN "REPLACE" ELSE "MISS"
           /\ main = "REPLACE" => main' = IF bus.rdRdy THEN "REFILL" ELSE "REPLACE"
           /\ main = "REFILL" => main' = IF beat = NumWords - 1 THEN "IDLE" ELSE "REFILL"
           /\ main' \in {"IDLE", "LOOKUP", "MISS", "REPLACE", "REFILL"}
<1>1. main \in {"IDLE", "LOOKUP", "MISS", "REPLACE", "REFILL"}
  BY DEF Stepping, CacheInv, Typed
<1>2. main' = NextMain(in, bus)
  BY DEF Stepping, Registers
<1>3. Conflict(in) => in.valid
  BY DEF Conflict
<1>4. main = "LOOKUP" /\ ~ hit => ~ Conflict(in)
  BY DEF Stepping, Promised, AllPromises, Kept
<1>5. CASE main = "IDLE"
  BY <1>2, <1>5 DEF NextMain
<1>6. CASE main = "LOOKUP"
  <2>1. main' = IF (~ in.valid /\ hit) \/ Conflict(in) THEN "IDLE"
                ELSE IF hit THEN "LOOKUP" ELSE "MISS"
    BY <1>2, <1>6 DEF NextMain
  <2>2. hit => (Taken(in) <=> in.valid /\ ~ Conflict(in))
    BY <1>6 DEF Taken
  <2> QED BY <1>3, <1>4, <1>6, <2>1, <2>2
<1>7. CASE main = "MISS"
  BY <1>2, <1>7 DEF NextMain
<1>8. CASE main = "REPLACE"
  BY <1>2, <1>8 DEF NextMain
<1>9. CASE main = "REFILL"
  BY <1>2, <1>9 DEF NextMain, Stepping
<1> QED BY <1>1, <1>5, <1>6, <1>7, <1>8, <1>9

LEMMA Takes ==
    ASSUME NEW in, NEW bus, Stepping(in, bus)
    PROVE  /\ ~ Taken(in) => reg' = reg
           /\ Taken(in) =>
                /\ in.valid /\ (main = "IDLE" \/ (main = "LOOKUP" /\ hit)) /\ main' = "LOOKUP"
                /\ reg' = [store |-> in.store, index |-> in.index, tag |-> in.tag, word |-> in.word,
                           strobe |-> in.strobe, data |-> in.data]
                /\ ~ in.store => /\ main = "LOOKUP" /\ reg.store => reg.word # in.word
                                 /\ writing => buffer.word # in.word
                /\ in.store /\ MayMiss(in) => in.strobe = Byte
           /\ main' = "LOOKUP" => Taken(in)
<1>1. ~ Taken(in) => reg' = reg
  BY DEF Stepping, Registers
<1>2. ASSUME Taken(in)
      PROVE  /\ in.valid /\ (main = "IDLE" \/ (main = "LOOKUP" /\ hit)) /\ main' = "LOOKUP"
             /\ reg' = [store |-> in.store, index |-> in.index, tag |-> in.tag, word |-> in.word,
                        strobe |-> in.strobe, data |-> in.data]
             /\ in.store /\ MayMiss(in) => in.strobe = Byte
  <2>1. in.valid /\ (main = "IDLE" \/ (main = "LOOKUP" /\ hit))
    BY <1>2 DEF Taken
  <2>2. in.store /\ MayMiss(in) => in.strobe = Byte
    BY DEF Stepping, Promised, AllPromises, Kept
  <2> QED BY <1>2, <2>1, <2>2, Flow DEF Stepping, Registers
<1>3. ASSUME Taken(in), ~ in.store
      PROVE  /\ main = "LOOKUP" /\ reg.store => reg.word # in.word
             /\ writing => buffer.word # in.word
  BY <1>3 DEF Taken, Conflict
<1>4. main \in {"IDLE", "LOOKUP", "MISS", "REPLACE", "REFILL"}
  BY DEF Stepping, CacheInv, Typed
<1>5. main' = "LOOKUP" => Taken(in)
  BY <1>4, Flow
<1> QED BY <1>1, <1>2, <1>3, <1>5

LEMMA Waits ==
    ASSUME NEW in, NEW bus, Stepping(in, bus)
    PROVE  /\ writing' = (main = "LOOKUP" /\ reg.store /\ hit)
           /\ ~ writing' => buffer' = buffer
           /\ writing' => buffer' = [index |-> reg.index, way |-> IF Hits(1) THEN 1 ELSE 0,
                                     word |-> reg.word, strobe |-> reg.strobe, data |-> reg.data]
           /\ victim' \in Way /\ (main # "MISS" => victim' = victim)
           /\ wrReq' = (main = "MISS" /\ bus.wrRdy)
<1>1. wrReq => main = "REPLACE" /\ bus.wrRdy
  BY DEF Stepping, CacheInv, Showing
<1>2. victim \in Way
  BY DEF Stepping, CacheInv, Typed
<1>3. victim' \in Way /\ (main # "MISS" => victim' = victim)
  BY <1>2 DEF Stepping, Registers
<1>4. wrReq' = (main = "MISS" /\ bus.wrRdy)
  BY <1>1 DEF Stepping, Registers
<1>5. writing' = (main = "LOOKUP" /\ reg.store /\ hit)
  BY DEF Stepping, Registers, hitWrite
<1>6. /\ ~ writing' => buffer' = buffer
      /\ writing' => buffer' = [index |-> reg.index, way |-> IF Hits(1) THEN 1 ELSE 0,
                                word |-> reg.word, strobe |-> reg.strobe, data |-> reg.data]
  BY DEF Stepping, Registers
<1> QED BY <1>3, <1>4, <1>5, <1>6

LEMMA Beats ==
    ASSUME NEW in, NEW bus, Stepping(in, bus)
    PROVE  /\ beat' \in Word
           /\ main \in {"IDLE", "LOOKUP", "MISS"} => beat' = beat
           /\ main = "REPLACE" /\ main' = "REFILL" => beat' = 0
           /\ main = "REFILL" /\ main' = "REFILL" => beat' = beat + 1 /\ beat + 1 \in Word
<1>1. beat \in 0 .. NumWords - 1 /\ NumWords \in Nat \ {0}
  BY CacheAssumption DEF Stepping, CacheInv, Typed, Word
<1>2. beat' = IF main = "REPLACE" /\ bus.rdRdy THEN 0
              ELSE IF main = "REFILL" THEN (beat + 1) % NumWords ELSE beat
  BY DEF Stepping, Registers
<1>3. (beat + 1) % NumWords \in 0 .. NumWords - 1
  BY <1>1
<1>4. beat # NumWords - 1 => (beat + 1) % NumWords = beat + 1 /\ beat + 1 \in 0 .. NumWords - 1
  BY <1>1
<1>5. main = "REPLACE" => (main' = "REFILL" <=> bus.rdRdy)
  BY Flow DEF Stepping
<1>6. main = "REFILL" => (main' = "REFILL" <=> beat # NumWords - 1)
  BY Flow
<1>7. 0 \in 0 .. NumWords - 1
  BY <1>1
<1> QED BY <1>1, <1>2, <1>3, <1>4, <1>5, <1>6, <1>7 DEF Word

\* The memory changes when the old line of the victim is written back, and the ideal
\* one when a store is taken.
LEMMA MemoryStep ==
    ASSUME NEW in, NEW bus, Stepping(in, bus)
    PROVE  /\ memory' \in [Lines \X Word -> Data]
           /\ ~ (main = "REPLACE" /\ wrReq) => memory' = memory
           /\ main = "REPLACE" /\ wrReq =>
                \A l \in Lines, k \in Word :
                    memory'[<<l, k>>] = IF Holds(victim, l) /\ l[2] = reg.index /\ dirty[victim][reg.index]
                                        THEN bank[victim][reg.index][k] ELSE memory[<<l, k>>]
<1>1. /\ memory \in [Lines \X Word -> Data] /\ bankOut \in [Way -> [Word -> Data]]
      /\ victim \in Way /\ reg.index \in Index /\ Lines \subseteq Tag \X Index
  BY CacheAssumption DEF Stepping, CacheInv, Typed
<1>2. memory' = IF WriteBack /\ bus.wrRdy
                THEN [x \in DOMAIN memory |->
                        IF x[1] = <<tagOut[victim].tag, reg.index>> THEN bankOut[victim][x[2]] ELSE memory[x]]
                ELSE memory
  BY DEF Stepping, Written
<1>3. WriteBack => main = "REPLACE" /\ wrReq /\ tagOut[victim].valid /\ dirty[victim][reg.index]
  BY DEF WriteBack, MustWrite
<1>4. \A x \in Lines \X Word : x[1] \in Lines /\ x[2] \in Word
  OBVIOUS
<1>5. memory' \in [Lines \X Word -> Data]
  <2>1. \A x \in Lines \X Word : bankOut[victim][x[2]] \in Data /\ memory[x] \in Data
    BY <1>1, <1>4
  <2> QED BY <1>1, <1>2, <2>1
<1>6. ASSUME main = "REPLACE", wrReq, NEW l \in Lines, NEW k \in Word
      PROVE  memory'[<<l, k>>] = IF Holds(victim, l) /\ l[2] = reg.index /\ dirty[victim][reg.index]
                                 THEN bank[victim][reg.index][k] ELSE memory[<<l, k>>]
  <2>1. tagOut[victim] = tagv[victim][reg.index] /\ bankOut[victim][k] = bank[victim][reg.index][k]
    BY <1>1, <1>6 DEF Stepping, CacheInv, Showing
  <2>2. bus.wrRdy
    BY <1>6 DEF Stepping
  <2>3. WriteBack <=> tagv[victim][reg.index].valid /\ dirty[victim][reg.index]
    BY <1>6, <2>1 DEF WriteBack, MustWrite
  <2>4. l = <<tagOut[victim].tag, reg.index>> <=> l[1] = tagv[victim][reg.index].tag /\ l[2] = reg.index
    BY <1>1, <2>1
  <2>5. Holds(victim, l) /\ l[2] = reg.index <=>
          tagv[victim][reg.index].valid /\ l = <<tagOut[victim].tag, reg.index>>
    BY <2>4 DEF Holds
  <2>6. memory'[<<l, k>>] = IF WriteBack /\ l = <<tagOut[victim].tag, reg.index>>
                            THEN bankOut[victim][k] ELSE memory[<<l, k>>]
    BY <1>1, <1>2, <2>2
  <2> QED BY <2>1, <2>3, <2>5, <2>6
<1> QED BY <1>2, <1>3, <1>5, <1>6

LEMMA IdealStep ==
    ASSUME NEW in, NEW bus, Stepping(in, bus)
    PROVE  /\ ideal' \in [Lines \X Word -> Data]
           /\ ~ (Taken(in) /\ in.store) => ideal' = ideal
           /\ Taken(in) /\ in.store =>
                \A l \in Lines, k \in Word :
                    ideal'[<<l, k>>] = IF l = <<in.tag, in.index>> /\ k = in.word
                                       THEN Overlay(in.strobe, in.data, ideal[<<l, k>>]) ELSE ideal[<<l, k>>]
<1>1. ideal \in [Lines \X Word -> Data]
  BY DEF Stepping, CacheInv, Typed
<1>2. ideal' = IF Taken(in) /\ in.store
               THEN [ideal EXCEPT ![<<<<in.tag, in.index>>, in.word>>] =
                       Overlay(in.strobe, in.data, ideal[<<<<in.tag, in.index>>, in.word>>])]
               ELSE ideal
  BY DEF Stepping, History
<1>3. Taken(in) => <<in.tag, in.index>> \in Lines /\ in.word \in Word /\ in.data \in Data
  BY InputTyped, Takes
<1>4. Taken(in) => Overlay(in.strobe, in.data, ideal[<<<<in.tag, in.index>>, in.word>>]) \in Data
  BY <1>1, <1>3, Overlays
<1> QED BY <1>1, <1>2, <1>3, <1>4

LEMMA TypedStep ==
    ASSUME NEW in, NEW bus, Stepping(in, bus)
    PROVE  Typed'
<1>1. /\ reg \in [store : BOOLEAN, index : Index, tag : Tag, word : Word, strobe : SUBSET Byte, data : Data]
      /\ buffer \in [index : Index, way : Way, word : Word, strobe : SUBSET Byte, data : Data]
      /\ {owed, clash} \subseteq BOOLEAN
  BY DEF Stepping, CacheInv, Typed
<1>2. reg' \in [store : BOOLEAN, index : Index, tag : Tag, word : Word, strobe : SUBSET Byte, data : Data]
  <2>1. CASE Taken(in)
    <3>1. reg' = [store |-> in.store, index |-> in.index, tag |-> in.tag, word |-> in.word,
                  strobe |-> in.strobe, data |-> in.data]
      BY <2>1, Takes
    <3>2. /\ in.store \in BOOLEAN /\ in.index \in Index /\ in.tag \in Tag
          /\ in.word \in Word /\ in.strobe \in SUBSET Byte /\ in.data \in Data
      BY InputTyped
    <3> QED BY <3>1, <3>2
  <2>2. CASE ~ Taken(in)
    BY <1>1, <2>2, Takes
  <2> QED BY <2>1, <2>2
<1>3. buffer' \in [index : Index, way : Way, word : Word, strobe : SUBSET Byte, data : Data]
  <2>1. (IF Hits(1) THEN 1 ELSE 0) \in Way
    BY DEF Way
  <2> QED BY <1>1, <2>1, Waits
<1>4. writing' \in BOOLEAN /\ wrReq' \in BOOLEAN
  <2>1. bus.wrRdy \in BOOLEAN /\ reg.store \in BOOLEAN
    BY <1>1 DEF Stepping
  <2>2. hit \in BOOLEAN
    BY DEF hit
  <2> QED BY <2>1, <2>2, Waits
<1>5. owed' \in BOOLEAN /\ clash' \in BOOLEAN
  BY <1>1 DEF Stepping, History, Conflict
<1>6. main' \in {"IDLE", "LOOKUP", "MISS", "REPLACE", "REFILL"}
  BY Flow
<1>7. victim' \in Way /\ beat' \in Word
  BY Waits, Beats
<1>8. dirty' \in [Way -> [Index -> BOOLEAN]]
  BY DirtyStep
<1>9. /\ tagv' \in [Way -> [Index -> [valid : BOOLEAN, tag : Tag]]]
      /\ tagOut' \in [Way -> [valid : BOOLEAN, tag : Tag]]
  BY TagStep
<1>10. bank' \in [Way -> [Index -> [Word -> Data]]] /\ bankOut' \in [Way -> [Word -> Data]]
  BY BankWrites, BankShows
<1>11. memory' \in [Lines \X Word -> Data] /\ ideal' \in [Lines \X Word -> Data]
  BY MemoryStep, IdealStep
<1> QED BY <1>2, <1>3, <1>4, <1>5, <1>6, <1>7, <1>8, <1>9, <1>10, <1>11 DEF Typed

----------------------------------------------------------------------------
(* The tags                                                                *)

LEMMA LineParts ==
    ASSUME NEW l \in Lines
    PROVE  l[1] \in Tag /\ l[2] \in Index /\ l = <<l[1], l[2]>>
BY CacheAssumption

\* In LOOKUP a way hits that holds the line; where nothing hits, none holds it.
LEMMA HitHolds ==
    ASSUME CacheInv, main # "IDLE"
    PROVE  /\ Asked \in Lines /\ Asked[2] = reg.index
           /\ main \in {"LOOKUP", "MISS", "REPLACE"} => \A w \in Way : Hits(w) <=> Holds(w, Asked)
           /\ Missed => \A w \in Way : w # victim \/ main # "REFILL" => ~ Holds(w, Asked)
           /\ Missed <=> main \in {"MISS", "REPLACE", "REFILL"}
<1>1. Asked \in Lines /\ Asked[1] = reg.tag /\ Asked[2] = reg.index
  BY DEF CacheInv, AtWork, Asked
<1>2. main \in {"LOOKUP", "MISS", "REPLACE"} => \A w \in Way : Hits(w) <=> Holds(w, Asked)
  BY <1>1 DEF CacheInv, Showing, Hits, Holds
<1>3. main = "REFILL" => \A w \in Way : w # victim => (Hits(w) <=> Holds(w, Asked))
  BY <1>1 DEF CacheInv, Showing, Hits, Holds
<1>4. Missed => \A w \in Way : ~ Hits(w)
  BY DEF CacheInv, AtWork, hit
<1> QED BY <1>1, <1>2, <1>3, <1>4 DEF Missed

LEMMA HoldsStep ==
    ASSUME NEW in, NEW bus, Stepping(in, bus)
    PROVE  /\ main # "REFILL" => \A w \in Way, l \in Lines : Holds(w, l)' <=> Holds(w, l)
           /\ main = "REFILL" => \A w \in Way, l \in Lines :
                Holds(w, l)' <=> IF w = victim /\ l[2] = reg.index THEN l = Asked ELSE Holds(w, l)
<1>1. /\ tagv \in [Way -> [Index -> [valid : BOOLEAN, tag : Tag]]]
      /\ victim \in Way /\ reg.index \in Index /\ reg.tag \in Tag
  BY DEF Stepping, CacheInv, Typed
<1>2. CASE main # "REFILL"
  BY <1>2, TagStep DEF Holds
<1>3. ASSUME main = "REFILL", NEW w \in Way, NEW l \in Lines
      PROVE  Holds(w, l)' <=> IF w = victim /\ l[2] = reg.index THEN l = Asked ELSE Holds(w, l)
  <2>1. tagv' = [tagv EXCEPT ![victim][reg.index] = [valid |-> TRUE, tag |-> reg.tag]]
    BY <1>3, TagStep
  <2>2. l[2] \in Index /\ l = <<l[1], l[2]>>
    BY LineParts
  <2>3. tagv'[w][l[2]] = IF w = victim /\ l[2] = reg.index THEN [valid |-> TRUE, tag |-> reg.tag] ELSE tagv[w][l[2]]
    BY <1>1, <2>1, <2>2
  <2>4. l[2] = reg.index => (l = Asked <=> l[1] = reg.tag)
    BY <2>2 DEF Asked
  <2> QED BY <2>3, <2>4 DEF Holds
<1> QED BY <1>2, <1>3

LEMMA TagsStep ==
    ASSUME NEW in, NEW bus, Stepping(in, bus)
    PROVE  TagsRight'
<1>1. /\ tagv \in [Way -> [Index -> [valid : BOOLEAN, tag : Tag]]]
      /\ victim \in Way /\ reg.index \in Index
      /\ \A w \in Way, i \in Index : tagv[w][i].valid => <<tagv[w][i].tag, i>> \in Lines
      /\ \A l \in Lines : ~ (Holds(0, l) /\ Holds(1, l))
  BY DEF Stepping, CacheInv, Typed, TagsRight
<1>2. CASE main # "REFILL"
  <2>1. tagv' = tagv
    BY <1>2, TagStep
  <2> QED BY <1>1, <2>1 DEF TagsRight, Holds
<1>3. CASE main = "REFILL"
  <2>1. tagv' = [tagv EXCEPT ![victim][reg.index] = [valid |-> TRUE, tag |-> reg.tag]]
    BY <1>3, TagStep
  <2>2. Asked \in Lines /\ Asked = <<reg.tag, reg.index>> /\ \A w \in Way : w # victim => ~ Holds(w, Asked)
    BY <1>3, HitHolds DEF Stepping, Asked
  <2>3. \A w \in Way, i \in Index : tagv'[w][i].valid => <<tagv'[w][i].tag, i>> \in Lines
    BY <1>1, <2>1, <2>2
  <2>4. \A w \in Way, l \in Lines :
          Holds(w, l)' <=> IF w = victim /\ l[2] = reg.index THEN l = Asked ELSE Holds(w, l)
    BY <1>3, HoldsStep
  <2>5. 0 \in Way /\ 1 \in Way /\ Way = {0, 1}
    BY DEF Way
  <2>6. \A l \in Lines : ~ (Holds(0, l)' /\ Holds(1, l)')
    BY <1>1, <2>2, <2>4, <2>5
  <2> QED BY <2>3, <2>6 DEF TagsRight
<1> QED BY <1>2, <1>3

----------------------------------------------------------------------------
(* What the memories show, and the request at work                         *)

LEMMA ShowingStep ==
    ASSUME NEW in, NEW bus, Stepping(in, bus)
    PROVE  Showing'
<1>1. /\ tagv \in [Way -> [Index -> [valid : BOOLEAN, tag : Tag]]] /\ victim \in Way /\ reg.index \in Index
      /\ in.index \in Index /\ in.word \in Word
      /\ main # "IDLE" => in.index = reg.index
      /\ main \in {"IDLE", "LOOKUP", "MISS", "REPLACE", "REFILL"}
  BY InputTyped DEF Stepping, CacheInv, Typed
<1>2. main' # "IDLE" => reg'.index = in.index
  BY <1>1, Takes, Flow
<1>3. main' \in {"LOOKUP", "MISS", "REPLACE"} => \A w \in Way : tagOut'[w] = tagv'[w][reg'.index]
  <2>1. main' \in {"LOOKUP", "MISS", "REPLACE"} => main # "REFILL"
    BY Flow
  <2> QED BY <1>2, <2>1, TagStep
<1>4. main' = "REFILL" => \A w \in Way \ {victim'} : tagOut'[w] = tagv'[w][reg'.index]
  <2>1. SUFFICES ASSUME main' = "REFILL", NEW w \in Way, w # victim'
                 PROVE  tagOut'[w] = tagv'[w][reg'.index]
    OBVIOUS
  <2>2. main \in {"REPLACE", "REFILL"}
    BY <1>1, <2>1, Flow
  <2>3. victim' = victim
    BY <2>2, Waits
  <2>4. CASE main = "REPLACE"
    BY <1>2, <2>1, <2>4, TagStep
  <2>5. CASE main = "REFILL"
    <3>1. tagOut'[w] = tagv[w][reg.index]
      BY <2>1, <2>3, <2>5, TagStep
    <3>2. tagv' = [tagv EXCEPT ![victim][reg.index] = [valid |-> TRUE, tag |-> reg.tag]]
      BY <2>5, TagStep
    <3>3. tagv'[w] = tagv[w]
      BY <1>1, <2>1, <2>3, <3>2
    <3>4. reg'.index = reg.index
      BY <1>1, <1>2, <2>1, <2>5
    <3> QED BY <3>1, <3>3, <3>4
  <2> QED BY <2>2, <2>4, <2>5
<1>5. main' = "LOOKUP" /\ ~ reg'.store => \A w \in Way : bankOut'[w][reg'.word] = bank'[w][reg'.index][reg'.word]
  <2>1. SUFFICES ASSUME main' = "LOOKUP", ~ reg'.store, NEW w \in Way
                 PROVE  bankOut'[w][in.word] = bank'[w][in.index][in.word] /\ reg'.word = in.word
    BY <1>2
  <2>2. Taken(in) /\ reg'.word = in.word /\ reg'.store = in.store /\ (writing => buffer.word # in.word)
    BY <2>1, Takes
  <2>3. main \in {"IDLE", "LOOKUP"}
    BY <2>2, Takes
  <2>4. bankOut'[w][in.word] = bank[w][in.index][in.word]
    BY <1>1, <2>2, <2>3, BankShows
  <2>5. writing => Port(bus).word = buffer.word
    BY PortTyped
  <2>6. bank'[w][in.index][in.word] = bank[w][in.index][in.word]
    BY <1>1, <2>2, <2>3, <2>5, BankWrites
  <2> QED BY <2>2, <2>4, <2>6
<1>6. wrReq' => main' = "REPLACE" /\ \A w \in Way, k \in Word : bankOut'[w][k] = bank'[w][reg'.index][k]
  <2>1. SUFFICES ASSUME wrReq'
                 PROVE  main' = "REPLACE" /\ \A w \in Way, k \in Word : bankOut'[w][k] = bank'[w][reg'.index][k]
    OBVIOUS
  <2>2. main = "MISS" /\ main' = "REPLACE"
    BY <2>1, Waits, Flow
  <2>3. ~ writing
    BY <2>2 DEF Stepping, CacheInv, AtWork
  <2>4. \A w \in Way, k \in Word : bankOut'[w][k] = bank[w][in.index][k]
    BY <2>2, <2>3, BankShows
  <2>5. \A w \in Way, k \in Word : bank'[w][in.index][k] = bank[w][in.index][k]
    BY <1>1, <2>2, <2>3, BankWrites
  <2> QED BY <1>2, <2>2, <2>4, <2>5
<1> QED BY <1>3, <1>4, <1>5, <1>6 DEF Showing

\* While a request that missed waits, what the tags show is as it was.
LEMMA MissStays ==
    ASSUME NEW in, NEW bus, Stepping(in, bus), Missed'
    PROVE  /\ (main = "LOOKUP" /\ ~ hit) \/ Missed
           /\ reg' = reg /\ ~ hit'
<1>1. main \in {"LOOKUP", "MISS", "REPLACE", "REFILL"} /\ (main = "LOOKUP" => ~ hit)
  BY Flow DEF Missed, Stepping, CacheInv, Typed
<1>2. ~ Taken(in) /\ reg' = reg
  BY <1>1, Takes DEF Missed
<1>3. in.index = reg.index
  BY <1>1, InputTyped
<1>4. ~ hit
  BY <1>1 DEF Stepping, CacheInv, AtWork, Missed
<1>5. \A w \in Way : tagOut'[w] = tagOut[w]
  <2>1. CASE main # "REFILL"
    BY <1>1, <1>3, <2>1, TagStep DEF Stepping, CacheInv, Showing
  <2>2. CASE main = "REFILL"
    BY <2>2, TagStep DEF Stepping, CacheInv, Showing
  <2> QED BY <2>1, <2>2
<1>6. ~ hit'
  BY <1>2, <1>4, <1>5 DEF hit, Hits
<1> QED BY <1>1, <1>2, <1>6 DEF Missed

LEMMA AtWorkStep ==
    ASSUME NEW in, NEW bus, Stepping(in, bus)
    PROVE  AtWork'
<1>1. /\ reg.index \in Index /\ in.index \in Index /\ (main # "IDLE" => in.index = reg.index)
      /\ main \in {"IDLE", "LOOKUP", "MISS", "REPLACE", "REFILL"}
  BY InputTyped DEF Stepping, CacheInv, Typed
<1>2. main' # "IDLE" => Asked' \in Lines
  <2>1. CASE Taken(in)
    BY <2>1, InputTyped, Takes DEF Asked
  <2>2. CASE ~ Taken(in)
    <3>1. main' # "IDLE" => main # "IDLE"
      BY <2>2, Flow
    <3> QED BY <2>2, <3>1, Takes DEF Asked, Stepping, CacheInv, AtWork
  <2> QED BY <2>1, <2>2
<1>3. Missed' => ~ hit' /\ (reg'.store => reg'.strobe = Byte)
  BY MissStays DEF Stepping, CacheInv, AtWork
<1>4. main' = "LOOKUP" /\ ~ hit' => (reg'.store => reg'.strobe = Byte)
  <2>1. SUFFICES ASSUME main' = "LOOKUP", ~ hit', reg'.store PROVE reg'.strobe = Byte
    OBVIOUS
  <2>2. Taken(in) /\ main # "REFILL"
    BY <2>1, Takes
  <2>3. /\ reg'.tag = in.tag /\ reg'.store = in.store /\ reg'.strobe = in.strobe
        /\ in.store /\ MayMiss(in) => in.strobe = Byte
    BY <2>2, Takes
  <2>4. \A w \in Way : tagOut'[w] = tagv[w][in.index]
    BY <2>2, TagStep
  <2>5. \A w \in Way : ~ (tagOut'[w].valid /\ tagOut'[w].tag = in.tag)
    BY <2>1, <2>3 DEF hit, Hits
  <2>6. MayMiss(in)
    BY <2>4, <2>5 DEF MayMiss
  <2> QED BY <2>1, <2>3, <2>6
<1>5. writing' => /\ main' \in {"IDLE", "LOOKUP"} /\ buffer'.index = reg'.index
                  /\ main' = "LOOKUP" /\ ~ reg'.store => buffer'.word # reg'.word
                  /\ tagv'[buffer'.way][buffer'.index].valid
  <2>1. SUFFICES ASSUME main = "LOOKUP", reg.store, hit,
                        buffer' = [index |-> reg.index, way |-> IF Hits(1) THEN 1 ELSE 0,
                                   word |-> reg.word, strobe |-> reg.strobe, data |-> reg.data]
                 PROVE  /\ main' \in {"IDLE", "LOOKUP"} /\ buffer'.index = reg'.index
                        /\ main' = "LOOKUP" /\ ~ reg'.store => buffer'.word # reg'.word
                        /\ tagv'[buffer'.way][buffer'.index].valid
    BY Waits
  <2>2. main' \in {"IDLE", "LOOKUP"}
    BY <2>1, Flow
  <2>3. buffer'.index = reg'.index
    BY <1>1, <2>1, Takes
  <2>4. main' = "LOOKUP" /\ ~ reg'.store => buffer'.word # reg'.word
    BY <2>1, Takes
  <2>5. buffer'.way \in Way /\ Hits(buffer'.way)
    BY <2>1 DEF hit, Way
  <2>6. tagv' = tagv
    BY <2>1, TagStep
  <2>7. tagv[buffer'.way][reg.index].valid
    BY <2>1, <2>5 DEF Hits, Stepping, CacheInv, Showing
  <2> QED BY <2>1, <2>2, <2>3, <2>4, <2>6, <2>7
<1> QED BY <1>2, <1>3, <1>4, <1>5 DEF AtWork

----------------------------------------------------------------------------
(* What is owed: this needs of the promises only "apart" and "gapless".    *)

Working ==
    /\ main \in {"IDLE", "LOOKUP", "MISS", "REPLACE", "REFILL"}
    /\ beat \in Word /\ reg.word \in Word /\ {reg.store, owed, clash} \subseteq BOOLEAN

Clocked(in, bus) ==
    /\ {"apart", "gapless"} \subseteq Promises
    /\ in \in Requests /\ Kept(in) /\ Registers(in, bus) /\ History(in, bus)
    /\ bus.retValid = (main = "REFILL") /\ bus.retLast = (beat = NumWords - 1)

\* From one state of the machine to the next.
LEMMA Turns ==
    ASSUME Working, NEW in, NEW bus, Clocked(in, bus)
    PROVE  /\ main = "IDLE" \/ (main = "LOOKUP" /\ hit) => main' = IF Taken(in) THEN "LOOKUP" ELSE "IDLE"
           /\ main = "LOOKUP" /\ ~ hit => main' = "MISS"
           /\ main = "MISS" => main' \in {"MISS", "REPLACE"}
           /\ main = "REPLACE" => main' = "REPLACE" \/ (main' = "REFILL" /\ beat' = 0)
           /\ main = "REFILL" => IF beat = NumWords - 1 THEN main' = "IDLE"
                                 ELSE main' = "REFILL" /\ beat' = beat + 1
<1>1. main' = NextMain(in, bus)
  BY DEF Clocked, Registers
<1>2. Conflict(in) => in.valid
  BY DEF Conflict
<1>3. main = "LOOKUP" /\ ~ hit => ~ Conflict(in)
  BY DEF Clocked, Kept
<1>4. CASE main = "IDLE"
  BY <1>1, <1>4 DEF NextMain
<1>5. CASE main = "LOOKUP"
  <2>1. main' = IF (~ in.valid /\ hit) \/ Conflict(in) THEN "IDLE"
                ELSE IF hit THEN "LOOKUP" ELSE "MISS"
    BY <1>1, <1>5 DEF NextMain
  <2>2. hit => (Taken(in) <=> in.valid /\ ~ Conflict(in))
    BY <1>5 DEF Taken
  <2> QED BY <1>2, <1>3, <1>5, <2>1, <2>2
<1>6. CASE main = "MISS"
  BY <1>1, <1>6 DEF NextMain
<1>7. CASE main = "REPLACE"
  BY <1>1, <1>7 DEF NextMain, Clocked, Registers
<1>8. CASE main = "REFILL"
  <2>1. main' = IF beat = NumWords - 1 THEN "IDLE" ELSE "REFILL"
    BY <1>1, <1>8 DEF NextMain, Clocked
  <2>2. beat' = (beat + 1) % NumWords
    BY <1>8 DEF Clocked, Registers
  <2>3. NumWords \in Nat /\ beat \in 0 .. NumWords - 1
    BY CacheAssumption DEF Working, Word
  <2>4. beat # NumWords - 1 => (beat + 1) % NumWords = beat + 1
    BY <2>3
  <2> QED BY <1>8, <2>1, <2>2, <2>4
<1> QED BY <1>4, <1>5, <1>6, <1>7, <1>8 DEF Working

\* Who is accepted is taken, unless it clashes with the write buffer at an idle cache.
LEMMA Accepts ==
    ASSUME Working, NEW in, NEW bus, Clocked(in, bus)
    PROVE  /\ Accepted(in) => main = "IDLE" \/ (main = "LOOKUP" /\ hit)
           /\ Accepted(in) /\ main = "LOOKUP" => ~ Conflict(in)
           /\ Taken(in) <=> Accepted(in) /\ ~ Conflict(in)
           /\ main = "IDLE" /\ Conflict(in) => Accepted(in)
BY DEF Accepted, AddrOk, Taken, Conflict

LEMMA OwingStep ==
    ASSUME Working, Owing, NEW in, NEW bus, Clocked(in, bus)
    PROVE  Owing'
<1>1. /\ main \in {"IDLE", "LOOKUP", "MISS", "REPLACE", "REFILL"}
      /\ beat \in 0 .. NumWords - 1 /\ reg.word \in 0 .. NumWords - 1 /\ NumWords \in Nat
      /\ reg.store \in BOOLEAN
  BY CacheAssumption DEF Working, Word
<1>2. /\ clash => main = "IDLE"
      /\ owed <=> \/ clash
                  \/ main = "LOOKUP"
                  \/ main \in {"MISS", "REPLACE"} /\ ~ reg.store
                  \/ main = "REFILL" /\ ~ reg.store /\ beat <= reg.word
  BY DEF Owing
<1>3. owed' <=> Accepted(in) \/ (owed /\ ~ DataOk(bus))
  BY DEF Clocked, History
<1>4. DataOk(bus) <=> (main = "LOOKUP" /\ (hit \/ reg.store)) \/ (main = "REFILL" /\ beat = reg.word /\ ~ reg.store)
  BY DEF Clocked, DataOk
<1>5. clash' <=> IF Accepted(in) THEN Conflict(in) ELSE clash
  BY DEF Clocked, History
<1>6. ~ Taken(in) => reg' = reg
  BY DEF Clocked, Registers
<1>7. CASE main = "IDLE" \/ (main = "LOOKUP" /\ hit)
  <2>1. main' = IF Taken(in) THEN "LOOKUP" ELSE "IDLE"
    BY <1>7, Turns
  <2> QED BY <1>2, <1>3, <1>4, <1>5, <1>7, <2>1, Accepts DEF Owing
<1>8. CASE main = "LOOKUP" /\ ~ hit
  <2>1. main' = "MISS" /\ ~ Accepted(in) /\ reg' = reg
    BY <1>6, <1>8, Turns, Accepts
  <2> QED BY <1>1, <1>2, <1>3, <1>4, <1>5, <1>8, <2>1 DEF Owing
<1>9. CASE main \in {"MISS", "REPLACE"}
  <2>1. ~ Accepted(in) /\ reg' = reg
    BY <1>6, <1>9, Accepts
  <2>2. main' \in {"MISS", "REPLACE"} \/ (main' = "REFILL" /\ beat' = 0)
    BY <1>9, Turns
  <2> QED BY <1>1, <1>2, <1>3, <1>4, <1>5, <1>9, <2>1, <2>2 DEF Owing
<1>10. CASE main = "REFILL"
  <2>1. ~ Accepted(in) /\ reg' = reg
    BY <1>6, <1>10, Accepts
  <2>2. (main' = "IDLE" /\ beat = NumWords - 1) \/ (main' = "REFILL" /\ beat' = beat + 1)
    BY <1>10, Turns
  <2> QED BY <1>1, <1>2, <1>3, <1>4, <1>5, <1>10, <2>1, <2>2 DEF Owing
<1> QED BY <1>1, <1>7, <1>8, <1>9, <1>10

LEMMA WorkingStep ==
    ASSUME Working, NEW in, NEW bus, Clocked(in, bus)
    PROVE  Working'
<1>1. in.store \in BOOLEAN /\ in.word \in Word
  <2>1. in \in AllRequests \/ in = NoRequest(reg.index)
    BY DEF Clocked, Requests
  <2>2. CASE in = NoRequest(reg.index)
    BY <2>2, CacheAssumption DEF NoRequest, Word
  <2> QED BY <2>1, <2>2, RequestTyped
<1>2. reg'.store \in BOOLEAN /\ reg'.word \in Word
  BY <1>1 DEF Clocked, Registers, Working
<1>3. beat' \in Word
  <2>1. NumWords \in Nat \ {0} /\ beat \in 0 .. NumWords - 1
    BY CacheAssumption DEF Working, Word
  <2>2. beat' \in {0, (beat + 1) % NumWords, beat}
    BY DEF Clocked, Registers
  <2> QED BY <2>1, <2>2 DEF Word
<1>4. main' \in {"IDLE", "LOOKUP", "MISS", "REPLACE", "REFILL"}
  BY Turns DEF Working
<1>5. owed' \in BOOLEAN /\ clash' \in BOOLEAN
  BY DEF Clocked, History, Conflict, Working
<1> QED BY <1>2, <1>3, <1>4, <1>5 DEF Working

LEMMA EvictedStep ==
    ASSUME NEW in, NEW bus, Stepping(in, bus)
    PROVE  Evicted'
<1>1. /\ beat \in Nat /\ victim \in Way
      /\ main \in {"IDLE", "LOOKUP", "MISS", "REPLACE", "REFILL"}
  BY CacheAssumption DEF Stepping, CacheInv, Typed, Word
<1>2. (Asked \in Lines /\ Asked[2] = reg.index) \/ main = "IDLE"
  BY HitHolds DEF Stepping
<1>3. main \in {"REPLACE", "REFILL"} => /\ reg' = reg /\ victim' = victim /\ Asked' = Asked
  BY Takes, Waits DEF Asked
<1>4. main' = "REFILL" => (Holds(victim, Asked)' <=> beat' # 0)
  <2>1. SUFFICES ASSUME main' = "REFILL" PROVE Holds(victim, Asked)' <=> beat' # 0
    OBVIOUS
  <2>2. main \in {"REPLACE", "REFILL"}
    BY <1>1, <2>1, Flow
  <2>3. Holds(victim, Asked)' <=> Holds(victim, Asked)' /\ reg' = reg /\ victim' = victim /\ Asked' = Asked
    BY <1>3, <2>2
  <2>4. CASE main = "REPLACE"
    <3>1. ~ Holds(victim, Asked) /\ beat' = 0 /\ tagv' = tagv
      BY <1>1, <2>1, <2>4, HitHolds, Beats, TagStep DEF Stepping
    <3> QED BY <1>3, <2>2, <3>1 DEF Holds
  <2>5. CASE main = "REFILL"
    <3>1. beat' = beat + 1 /\ Asked \in Lines /\ Asked[2] = reg.index
      BY <1>2, <2>1, <2>5, Beats
    <3>2. tagv' = [tagv EXCEPT ![victim][reg.index] = [valid |-> TRUE, tag |-> reg.tag]]
      BY <2>5, TagStep
    <3>3. tagv \in [Way -> [Index -> [valid : BOOLEAN, tag : Tag]]] /\ reg.index \in Index
      BY DEF Stepping, CacheInv, Typed
    <3>4. tagv'[victim][reg.index] = [valid |-> TRUE, tag |-> reg.tag]
      BY <1>1, <3>2, <3>3
    <3>5. Asked = <<reg.tag, reg.index>>
      BY DEF Asked
    <3>6. Holds(victim, Asked)'
      BY <1>3, <2>2, <3>4, <3>5 DEF Holds
    <3> QED BY <1>1, <3>1, <3>6
  <2> QED BY <2>2, <2>4, <2>5
<1>5. ASSUME main' = "REFILL" \/ (main' = "REPLACE" /\ ~ wrReq'), NEW l \in Lines, NEW k \in Word,
             Holds(victim, l)', l[2] = reg'.index, l # Asked'
      PROVE  memory'[<<l, k>>] = bank'[victim'][l[2]][k]
  <2>1. main \in {"REPLACE", "REFILL"}
    BY <1>1, <1>5, Flow, Waits
  <2>2. victim' = victim /\ reg' = reg /\ l[2] = reg.index /\ l # Asked
    BY <1>3, <1>5, <2>1
  <2>3. main = "REPLACE"
    <3>1. SUFFICES ASSUME main = "REFILL" PROVE FALSE
      BY <2>1
    <3>2. tagv' = [tagv EXCEPT ![victim][reg.index] = [valid |-> TRUE, tag |-> reg.tag]]
      BY <3>1, TagStep
    <3>3. tagv \in [Way -> [Index -> [valid : BOOLEAN, tag : Tag]]] /\ reg.index \in Index
      BY DEF Stepping, CacheInv, Typed
    <3>4. l[1] = reg.tag
      BY <1>1, <1>5, <2>2, <3>2, <3>3 DEF Holds
    <3> QED BY <2>2, <3>4, LineParts DEF Asked
  <2>4. tagv' = tagv /\ Holds(victim, l)
    BY <1>5, <2>2, <2>3, TagStep DEF Holds
  <2>5. ~ writing
    BY <2>3 DEF Stepping, CacheInv, AtWork
  <2>6. bank'[victim][l[2]][k] = bank[victim][l[2]][k]
    BY <1>1, <2>3, <2>5, BankWrites, LineParts
  <2>7. memory'[<<l, k>>] = bank[victim][l[2]][k]
    <3>1. CASE wrReq /\ dirty[victim][reg.index]
      BY <2>2, <2>3, <2>4, <3>1, MemoryStep
    <3>2. CASE wrReq /\ ~ dirty[victim][reg.index]
      <4>1. memory'[<<l, k>>] = memory[<<l, k>>]
        BY <2>2, <2>3, <2>4, <3>2, MemoryStep
      <4>2. HasWord(victim, l, k)
        BY <2>3, <2>4 DEF HasWord, Filling
      <4> QED BY <1>1, <2>2, <3>2, <4>1, <4>2 DEF Stepping, CacheInv, Clean
    <3>3. CASE ~ wrReq
      <4>1. memory' = memory
        BY <2>3, <3>3, MemoryStep
      <4> QED BY <2>2, <2>3, <2>4, <3>3, <4>1 DEF Stepping, CacheInv, Evicted
    <3> QED BY <3>1, <3>2, <3>3
  <2> QED BY <2>2, <2>6, <2>7
<1>6. ASSUME main' = "REFILL", beat' # 0 PROVE dirty'[victim'][reg'.index] = reg'.store
  <2>1. main = "REFILL"
    BY <1>1, <1>6, Flow, Beats
  <2>2. reg.index \in Index
    BY DEF Stepping, CacheInv, Typed
  <2> QED BY <1>1, <1>3, <2>1, <2>2, DirtyStep
<1> QED BY <1>4, <1>5, <1>6 DEF Evicted

----------------------------------------------------------------------------
(* What the words are                                                      *)

LEMMA CleanStep ==
    ASSUME NEW in, NEW bus, Stepping(in, bus)
    PROVE  Clean'
<1>1. SUFFICES ASSUME NEW w \in Way, NEW l \in Lines, NEW k \in Word, HasWord(w, l, k)', ~ dirty'[w][l[2]]
               PROVE  bank'[w][l[2]][k] = memory'[<<l, k>>]
  BY DEF Clean
<1>2. /\ main \in {"IDLE", "LOOKUP", "MISS", "REPLACE", "REFILL"} /\ victim \in Way
      /\ l[2] \in Index /\ k \in 0 .. NumWords - 1 /\ beat \in 0 .. NumWords - 1 /\ NumWords \in Nat
      /\ bank \in [Way -> [Index -> [Word -> Data]]]
  BY CacheAssumption, LineParts DEF Stepping, CacheInv, Typed, Word
<1>3. HasWord(w, l, k) /\ ~ dirty[w][l[2]] => bank[w][l[2]][k] = memory[<<l, k>>]
  BY DEF Stepping, CacheInv, Clean
<1>4. writing => main \in {"IDLE", "LOOKUP"}
  BY DEF Stepping, CacheInv, AtWork
<1>5. Holds(w, l)'
  BY <1>1 DEF HasWord
<1>6. CASE main # "REFILL"
  <2>1. HasWord(w, l, k)
    BY <1>5, <1>6, HoldsStep DEF HasWord, Filling
  <2>2. ~ dirty[w][l[2]] /\ bank'[w][l[2]][k] = bank[w][l[2]][k]
    <3>1. CASE writing
      BY <1>1, <1>2, <3>1, DirtyStep
    <3>2. CASE ~ writing
      BY <1>1, <1>2, <1>6, <3>2, DirtyStep, BankWrites
    <3> QED BY <3>1, <3>2
  <2>3. memory'[<<l, k>>] = memory[<<l, k>>]
    <3>1. CASE ~ (main = "REPLACE" /\ wrReq)
      BY <3>1, MemoryStep
    <3>2. CASE main = "REPLACE" /\ wrReq
      <4>1. Holds(w, l) /\ (w # victim => ~ Holds(victim, l))
        BY <1>2, <2>1 DEF HasWord, Stepping, CacheInv, TagsRight, Way
      <4>2. ~ (Holds(victim, l) /\ l[2] = reg.index /\ dirty[victim][reg.index])
        BY <2>2, <4>1
      <4> QED BY <3>2, <4>2, MemoryStep
    <3> QED BY <3>1, <3>2
  <2> QED BY <1>3, <2>1, <2>2, <2>3
<1>7. CASE main = "REFILL"
  <2>1. memory'[<<l, k>>] = memory[<<l, k>>] /\ ~ writing
    BY <1>4, <1>7, MemoryStep
  <2>2. Port(bus).way = victim /\ Port(bus).word = beat /\ Port(bus).strobe = Byte /\ Port(bus).data = Refilled(bus)
        /\ Refilled(bus) \in Data
    BY <1>7, <2>1, PortTyped
  <2>3. Asked \in Lines /\ Asked[2] = reg.index /\ \A v \in Way : v # victim => ~ Holds(v, Asked)
    BY <1>7, HitHolds DEF Stepping
  <2>4. reg' = reg /\ Asked' = Asked
    BY <1>7, Takes DEF Asked
  <2>5. Holds(w, l)' <=> IF w = victim /\ l[2] = reg.index THEN l = Asked ELSE Holds(w, l)
    BY <1>7, HoldsStep
  <2>6. CASE w = victim /\ l[2] = reg.index
    <3>1. l = Asked /\ ~ reg.store
      BY <1>1, <1>2, <1>5, <1>7, <2>5, <2>6, DirtyStep
    <3>2. ~ Filling(Asked, k)'
      BY <1>1, <2>4, <3>1 DEF HasWord
    <3>3. k <= beat
      <4>1. CASE main' = "REFILL"
        <5>1. beat' = beat + 1
          BY <1>7, <4>1, Beats
        <5> QED BY <1>2, <2>4, <3>2, <4>1, <5>1 DEF Filling
      <4>2. CASE main' # "REFILL"
        BY <1>2, <1>7, <4>2, Flow
      <4> QED BY <4>1, <4>2
    <3>4. CASE k = beat
      <4>1. bank'[w][l[2]][k] = Overlay(Byte, Refilled(bus), bank[w][l[2]][k])
        BY <1>2, <1>7, <2>2, <2>6, <3>4, BankWrites
      <4>2. bank'[w][l[2]][k] = Refilled(bus)
        BY <2>2, <4>1, WholeWord
      <4>3. Refilled(bus) = memory[<<Asked, beat>>]
        BY <3>1 DEF Refilled, Stepping
      <4> QED BY <2>1, <3>1, <3>4, <4>2, <4>3
    <3>5. CASE k < beat
      <4>5. k # Port(bus).word /\ l[2] \in Index
        BY <1>2, <2>2, <3>5
      <4>1. bank'[w][l[2]][k] = bank[w][l[2]][k]
        BY <4>5, BankWrites
      <4>2. beat # 0 /\ ~ Filling(l, k)
        BY <1>2, <3>5 DEF Filling
      <4>3. Holds(victim, l) /\ ~ dirty[victim][l[2]]
        BY <1>7, <2>6, <3>1, <4>2 DEF Stepping, CacheInv, Evicted
      <4>4. HasWord(w, l, k)
        BY <2>6, <4>2, <4>3 DEF HasWord
      <4> QED BY <1>3, <2>1, <2>6, <4>1, <4>3, <4>4
    <3> QED BY <1>2, <3>3, <3>4, <3>5
  <2>7. CASE ~ (w = victim /\ l[2] = reg.index)
    <3>1. Holds(w, l) /\ ~ dirty[w][l[2]]
      BY <1>1, <1>2, <1>5, <1>7, <2>5, <2>7, DirtyStep
    <3>2. l # Asked
      BY <2>3, <2>7, <3>1
    <3>3. HasWord(w, l, k)
      BY <3>1, <3>2 DEF HasWord, Filling
    <3>4. bank'[w][l[2]][k] = bank[w][l[2]][k]
      BY <1>2, <2>2, <2>7, BankWrites
    <3> QED BY <1>3, <2>1, <3>1, <3>3, <3>4
  <2> QED BY <2>6, <2>7
<1> QED BY <1>6, <1>7

\* The store in the write buffer lands in the word it was for.
LEMMA BufferLands ==
    ASSUME NEW in, NEW bus, Stepping(in, bus), main \in {"IDLE", "LOOKUP"},
           NEW l \in Lines, NEW k \in Word
    PROVE  /\ \A w \in Way : Holds(w, l) => bank'[w][l[2]][k] = AfterBuffer(l, k, bank[w][l[2]][k])
           /\ (\A w \in Way : ~ Holds(w, l)) => AfterBuffer(l, k, memory[<<l, k>>]) = memory[<<l, k>>]
<1>1. /\ l[2] \in Index /\ buffer.way \in Way
      /\ writing => buffer.index = reg.index
  BY LineParts DEF Stepping, CacheInv, Typed, AtWork
<1>2. (\A w \in Way : ~ Holds(w, l)) => AfterBuffer(l, k, memory[<<l, k>>]) = memory[<<l, k>>]
  BY <1>1 DEF AfterBuffer, Buffered
<1>3. ASSUME NEW w \in Way, Holds(w, l)
      PROVE  bank'[w][l[2]][k] = AfterBuffer(l, k, bank[w][l[2]][k])
  <2>1. Holds(buffer.way, l) <=> buffer.way = w
    BY <1>1, <1>3 DEF Stepping, CacheInv, TagsRight, Way
  <2>2. writing => Port(bus) = [way |-> buffer.way, word |-> buffer.word,
                                strobe |-> buffer.strobe, data |-> buffer.data]
    BY PortTyped
  <2>3. bank'[w][l[2]][k] = IF writing /\ w = Port(bus).way /\ l[2] = reg.index /\ k = Port(bus).word
                            THEN Overlay(Port(bus).strobe, Port(bus).data, bank[w][l[2]][k])
                            ELSE bank[w][l[2]][k]
    BY <1>1, BankWrites
  <2>4. Buffered(l, k) <=> writing /\ l[2] = reg.index /\ w = buffer.way /\ k = buffer.word
    BY <1>1, <2>1 DEF Buffered
  <2> QED BY <2>2, <2>3, <2>4 DEF AfterBuffer
<1> QED BY <1>2, <1>3

\* A store that hits goes on from the request buffer to the write buffer, as it is; the
\* one that is taken comes into the request buffer.
LEMMA StoresMove ==
    ASSUME NEW in, NEW bus, Stepping(in, bus), main = "IDLE" \/ (main = "LOOKUP" /\ hit),
           NEW l \in Lines, NEW k \in Word
    PROVE  /\ Buffered(l, k)' <=> Requested(l, k)
           /\ Requested(l, k) => buffer'.strobe = reg.strobe /\ buffer'.data = reg.data
           /\ Requested(l, k)' <=> Taken(in) /\ in.store /\ l = <<in.tag, in.index>> /\ k = in.word
<1>1. /\ main' \in {"IDLE", "LOOKUP"} /\ (main' = "LOOKUP" <=> Taken(in))
      /\ tagv' = tagv
  BY Flow, Takes, TagStep
<1>2. ~ Filling(l, k) /\ ~ Filling(l, k)'
  BY <1>1 DEF Filling
<1>3. Requested(l, k)' <=> Taken(in) /\ in.store /\ l = <<in.tag, in.index>> /\ k = in.word
  <2>1. CASE Taken(in)
    <3>1. main' = "LOOKUP" /\ reg'.store = in.store /\ reg'.tag = in.tag /\ reg'.index = in.index /\ reg'.word = in.word
      BY <2>1, Takes
    <3>2. Asked' = <<in.tag, in.index>>
      BY <3>1 DEF Asked
    <3> QED BY <2>1, <3>1, <3>2 DEF Requested
  <2>2. CASE ~ Taken(in)
    BY <1>1, <1>2, <2>2 DEF Requested
  <2> QED BY <2>1, <2>2
<1>4. Requested(l, k) <=> main = "LOOKUP" /\ reg.store /\ l = Asked /\ k = reg.word
  BY <1>2 DEF Requested
<1>5. CASE ~ (main = "LOOKUP" /\ reg.store)
  BY <1>3, <1>4, <1>5, Waits DEF Buffered
<1>6. CASE main = "LOOKUP" /\ reg.store /\ hit
  <2>1. writing' /\ buffer' = [index |-> reg.index, way |-> IF Hits(1) THEN 1 ELSE 0,
                               word |-> reg.word, strobe |-> reg.strobe, data |-> reg.data]
    BY <1>6, Waits
  <2>2. PICK v \in Way : v = buffer'.way /\ Hits(v)
    BY <1>6, <2>1 DEF hit, Way
  <2>3. Holds(v, Asked) /\ Asked[2] = reg.index /\ Asked[1] = reg.tag
    BY <1>6, <2>2, HitHolds DEF Stepping, Asked
  <2>4. l[2] = reg.index => (Holds(v, l) <=> l = Asked)
    BY <2>3, LineParts DEF Holds, Asked
  <2>5. Holds(buffer.way, l)' <=> Holds(v, l)
    BY <1>1, <2>2 DEF Holds
  <2>6. Buffered(l, k)' <=> l[2] = reg.index /\ Holds(v, l) /\ k = reg.word
    BY <2>1, <2>5 DEF Buffered
  <2> QED BY <1>3, <1>4, <1>6, <2>1, <2>3, <2>4, <2>6
<1> QED BY <1>3, <1>5, <1>6

\* A cycle in which a request is taken, or none is at work.
LEMMA TruthTaking ==
    ASSUME NEW in, NEW bus, Stepping(in, bus), main = "IDLE" \/ (main = "LOOKUP" /\ hit)
    PROVE  Truth'
<1>1. SUFFICES ASSUME NEW l \in Lines, NEW k \in Word
               PROVE  /\ \A w \in Way : HasWord(w, l, k)' => ideal'[<<l, k>>] = After(l, k, bank[w][l[2]][k])'
                      /\ (\A w \in Way : ~ HasWord(w, l, k)') => ideal'[<<l, k>>] = After(l, k, memory[<<l, k>>])'
  BY DEF Truth
<1>2. main' \in {"IDLE", "LOOKUP"} /\ memory' = memory
  BY Flow, MemoryStep
<1>3. \A w \in Way : (HasWord(w, l, k)' <=> Holds(w, l)) /\ (HasWord(w, l, k) <=> Holds(w, l))
  BY <1>2, HoldsStep DEF HasWord, Filling
<1>4. /\ Buffered(l, k)' <=> Requested(l, k)
      /\ Requested(l, k) => buffer'.strobe = reg.strobe /\ buffer'.data = reg.data
      /\ Requested(l, k)' <=> Taken(in) /\ in.store /\ l = <<in.tag, in.index>> /\ k = in.word
  BY StoresMove
<1>5. Taken(in) => reg'.strobe = in.strobe /\ reg'.data = in.data
  BY Takes
<1>6. ideal'[<<l, k>>] = IF Requested(l, k)' THEN Overlay(reg'.strobe, reg'.data, ideal[<<l, k>>])
                         ELSE ideal[<<l, k>>]
  BY <1>4, <1>5, IdealStep
<1>7. ASSUME NEW w \in Way, Holds(w, l)
      PROVE  ideal'[<<l, k>>] = After(l, k, bank[w][l[2]][k])'
  <2>1. ideal[<<l, k>>] = AfterRequest(l, k, AfterBuffer(l, k, bank[w][l[2]][k]))
    BY <1>3, <1>7 DEF Stepping, CacheInv, Truth, After
  <2>2. bank'[w][l[2]][k] = AfterBuffer(l, k, bank[w][l[2]][k])
    BY <1>7, BufferLands
  <2>3. AfterBuffer(l, k, bank[w][l[2]][k])' = ideal[<<l, k>>]
    BY <1>4, <2>1, <2>2 DEF AfterBuffer, AfterRequest
  <2> QED BY <1>6, <2>3 DEF After, AfterRequest
<1>8. ASSUME \A w \in Way : ~ Holds(w, l)
      PROVE  ideal'[<<l, k>>] = After(l, k, memory[<<l, k>>])'
  <2>1. ideal[<<l, k>>] = AfterRequest(l, k, AfterBuffer(l, k, memory[<<l, k>>]))
    BY <1>3, <1>8 DEF Stepping, CacheInv, Truth, After
  <2>2. memory[<<l, k>>] = AfterBuffer(l, k, memory[<<l, k>>])
    BY <1>8, BufferLands
  <2>3. AfterBuffer(l, k, memory[<<l, k>>])' = ideal[<<l, k>>]
    BY <1>2, <1>4, <2>1, <2>2 DEF AfterBuffer, AfterRequest
  <2> QED BY <1>6, <2>3 DEF After, AfterRequest
<1> QED BY <1>3, <1>7, <1>8

\* The request at work waits: it has missed, or the bus is not ready.
LEMMA TruthWaiting ==
    ASSUME NEW in, NEW bus, Stepping(in, bus),
           (main = "LOOKUP" /\ ~ hit) \/ main \in {"MISS", "REPLACE"}
    PROVE  Truth'
<1>1. SUFFICES ASSUME NEW l \in Lines, NEW k \in Word
               PROVE  /\ \A w \in Way : HasWord(w, l, k)' => ideal'[<<l, k>>] = After(l, k, bank[w][l[2]][k])'
                      /\ (\A w \in Way : ~ HasWord(w, l, k)') => ideal'[<<l, k>>] = After(l, k, memory[<<l, k>>])'
  BY DEF Truth
<1>2. main' \in {"MISS", "REPLACE", "REFILL"} /\ (main = "REPLACE" \/ main' # "REFILL")
  BY Flow
<1>3. ~ Taken(in) /\ reg' = reg /\ Asked' = Asked /\ ~ writing' /\ ideal' = ideal
  BY <1>2, Takes, Waits, IdealStep DEF Asked
<1>4. /\ main' = "REFILL" => beat' = 0
      /\ k \in Nat /\ l[2] \in Index /\ victim \in Way
      /\ writing => main = "LOOKUP"
  <2>1. main' = "REFILL" => beat' = 0
    BY <1>2, Beats
  <2>2. k \in Nat
    BY CacheAssumption DEF Word
  <2> QED BY <2>1, <2>2, LineParts DEF Stepping, CacheInv, Typed, AtWork
<1>5. Asked \in Lines /\ Asked[2] = reg.index /\ \A w \in Way : ~ Holds(w, Asked)
  BY HitHolds DEF Stepping, hit
<1>6. \A w \in Way : (HasWord(w, l, k)' <=> Holds(w, l)) /\ (HasWord(w, l, k) <=> Holds(w, l))
  BY <1>2, <1>3, <1>5, HoldsStep DEF HasWord, Filling
<1>7. Requested(l, k)' <=> Requested(l, k)
  BY <1>2, <1>3, <1>4 DEF Requested, Filling
<1>8. ~ Buffered(l, k)'
  BY <1>3 DEF Buffered
<1>9. ASSUME NEW w \in Way, Holds(w, l)
      PROVE  ideal'[<<l, k>>] = After(l, k, bank[w][l[2]][k])'
  <2>1. ideal[<<l, k>>] = AfterRequest(l, k, AfterBuffer(l, k, bank[w][l[2]][k]))
    BY <1>6, <1>9 DEF Stepping, CacheInv, Truth, After
  <2>2. bank'[w][l[2]][k] = AfterBuffer(l, k, bank[w][l[2]][k])
    <3>1. CASE main = "LOOKUP"
      BY <1>9, <3>1, BufferLands
    <3>2. CASE main # "LOOKUP"
      <4>1. ~ writing /\ main # "REFILL"
        BY <1>4, <3>2
      <4> QED BY <1>4, <4>1, BankWrites DEF AfterBuffer, Buffered
    <3> QED BY <3>1, <3>2
  <2> QED BY <1>3, <1>7, <1>8, <2>1, <2>2 DEF After, AfterBuffer, AfterRequest
<1>10. ASSUME \A w \in Way : ~ Holds(w, l)
      PROVE  ideal'[<<l, k>>] = After(l, k, memory[<<l, k>>])'
  <2>1. ideal[<<l, k>>] = AfterRequest(l, k, AfterBuffer(l, k, memory[<<l, k>>]))
    BY <1>6, <1>10 DEF Stepping, CacheInv, Truth, After
  <2>2. memory'[<<l, k>>] = memory[<<l, k>>]
    BY <1>4, <1>10, MemoryStep
  <2>3. ~ Buffered(l, k)
    BY <1>10 DEF Buffered, Stepping, CacheInv, Typed
  <2> QED BY <1>3, <1>7, <1>8, <2>1, <2>2, <2>3 DEF After, AfterBuffer, AfterRequest
<1> QED BY <1>6, <1>9, <1>10

\* A word of the line that missed comes in; the request is in it if it is of that word.
LEMMA TruthFilling ==
    ASSUME NEW in, NEW bus, Stepping(in, bus), main = "REFILL"
    PROVE  Truth'
<1>1. SUFFICES ASSUME NEW l \in Lines, NEW k \in Word
               PROVE  /\ \A w \in Way : HasWord(w, l, k)' => ideal'[<<l, k>>] = After(l, k, bank[w][l[2]][k])'
                      /\ (\A w \in Way : ~ HasWord(w, l, k)') => ideal'[<<l, k>>] = After(l, k, memory[<<l, k>>])'
  BY DEF Truth
<1>2. /\ ~ Taken(in) /\ reg' = reg /\ Asked' = Asked /\ ~ writing' /\ ~ writing
      /\ ideal' = ideal /\ memory' = memory
  BY Takes, Waits, IdealStep, MemoryStep DEF Asked, Stepping, CacheInv, AtWork
<1>3. /\ Asked \in Lines /\ Asked[2] = reg.index /\ victim \in Way
      /\ \A w \in Way : w # victim => ~ Holds(w, Asked)
  BY HitHolds DEF Stepping, CacheInv, Typed
<1>4. \A w \in Way :
        Holds(w, l)' <=> IF w = victim /\ l[2] = reg.index THEN l = Asked ELSE Holds(w, l)
  BY HoldsStep
<1>5. /\ beat \in 0 .. NumWords - 1 /\ k \in 0 .. NumWords - 1 /\ NumWords \in Nat /\ l[2] \in Index
      /\ \/ main' = "IDLE" /\ beat = NumWords - 1
         \/ main' = "REFILL" /\ beat' = beat + 1
  BY CacheAssumption, LineParts, Flow, Beats DEF Stepping, CacheInv, Typed, Word
<1>6. /\ Refilled(bus) \in Data
      /\ \A w \in Way : bank'[w][l[2]][k] = IF w = victim /\ l[2] = reg.index /\ k = beat
                                            THEN Refilled(bus) ELSE bank[w][l[2]][k]
  <2>1. Port(bus).way = victim /\ Port(bus).word = beat /\ Port(bus).strobe = Byte /\ Port(bus).data = Refilled(bus)
        /\ Refilled(bus) \in Data
    BY <1>2, PortTyped
  <2>2. \A w \in Way : bank'[w][l[2]][k] = IF w = victim /\ l[2] = reg.index /\ k = beat
                                           THEN Overlay(Byte, Refilled(bus), bank[w][l[2]][k]) ELSE bank[w][l[2]][k]
    BY <1>5, <2>1, BankWrites
  <2> QED BY <2>1, <2>2, WholeWord
<1>7. ~ Buffered(l, k) /\ ~ Buffered(l, k)'
  BY <1>2 DEF Buffered
<1>8. Requested(l, k) <=> reg.store /\ k = reg.word /\ Filling(l, k)
  BY DEF Requested, Filling
<1>9. Requested(l, k)' <=> reg.store /\ k = reg.word /\ Filling(l, k)'
  BY <1>2, <1>5 DEF Requested, Filling
<1>10. /\ \A w \in Way : HasWord(w, l, k) => ideal[<<l, k>>] = After(l, k, bank[w][l[2]][k])
       /\ (\A w \in Way : ~ HasWord(w, l, k)) => ideal[<<l, k>>] = After(l, k, memory[<<l, k>>])
  BY DEF Stepping, CacheInv, Truth
<1>11. CASE l # Asked
  <2>1. ~ Filling(l, k) /\ ~ Filling(l, k)'
    BY <1>2, <1>11 DEF Filling
  <2>2. /\ \A w \in Way : Holds(w, l) => ideal[<<l, k>>] = bank[w][l[2]][k]
        /\ (\A w \in Way : ~ Holds(w, l)) => ideal[<<l, k>>] = memory[<<l, k>>]
    BY <1>7, <1>8, <1>10, <2>1 DEF HasWord, After, AfterBuffer, AfterRequest
  <2>3. ASSUME NEW w \in Way, Holds(w, l)' PROVE ideal[<<l, k>>] = bank'[w][l[2]][k]
    BY <1>4, <1>6, <1>11, <2>2, <2>3
  <2>4. ASSUME \A w \in Way : ~ Holds(w, l)' PROVE ideal[<<l, k>>] = memory[<<l, k>>]
    <3>1. CASE Holds(victim, l) /\ l[2] = reg.index
      BY <1>3, <1>11, <2>2, <3>1 DEF Stepping, CacheInv, Evicted
    <3>2. CASE ~ (Holds(victim, l) /\ l[2] = reg.index)
      BY <1>4, <2>2, <2>4, <3>2
    <3> QED BY <3>1, <3>2
  <2> QED BY <1>2, <1>7, <1>8, <1>9, <2>1, <2>3, <2>4 DEF HasWord, After, AfterBuffer, AfterRequest
<1>12. CASE l = Asked /\ k < beat
  <2>1. ~ Filling(l, k) /\ ~ Filling(l, k)'
    BY <1>2, <1>5, <1>12 DEF Filling
  <2>2. Holds(victim, l)
    BY <1>5, <1>12 DEF Stepping, CacheInv, Evicted
  <2>3. ideal[<<l, k>>] = bank[victim][l[2]][k] /\ bank'[victim][l[2]][k] = bank[victim][l[2]][k]
    <3>1. k # beat
      BY <1>5, <1>12
    <3> QED BY <1>3, <1>6, <1>7, <1>8, <1>10, <2>1, <2>2, <3>1 DEF HasWord, After, AfterBuffer, AfterRequest
  <2>4. \A w \in Way : Holds(w, l)' <=> w = victim
    BY <1>3, <1>4, <1>12
  <2> QED BY <1>2, <1>3, <1>7, <1>9, <2>1, <2>3, <2>4 DEF HasWord, After, AfterBuffer, AfterRequest
<1>13. CASE l = Asked /\ k = beat
  <2>1. Filling(l, k) /\ ~ Filling(l, k)'
    BY <1>2, <1>5, <1>13 DEF Filling
  <2>2. ideal[<<l, k>>] = AfterRequest(l, k, memory[<<l, k>>])
    BY <1>7, <1>10, <2>1 DEF HasWord, After, AfterBuffer
  <2>3. Refilled(bus) = AfterRequest(l, k, memory[<<l, k>>])
    <3>1. bus.retData = memory[<<l, k>>]
      BY <1>13 DEF Stepping
    <3>2. reg.store => reg.strobe = Byte /\ reg.data \in Data
      BY DEF Stepping, CacheInv, Typed, AtWork, Missed
    <3>3. reg.store => Overlay(reg.strobe, reg.data, memory[<<l, k>>]) = reg.data
      BY <3>2, WholeWord
    <3> QED BY <1>8, <1>13, <2>1, <3>1, <3>3 DEF Refilled, AfterRequest
  <2>4. bank'[victim][l[2]][k] = ideal[<<l, k>>]
    BY <1>3, <1>6, <1>13, <2>2, <2>3
  <2>5. \A w \in Way : Holds(w, l)' <=> w = victim
    BY <1>3, <1>4, <1>13
  <2> QED BY <1>2, <1>3, <1>7, <1>9, <2>1, <2>4, <2>5 DEF HasWord, After, AfterBuffer, AfterRequest
<1>14. CASE l = Asked /\ k > beat
  <2>1. Filling(l, k) /\ Filling(l, k)'
    BY <1>2, <1>5, <1>14 DEF Filling
  <2>2. ideal[<<l, k>>] = After(l, k, memory[<<l, k>>])
    BY <1>10, <2>1 DEF HasWord
  <2> QED BY <1>2, <1>7, <1>8, <1>9, <2>1, <2>2 DEF HasWord, After, AfterBuffer, AfterRequest
<1> QED BY <1>5, <1>11, <1>12, <1>13, <1>14

----------------------------------------------------------------------------
(* The theorems                                                            *)

LEMMA CacheStep ==
    ASSUME Promised, CacheInv, Next PROVE CacheInv'
<1>1. PICK in, bus : Stepping(in, bus)
  BY NextSteps
<1>2. Truth'
  BY <1>1, TruthTaking, TruthWaiting, TruthFilling DEF Stepping, CacheInv, Typed
<1>3. Working /\ Clocked(in, bus)
  BY <1>1 DEF Stepping, Promised, AllPromises, CacheInv, Typed, Working, Clocked
<1>4. Owing'
  BY <1>3, OwingStep DEF CacheInv
<1> QED BY <1>1, <1>2, <1>4, TypedStep, TagsStep, ShowingStep, AtWorkStep, EvictedStep, CleanStep DEF CacheInv

LEMMA CacheInit ==
    ASSUME Init PROVE CacheInv
<1>1. 0 \in Word /\ 0 \in Index /\ 0 \in Way /\ NoTag.tag \in Tag /\ NoTag = [valid |-> FALSE, tag |-> NoTag.tag]
  BY CacheAssumption, TagExists DEF Word, Index, Way, NoTag
<1>2. Fill \in [Lines \X Word -> Data]
  <2>1. \A x \in Lines \X Word : Content(x[1][1], x[1][2], x[2], 0) \in Data
    BY LineParts, Contents
  <2> QED BY <2>1 DEF Fill
<1>3. Typed
  <2>1. /\ reg \in [store : BOOLEAN, index : Index, tag : Tag, word : Word, strobe : SUBSET Byte, data : Data]
        /\ buffer \in [index : Index, way : Way, word : Word, strobe : SUBSET Byte, data : Data]
    BY <1>1, NoWordTyped DEF Init
  <2>2. victim \in Way /\ beat \in Word /\ dirty \in [Way -> [Index -> BOOLEAN]]
    BY <1>1 DEF Init
  <2>3. NoTag \in [valid : BOOLEAN, tag : Tag]
    BY TagExists DEF NoTag
  <2>4. /\ tagv \in [Way -> [Index -> [valid : BOOLEAN, tag : Tag]]]
        /\ tagOut \in [Way -> [valid : BOOLEAN, tag : Tag]]
    BY <2>3 DEF Init
  <2>5. bank \in [Way -> [Index -> [Word -> Data]]] /\ bankOut \in [Way -> [Word -> Data]]
    BY NoWordTyped DEF Init
  <2>6. memory \in [Lines \X Word -> Data] /\ ideal \in [Lines \X Word -> Data]
    BY <1>2 DEF Init
  <2> QED BY <2>1, <2>2, <2>4, <2>5, <2>6 DEF Init, Typed
<1>4. \A w \in Way, i \in Index : ~ tagv[w][i].valid
  BY DEF Init, NoTag
<1>5. \A w \in Way, l \in Lines : ~ Holds(w, l)
  BY <1>4, LineParts DEF Holds
<1>6. TagsRight
  BY <1>1, <1>4, <1>5 DEF TagsRight
<1>7. main = "IDLE" /\ ~ writing /\ ~ wrReq /\ owed = FALSE /\ clash = FALSE
  BY DEF Init
<1>9. Showing
  BY <1>7 DEF Showing
<1>10. AtWork /\ Owing
  BY <1>7 DEF AtWork, Owing, Missed
<1>11. Evicted
  BY <1>7 DEF Evicted
<1>8. Truth /\ Clean
  BY <1>5 DEF Init, Truth, Clean, HasWord, After, AfterBuffer, AfterRequest, Buffered, Requested, Filling
<1> QED BY <1>3, <1>6, <1>8, <1>9, <1>10, <1>11 DEF CacheInv

LEMMA LoadsAnswered ==
    ASSUME CacheInv PROVE LoadsRight
<1>1. PICK bus : bus = Bus(TRUE, TRUE, FALSE)
  OBVIOUS
<1>2. SUFFICES ASSUME DataOk(bus)
               PROVE  owed /\ (~ reg.store => ReadData(bus) = ideal[<<Asked, reg.word>>])
  BY <1>1 DEF LoadsRight, Asked
<1>3. /\ main \in {"IDLE", "LOOKUP", "MISS", "REPLACE", "REFILL"}
      /\ beat \in 0 .. NumWords - 1 /\ reg.word \in 0 .. NumWords - 1 /\ reg.word \in Word /\ NumWords \in Nat
  BY CacheAssumption DEF CacheInv, Typed, Word
<1>4. \/ main = "LOOKUP" /\ (hit \/ reg.store)
      \/ main = "REFILL" /\ beat = reg.word /\ ~ reg.store
  BY <1>2 DEF DataOk
<1>5. owed
  BY <1>3, <1>4 DEF CacheInv, Owing
<1>6. ASSUME main = "LOOKUP", hit, ~ reg.store
      PROVE  ReadData(bus) = ideal[<<Asked, reg.word>>]
  <2>1. PICK v \in Way : v = (CHOOSE w \in Way : Hits(w)) /\ Hits(v)
    BY <1>6 DEF hit
  <2>2. Holds(v, Asked) /\ Asked \in Lines /\ Asked[2] = reg.index
    BY <1>6, <2>1, HitHolds
  <2>3. ReadData(bus) = bank[v][reg.index][reg.word]
    BY <1>6, <2>1 DEF ReadData, CacheInv, Showing
  <2>4. ~ Buffered(Asked, reg.word) /\ ~ Requested(Asked, reg.word) /\ ~ Filling(Asked, reg.word)
    BY <1>6 DEF Buffered, Requested, Filling, CacheInv, AtWork
  <2>5. ideal[<<Asked, reg.word>>] = After(Asked, reg.word, bank[v][Asked[2]][reg.word])
    BY <1>3, <2>2, <2>4 DEF CacheInv, Truth, HasWord
  <2> QED BY <2>2, <2>3, <2>4, <2>5 DEF After, AfterBuffer, AfterRequest
<1>7. ASSUME main = "REFILL", beat = reg.word, ~ reg.store
      PROVE  ReadData(bus) = ideal[<<Asked, reg.word>>]
  <2>1. ReadData(bus) = memory[<<Asked, beat>>]
    BY <1>1, <1>7 DEF ReadData, Bus, Asked, CacheInv, AtWork, Missed
  <2>2. Asked \in Lines /\ Filling(Asked, reg.word)
    BY <1>3, <1>7 DEF Filling, CacheInv, AtWork
  <2>3. ~ Buffered(Asked, reg.word) /\ ~ Requested(Asked, reg.word)
    BY <1>7 DEF Buffered, Requested, CacheInv, AtWork
  <2>4. ideal[<<Asked, reg.word>>] = After(Asked, reg.word, memory[<<Asked, reg.word>>])
    BY <1>3, <2>2 DEF CacheInv, Truth, HasWord
  <2> QED BY <1>7, <2>1, <2>3, <2>4 DEF After, AfterBuffer, AfterRequest
<1> QED BY <1>4, <1>5, <1>6, <1>7

LEMMA RestCoherent ==
    ASSUME CacheInv PROVE Coherent
<1>1. ASSUME NEW i \in Index, tagv[0][i].valid, tagv[1][i].valid, tagv[0][i].tag = tagv[1][i].tag
      PROVE  FALSE
  <2>1. PICK l : l = <<tagv[0][i].tag, i>>
    OBVIOUS
  <2>2. l \in Lines /\ l[1] = tagv[0][i].tag /\ l[2] = i
    BY <1>1, <2>1 DEF CacheInv, TagsRight, Way
  <2> QED BY <1>1, <2>2 DEF CacheInv, TagsRight, Holds
<1>2. ASSUME AtRest, NEW l \in Lines, NEW k \in Word
      PROVE  /\ (\A w \in Way : ~ Holds(w, l)) => memory[<<l, k>>] = ideal[<<l, k>>]
             /\ \A w \in Way : Holds(w, l) => /\ bank[w][l[2]][k] = ideal[<<l, k>>]
                                              /\ ~ dirty[w][l[2]] => memory[<<l, k>>] = ideal[<<l, k>>]
  <2>1. ~ Buffered(l, k) /\ ~ Requested(l, k) /\ ~ Filling(l, k)
    BY <1>2 DEF AtRest, Buffered, Requested, Filling
  <2> QED BY <2>1 DEF CacheInv, Truth, Clean, HasWord, After, AfterBuffer, AfterRequest
<1> QED BY <1>1, <1>2 DEF Coherent, Holds

LEMMA CacheStutters ==
    ASSUME CacheInv, UNCHANGED vars PROVE CacheInv'
<1>1. Typed'
  BY DEF vars, CacheInv, Typed
<1>2. TagsRight' /\ Showing'
  BY DEF vars, CacheInv, TagsRight, Holds, Showing
<1>3. AtWork' /\ Owing' /\ Evicted'
  BY DEF vars, CacheInv, AtWork, Owing, Asked, Missed, hit, Hits, Evicted, Holds
<1>4. Truth'
  <2>1. SUFFICES ASSUME NEW l \in Lines, NEW k \in Word
                 PROVE  /\ \A w \in Way : HasWord(w, l, k)' => ideal'[<<l, k>>] = After(l, k, bank[w][l[2]][k])'
                        /\ (\A w \in Way : ~ HasWord(w, l, k)') => ideal'[<<l, k>>] = After(l, k, memory[<<l, k>>])'
    BY DEF Truth
  <2>2. /\ \A w \in Way : HasWord(w, l, k) => ideal[<<l, k>>] = After(l, k, bank[w][l[2]][k])
        /\ (\A w \in Way : ~ HasWord(w, l, k)) => ideal[<<l, k>>] = After(l, k, memory[<<l, k>>])
    BY DEF CacheInv, Truth
  <2>3. \A w \in Way : HasWord(w, l, k)' <=> HasWord(w, l, k)
    BY DEF vars, HasWord, Holds, Asked, Filling
  <2>4. (Buffered(l, k)' <=> Buffered(l, k)) /\ (Requested(l, k)' <=> Requested(l, k))
    BY DEF vars, Holds, Asked, Filling, Buffered, Requested
  <2> QED BY <2>2, <2>3, <2>4 DEF vars, After, AfterBuffer, AfterRequest
<1>5. Clean'
  BY DEF vars, CacheInv, Clean, HasWord, Holds, Asked, Filling
<1> QED BY <1>1, <1>2, <1>3, <1>4, <1>5 DEF CacheInv

LEMMA CacheInvAlways == Promised => (Spec => []CacheInv)
<1>1. Init => CacheInv
  BY CacheInit
<1>2. ASSUME Promised PROVE CacheInv /\ [Next]_vars => CacheInv'
  BY <1>2, CacheStep, CacheStutters
<1>3. ASSUME Promised PROVE Spec => []CacheInv
  BY <1>1, <1>2, <1>3, PTL DEF Spec
<1> QED BY <1>3

\* If the index changes only at rest, no load follows at once a store of the same word
\* that misses, such a store is whole, and the bus has no gaps: every load gets what the
\* stores before it left, whatever lines compete for an index.
THEOREM LoadsRightAlways == Promised => (Spec => []LoadsRight)
<1>1. CacheInv => LoadsRight
  BY LoadsAnswered
<1>2. ASSUME Promised PROVE Spec => []LoadsRight
  BY <1>1, <1>2, CacheInvAlways, PTL
<1> QED BY <1>2

\* Under the same promises no address is in both ways, no line that was written is lost
\* on its way between the ways and memory, and a way that is not dirty may be dropped.
THEOREM CoherentAlways == Promised => (Spec => []Coherent)
<1>1. CacheInv => Coherent
  BY RestCoherent
<1>2. ASSUME Promised PROVE Spec => []Coherent
  BY <1>1, <1>2, CacheInvAlways, PTL
<1> QED BY <1>2

\* If no load follows at once a store of the same word that misses and the bus has no gaps,
\* then the cache comes to rest only when it has answered what it accepted, unless that is a
\* load that came to the idle cache in conflict with the write buffer (cache.v, addr_ok,
\* data_ok and next_state_main).  The memories and the other promises do not matter for it.
THEOREM AnsweredAlways == {"apart", "gapless"} \subseteq Promises => (Spec => []Answered)
<1> SUFFICES ASSUME {"apart", "gapless"} \subseteq Promises PROVE Spec => []Answered
  OBVIOUS
<1>1. Init => Working /\ Owing
  <2> SUFFICES ASSUME Init PROVE Working /\ Owing
    OBVIOUS
  <2>1. 0 \in Word
    BY CacheAssumption DEF Word
  <2>2. main = "IDLE" /\ beat = 0 /\ reg.word = 0 /\ reg.store = FALSE /\ owed = FALSE /\ clash = FALSE
    BY DEF Init
  <2> QED BY <2>1, <2>2 DEF Working, Owing
<1>2. Working /\ Owing /\ [Next]_vars => (Working /\ Owing)'
  <2> SUFFICES ASSUME Working, Owing, [Next]_vars PROVE Working' /\ Owing'
    OBVIOUS
  <2>1. CASE UNCHANGED vars
    BY <2>1 DEF vars, Working, Owing
  <2>2. CASE Next
    <3>0. "gapless" \in Promises
      OBVIOUS
    <3>1. PICK wrRdy \in BOOLEAN, rdRdy \in BOOLEAN : Cycle(Bus(wrRdy, rdRdy, FALSE))
      <4>1. PICK wrRdy \in IF main = "MISS" THEN BOOLEAN ELSE {TRUE},
                 rdRdy \in IF main = "REPLACE" THEN BOOLEAN ELSE {TRUE},
                 gap \in IF main = "REFILL" /\ "gapless" \notin Promises THEN BOOLEAN ELSE {FALSE} :
                Cycle(Bus(wrRdy, rdRdy, gap))
        BY <2>2 DEF Next
      <4>2. gap = FALSE /\ wrRdy \in BOOLEAN /\ rdRdy \in BOOLEAN
        BY <3>0
      <4> QED BY <4>1, <4>2
    <3>2. PICK bus : bus = Bus(wrRdy, rdRdy, FALSE)
      OBVIOUS
    <3>3. bus.retValid = (main = "REFILL") /\ bus.retLast = (beat = NumWords - 1)
      BY <3>1, <3>2 DEF Bus
    <3>4. PICK in : Clocked(in, bus)
      BY <3>1, <3>2, <3>3 DEF Cycle, Clocked
    <3> QED BY <3>4, OwingStep, WorkingStep
  <2> QED BY <2>1, <2>2
<1>3. Owing => Answered
  BY DEF Owing, Answered
<1> QED BY <1>1, <1>2, <1>3, PTL DEF Spec

=============================================================================
