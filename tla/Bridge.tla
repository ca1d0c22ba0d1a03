------------------------------- MODULE Bridge -------------------------------
(***************************************************************************)
(* sram_to_axi.v: the bridge between the two SRAM-like ports of the        *)
(* processor and one AXI master.  Fetches and loads share the read         *)
(* channels and are told apart by their id; a store uses the write         *)
(* channels.  One step is one cycle of the clock.  The address stands for  *)
(* address and size, the value of a store for its data and strobe.         *)
(***************************************************************************)
EXTENDS Naturals, Sequences

CONSTANTS
    NumAddr,    \* words of memory
    NumValue,   \* values of a word
    Promises    \* what the processor and the slave see to

AllPromises ==
  { "steady",   \* a fetch that waits to be accepted does not change its address
    "held",     \* a load or store that waits to be accepted is not withdrawn
    "late" }    \* the slave is ready only for what is valid

Addr   == 0 .. NumAddr - 1
Value  == 0 .. NumValue - 1
NoAddr == NumAddr
NoVal  == NumValue

BridgeAssumption ==
    NumAddr \in Nat \ {0} /\ NumValue \in Nat \ {0} /\ Promises \subseteq AllPromises

VARIABLES
    read,   \* read_data, read_req, read_rps, rfinish_n
    ar,     \* arvalid_r and araddr_r
    rready, \* rready_r
    kept,   \* rdata_r_valid and rdata_r
    wbusy,  \* wfinish_n
    aw, w,  \* the two write channels: valid, what is on it, and its ready_r
    bready, \* bready_r
    inst,   \* external: the fetch port, idle, asking or waiting for its answer
    data,   \* external: the load and store port
    slave,  \* external: the reads and the halves of writes it has taken, memory
    r,      \* external: rvalid, rid and rdata
    b,      \* external: bvalid
    ideal   \* history: memory after the stores that are done

vars == <<read, ar, rready, kept, wbusy, aw, w, bready, inst, data, slave, r, b, ideal>>

Word   == Addr \X Value     \* what a read brings, with where it comes from
NoWord == <<NoAddr, NoVal>>
Fetch == 0
Load  == 1

TypeOK ==
    /\ read \in [data : BOOLEAN, req : BOOLEAN, rps : BOOLEAN, busy : BOOLEAN]
    /\ ar \in [v : BOOLEAN, addr : Addr \cup {NoAddr}]
    /\ kept \in [v : BOOLEAN, word : Word \cup {NoWord}]
    /\ aw \in [v : BOOLEAN, addr : Addr \cup {NoAddr}, done : BOOLEAN]
    /\ w \in [v : BOOLEAN, val : Value \cup {NoVal}, done : BOOLEAN]
    /\ {rready, wbusy, bready, b} \subseteq BOOLEAN
    /\ inst \in [at : {"idle", "asks", "waits"}, addr : Addr \cup {NoAddr}]
    /\ data \in [at : {"idle", "asks", "waits"}, wr : BOOLEAN, addr : Addr \cup {NoAddr}, val : Value \cup {NoVal}]
    /\ r \in [v : BOOLEAN, id : {Fetch, Load}, word : Word \cup {NoWord}]
    /\ slave.memory \in [Addr -> Value] /\ ideal \in [Addr -> Value]

NoInst == [at |-> "idle", addr |-> NoAddr]
NoData == [at |-> "idle", wr |-> FALSE, addr |-> NoAddr, val |-> NoVal]
NoRead == [v |-> FALSE, id |-> Fetch, word |-> NoWord]

Init ==
    /\ read = [data |-> FALSE, req |-> FALSE, rps |-> FALSE, busy |-> FALSE]
    /\ ar = [v |-> FALSE, addr |-> NoAddr] /\ rready = FALSE
    /\ kept = [v |-> FALSE, word |-> NoWord]
    /\ wbusy = FALSE /\ bready = FALSE
    /\ aw = [v |-> FALSE, addr |-> NoAddr, done |-> FALSE]
    /\ w = [v |-> FALSE, val |-> NoVal, done |-> FALSE]
    /\ inst = NoInst /\ data = NoData /\ r = NoRead /\ b = FALSE
    /\ ideal \in [Addr -> Value]
    /\ slave = [reads |-> {}, aw |-> <<>>, w |-> <<>>, memory |-> ideal]

----------------------------------------------------------------------------
(* The wires                                                               *)

InstReq  == inst.at = "asks"
DataRead == data.at = "asks" /\ ~ data.wr
WriteReq == data.at = "asks" /\ data.wr

\* p: arready, awready, wready.
AwReadyBuf(p) == aw.done \/ p.aw
WReadyBuf(p)  == w.done \/ p.w

AnyReady(p)   == p.ar      \* Mutant: a fetch takes what is for a load.
InstAddrOk(p) == ~ read.data /\ p.ar
DataAddrOk(p) == IF WriteReq THEN AwReadyBuf(p) /\ WReadyBuf(p) ELSE read.data /\ p.ar

InstDataOk == r.v /\ rready /\ r.id = Fetch
DataOk     == IF wbusy THEN bready /\ b ELSE r.v /\ rready /\ r.id = Load
RdataBuf   == IF kept.v THEN kept.word ELSE r.word

----------------------------------------------------------------------------
(* The registers                                                           *)

\* RAW needs a store and a load that both ask, and there is one port for the two.
ReadControl(p) ==
    [data |-> ~ p.ar /\ ~ (~ read.data /\ read.busy) /\ (read.data \/ (DataRead /\ ~ read.req)),
     req  |-> IF read.req /\ p.ar THEN FALSE
              ELSE read.req \/ ((read.data \/ InstReq) /\ ~ p.ar),
     rps  |-> p.ar \/ (read.rps /\ ~ r.v),
     busy |-> ~ (rready /\ r.v) /\ (read.busy \/ read.req \/ read.rps)]

FetchFirst(p) ==   \* Mutant: the address is the fetch's whenever it asks.
    IF p.ar THEN [v |-> FALSE, addr |-> NoAddr]
    ELSE IF read.req
      THEN [v |-> TRUE, addr |-> IF InstReq THEN inst.addr ELSE data.addr]
      ELSE ar

ReadAddress(p) ==
    IF p.ar THEN [v |-> FALSE, addr |-> NoAddr]
    ELSE IF read.req
      THEN [v |-> TRUE, addr |-> IF read.data THEN data.addr ELSE inst.addr]
      ELSE ar

\* A write channel offers the store until it is ready, remembers that, and forgets
\* it when the other is ready as well.
Channel(done, both, req, offer, empty, c) ==
    [(IF done THEN empty ELSE IF req THEN offer ELSE c) EXCEPT !.done = done /\ ~ both]

WriteChannels(p) ==
    LET both == AwReadyBuf(p) /\ WReadyBuf(p)
    IN /\ aw' = Channel(AwReadyBuf(p), both, WriteReq,
                        [v |-> TRUE, addr |-> data.addr, done |-> FALSE],
                        [v |-> FALSE, addr |-> NoAddr, done |-> FALSE], aw)
       /\ w' = Channel(WReadyBuf(p), both, WriteReq,
                       [v |-> TRUE, val |-> data.val, done |-> FALSE],
                       [v |-> FALSE, val |-> NoVal, done |-> FALSE], w)
       /\ wbusy' = (WriteReq \/ (wbusy /\ ~ (b /\ bready)))
       /\ bready' = (~ b /\ (WriteReq \/ bready))

Registers(p) ==
    /\ read' = ReadControl(p)
    /\ ar' = ReadAddress(p)
    /\ rready' = (read.rps \/ (rready /\ ~ r.v))
    /\ kept' = [v    |-> (r.v /\ ~ rready) \/ (kept.v /\ ~ read.req),
                word |-> IF r.v THEN r.word ELSE IF read.req THEN NoWord ELSE kept.word]
    /\ WriteChannels(p)

----------------------------------------------------------------------------
(* External: the processor and the slave                                   *)

Fetching(p) ==
    LET asks == {[at |-> "asks", addr |-> a] : a \in Addr}
    IN \/ inst.at = "idle" /\ inst' \in {NoInst} \cup asks
       \/ inst.at = "asks" /\ ~ InstAddrOk(p) /\ inst' \in IF "steady" \in Promises THEN {inst} ELSE asks
       \/ inst.at = "asks" /\ InstAddrOk(p) /\ inst' = [inst EXCEPT !.at = "waits"]
       \/ inst.at = "waits" /\ ~ InstDataOk /\ inst' = inst
       \/ inst.at = "waits" /\ InstDataOk /\ inst' \in {NoInst} \cup asks

\* A store is done when its answer comes.
LoadingOrStoring(p) ==
    LET asks == {[at |-> "asks", wr |-> FALSE, addr |-> a, val |-> NoVal] : a \in Addr}
                \cup {[at |-> "asks", wr |-> TRUE, addr |-> a, val |-> v] : a \in Addr, v \in Value}
    IN /\ \/ data.at = "idle" /\ data' \in {NoData} \cup asks
          \/ data.at = "asks" /\ ~ DataAddrOk(p) /\ data' \in {data} \cup IF "held" \in Promises THEN {} ELSE {NoData}
          \/ data.at = "asks" /\ DataAddrOk(p) /\ data' = [data EXCEPT !.at = "waits"]
          \/ data.at = "waits" /\ ~ DataOk /\ data' = data
          \/ data.at = "waits" /\ DataOk /\ data' \in {NoData} \cup asks
       /\ ideal' = IF data.at = "waits" /\ data.wr /\ DataOk THEN [ideal EXCEPT ![data.addr] = data.val] ELSE ideal

\* The reads are answered in any order, a valid answer stays until it is taken.
Slave(p) ==
    LET reads == slave.reads \cup IF ar.v /\ p.ar
                                    THEN {[id |-> IF read.data THEN Load ELSE Fetch, addr |-> ar.addr]} ELSE {}
        addrs == IF aw.v /\ p.aw THEN Append(slave.aw, aw.addr) ELSE slave.aw
        vals  == IF w.v /\ p.w THEN Append(slave.w, w.val) ELSE slave.w
        whole == addrs # <<>> /\ vals # <<>>
    IN \E answer \in {{}} \cup {{q} : q \in reads}, writes \in {FALSE} \cup {whole} :
        /\ r.v /\ ~ rready => answer = {}
        /\ b /\ ~ bready => ~ writes
        /\ r' = IF r.v /\ ~ rready THEN r
                ELSE IF answer = {} THEN NoRead
                ELSE LET q == CHOOSE x \in answer : TRUE
                     IN [v |-> TRUE, id |-> q.id, word |-> <<q.addr, slave.memory[q.addr]>>]
        /\ b' = (writes \/ (b /\ ~ bready))
        /\ slave' = [reads  |-> reads \ answer,
                     aw     |-> IF writes THEN Tail(addrs) ELSE addrs,
                     w      |-> IF writes THEN Tail(vals) ELSE vals,
                     memory |-> IF writes THEN [slave.memory EXCEPT ![Head(addrs)] = Head(vals)]
                                ELSE slave.memory]

----------------------------------------------------------------------------

Cycle(p) == Registers(p) /\ Fetching(p) /\ LoadingOrStoring(p) /\ Slave(p)

Ready(valid) == IF valid THEN BOOLEAN ELSE IF "late" \in Promises THEN {FALSE} ELSE BOOLEAN

Next == \E a \in Ready(ar.v), x \in Ready(aw.v), y \in Ready(w.v) : Cycle([ar |-> a, aw |-> x, w |-> y])

\* The slave takes what is offered, and answers every read and every store.
Takes == Cycle([ar |-> ar.v, aw |-> aw.v, w |-> w.v]) /\ (slave.aw # <<>> /\ slave.w # <<>> => b')
Answers(id) ==
    /\ ~ (r.v /\ ~ rready)
    /\ \E q \in slave.reads : q.id = id
    /\ Next
    /\ r'.v /\ r'.id = id

Spec == Init /\ [][Next]_vars

----------------------------------------------------------------------------
(* Properties                                                              *)

\* An answer goes to a port that waits for it, and a load is not told that a store
\* is done or the other way round.
Paired ==
    /\ InstDataOk => inst.at = "waits"
    /\ DataOk => data.at = "waits" /\ (data.wr <=> b)

\* What is read is from the address asked for, though two reads be under way, their
\* answers come in any order and before rready; a load reads the last store.
ReadsRight ==
    /\ InstDataOk /\ inst.at = "waits" => RdataBuf[1] = inst.addr
    /\ DataOk /\ data.at = "waits" /\ ~ data.wr => RdataBuf = <<data.addr, ideal[data.addr]>>

\* Address and data of a store meet in the slave and are written once; before the
\* store is accepted and after it is done nothing of it is on its way.
StoresLand ==
    LET storing == data.wr /\ data.at # "idle"
    IN /\ slave.aw # <<>> \/ slave.w # <<>> => storing
       /\ slave.memory # ideal =>
             storing /\ data.at = "waits" /\ slave.memory = [ideal EXCEPT ![data.addr] = data.val]

\* Whoever asks, and who is answered.
Asks(id) == IF id = Fetch THEN inst.at = "asks" ELSE data.at = "asks"
Gets(id) == IF id = Fetch THEN inst.at = "waits" /\ InstDataOk ELSE data.at = "waits" /\ DataOk

----------------------------------------------------------------------------
(* The invariant that BridgeProofs shows to be inductive.                  *)

Typed ==
    /\ TypeOK
    /\ slave \in [reads : SUBSET [id : {Fetch, Load}, addr : Addr], aw : Seq(Addr), w : Seq(Value),
                  memory : [Addr -> Value]]
    /\ inst.at # "idle" => inst.addr \in Addr
    /\ data.at # "idle" => data.addr \in Addr /\ (data.wr => data.val \in Value)

\* What the read address channel offers is what a port asks, and it goes on asking.
Asked ==
    /\ read.data => data.at = "asks" /\ ~ data.wr
    /\ read.req /\ ~ read.data => inst.at = "asks"
    /\ ar.v => read.req /\ ar.addr = IF read.data THEN data.addr ELSE inst.addr

\* Each read under way, in the slave or at its output, is of a port that waits for it.
Waited(id, addr) ==
    IF id = Fetch THEN inst.at = "waits" /\ addr = inst.addr
    ELSE data.at = "waits" /\ ~ data.wr /\ addr = data.addr

Owned ==
    /\ \A q \in slave.reads : Waited(q.id, q.addr) /\ (r.v => q.id # r.id)
    /\ r.v => Waited(r.id, r.word[1]) /\ (r.id = Load => r.word = <<data.addr, ideal[data.addr]>>)

\* With two reads under way the bridge is ready for both; an answer finds it not ready
\* only in the cycle after its read was taken, before the next read; and what is kept
\* is the answer at hand, or nothing is under way.
Two == (\E p, q \in slave.reads : p # q) \/ (slave.reads # {} /\ r.v)

Awaited ==
    /\ slave.reads # {} /\ ~ read.rps => rready
    /\ Two => read.rps /\ rready
    /\ r.v /\ ~ rready => read.rps /\ ~ read.req /\ slave.reads = {}
    /\ kept.v => slave.reads = {} /\ (r.v => kept.word = r.word)

\* The two halves of a store meet in the slave: a half is on its channel, or is in the
\* slave with the channel done, until the other is too; then the store is answered.
Halves ==
    /\ aw.v => ~ aw.done /\ aw.addr = data.addr
    /\ w.v => ~ w.done /\ w.val = data.val
    /\ slave.aw = IF aw.done THEN <<data.addr>> ELSE <<>>
    /\ slave.w = IF w.done THEN <<data.val>> ELSE <<>>
    /\ ~ (aw.done /\ w.done) /\ ~ b /\ slave.memory = ideal

Meeting ==
    /\ ~ aw.v /\ ~ aw.done /\ ~ w.v /\ ~ w.done /\ wbusy /\ bready
    /\ IF b THEN slave.aw = <<>> /\ slave.w = <<>> /\ slave.memory = [ideal EXCEPT ![data.addr] = data.val]
       ELSE slave.aw = <<data.addr>> /\ slave.w = <<data.val>> /\ slave.memory = ideal

NoStore ==
    /\ ~ aw.v /\ ~ aw.done /\ ~ w.v /\ ~ w.done /\ ~ wbusy
    /\ slave.aw = <<>> /\ slave.w = <<>> /\ ~ b /\ slave.memory = ideal

Stored ==
    IF data.at = "asks" /\ data.wr THEN Halves
    ELSE IF data.at = "waits" /\ data.wr THEN Meeting
    ELSE NoStore

BridgeInv == Typed /\ Asked /\ Owned /\ Awaited /\ Stored
=============================================================================
