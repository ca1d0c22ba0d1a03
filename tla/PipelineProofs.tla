--------------------------- MODULE PipelineProofs ---------------------------
(***************************************************************************)
(* The safety of the pipeline, for every number of addresses: instructions *)
(* are written back in the order of the architecture, exceptions restart   *)
(* at the right place, and an answer of the data port meets the access     *)
(* that waits for it.  All of them under the promises of the run.          *)
(***************************************************************************)
EXTENDS Pipeline, TLAPS

Kept == Promises = AllPromises

----------------------------------------------------------------------------
(* Types                                                                   *)

Address == Pc \cup {None}
Kind == {"plain", "mem", "branch", "ex", "hitMem", "fault", "align", "eret", "tlbw"}
Inst == [at : Address, kind : Kind, to : Address]
StageT == [v : BOOLEAN, at : Address, kind : Kind, to : Address, pc : Address, bd : BOOLEAN]

\* A branch alone has a target.
Straight(s) == s.kind # "branch" => s.to = None

TypeOK ==
    /\ fs \in [v : BOOLEAN, pc : Pc, req : BOOLEAN]
    /\ hold \in [v : BOOLEAN, inst : Inst] /\ Straight(hold.inst)
    /\ cancel \in [one : BOOLEAN, two : BOOLEAN]
    /\ again \in [v : BOOLEAN, pc : Pc]
    /\ br \in [v : BOOLEAN, is : BOOLEAN, taken : BOOLEAN, to : Address]
    /\ br.taken => br.to \in Pc
    /\ \A s \in {ds, es, ms, ws} : s \in StageT /\ Straight(s) /\ (s.v => s.pc \in Pc)
    /\ dreq \in BOOLEAN
    /\ cp0 \in [epc : Pc, exl : BOOLEAN]
    /\ lat \in Address
    /\ dport \in [v : BOOLEAN, own : BOOLEAN]
    /\ next \in [pc : Pc, after : Pc, slot : BOOLEAN, epc : Pc, exl : BOOLEAN]

----------------------------------------------------------------------------
(* The fetch stage                                                         *)

\* It asks for the next instruction, waits for the answer, holds it for ID, or holds a
\* delay slot and asks for what comes after it.
Asking  == ~ fs.v /\ fs.req /\ ~ hold.v /\ iport = <<>> /\ lat \in {None, Plus(fs.pc, 1)}
Waiting == fs.v /\ ~ fs.req /\ ~ hold.v /\ iport = <<fs.pc>> /\ lat = None
Holding == fs.v /\ ~ fs.req /\ hold.v /\ iport = <<>> /\ lat = None
Turning == /\ fs.v /\ fs.req /\ hold.v /\ iport = <<>> /\ br.v
           /\ lat \in {None, IF br.taken THEN br.to ELSE Plus(fs.pc, 1)}

Onwards ==
    /\ ~ again.v /\ ~ cancel.one /\ ~ cancel.two
    /\ Asking \/ Waiting \/ Holding \/ Turning
    /\ hold.v => hold.inst.at = fs.pc
    /\ br.v => br.is /\ ~ ds.v /\ (es.v => es.kind = "branch")

Empty == ~ ds.v /\ ~ es.v /\ ~ ms.v /\ ~ ws.v

\* After a flush: the answer that is due is dropped and the fetch begins again.
Back ==
    /\ again.v /\ ~ hold.v /\ ~ br.v /\ Empty
    /\ (fs.req /\ iport = <<>>) \/ (~ fs.req /\ \E pc \in Pc : iport = <<pc>>)
    /\ fs.v => ~ Live
    /\ lat \in {None, again.pc}
    /\ next.pc = again.pc /\ ~ next.slot

Fetching == Onwards \/ Back

----------------------------------------------------------------------------
(* The order of instructions                                               *)

\* What the architecture comes to behind the instruction in stage s.
Advance(n, s) ==
    IF ~ s.v THEN n
    ELSE [pc |-> n.after, slot |-> s.kind = "branch",
          after |-> IF s.to # None THEN s.to ELSE Plus(n.after, 1)]

ToWs == [pc |-> next.pc, slot |-> next.slot, after |-> next.after]
ToMs == Advance(ToWs, ws)
ToEs == Advance(ToMs, ms)
ToDs == Advance(ToEs, es)
ToFs == Advance(ToDs, ds)

Raising(s)  == s.v /\ (Raises(s) \/ s.kind = "eret")
Flushing(s) == s.v /\ (Raises(s) \/ s.kind \in {"eret", "tlbw"})
Matches(s, n) == s.pc = n.pc /\ s.bd = n.slot

Ordered ==
    /\ \A s \in {ds, es, ms, ws} : s.v => s.at = s.pc
    /\ ~ next.slot => next.after = Plus(next.pc, 1)
    /\ ws.v => Matches(ws, ToWs)
    /\ ms.v /\ ~ Flushing(ws) => Matches(ms, ToMs)
    /\ es.v /\ ~ Flushing(ws) /\ ~ Flushing(ms) => Matches(es, ToEs)
    /\ ds.v /\ ~ Flushing(ws) /\ ~ Flushing(ms) /\ ~ Flushing(es) => Matches(ds, ToDs)
    /\ ~ again.v /\ ~ Flushing(ws) /\ ~ Flushing(ms) /\ ~ Flushing(es) /\ ~ Flushing(ds) =>
           /\ ToFs.slot <=> br.v \/ IsBranch
           /\ ToFs.pc = IF fs.v THEN fs.pc ELSE Plus(fs.pc, 1)
           /\ br.v => ToFs.after = IF br.taken THEN br.to ELSE Plus(ToFs.pc, 1)

----------------------------------------------------------------------------
(* What software sees to                                                   *)

Sensitive(s) == s.kind = "eret"

Apart ==
    /\ hold.v /\ Sensitive(hold.inst) => ~ Raising(ds) /\ ~ Raising(es) /\ ~ Raising(ms) /\ ~ Raising(ws)
    /\ ds.v /\ Sensitive(ds) => ~ Raising(es) /\ ~ Raising(ms) /\ ~ Raising(ws)
    /\ es.v /\ Sensitive(es) => ~ Raising(ms) /\ ~ Raising(ws)
    /\ ms.v /\ Sensitive(ms) => ~ Raising(ws)

TlbWrite(s) == s.v /\ s.kind = "tlbw"
Alone ==
    /\ hold.v => hold.inst.kind # "tlbw"
    /\ ToRefetch => Asking /\ ~ again.v /\ ~ br.v
    /\ TlbWrite(ds) => ~ es.v /\ ~ ms.v /\ ~ ws.v /\ fs.pc = ds.pc /\ ~ ds.bd
    /\ TlbWrite(es) => ~ ds.v /\ ~ ms.v /\ ~ ws.v /\ fs.pc = es.pc /\ ~ es.bd
    /\ TlbWrite(ms) => ~ ds.v /\ ~ es.v /\ ~ ws.v /\ fs.pc = ms.pc /\ ~ ms.bd
    /\ TlbWrite(ws) => ~ ds.v /\ ~ es.v /\ ~ ms.v /\ fs.pc = ws.pc /\ ~ ws.bd

\* A flush finds room in ID for what IF has: the fetch behind an instruction that raises is
\* too slow to fill ID and EXE before it.
Timely ==
    /\ Raising(ms) /\ es.v /\ ds.v => fs.req /\ lat = None
    /\ Raising(ws) /\ es.v /\ ds.v => fs.req

----------------------------------------------------------------------------

Restarts ==
    /\ cp0 = [epc |-> next.epc, exl |-> next.exl]
    /\ ~ ws.v /\ ws.kind = "eret" => ~ cp0.exl

\* A load or store in MEM is one the port has accepted, and nothing ahead flushes it.
Accesses ==
    /\ dport.v /\ dport.own <=> ms.v /\ ms.kind = "mem"
    /\ Raising(ws) => ~ (dport.v /\ dport.own)

PInv ==
    /\ TypeOK /\ Fetching /\ Ordered
    /\ Apart /\ Alone /\ Timely
    /\ Restarts /\ Accesses

----------------------------------------------------------------------------
(* What the ports and the instructions of a cycle can be                   *)

LEMMA Addresses ==
  /\ None \notin Pc /\ Vector \in Pc /\ Target \in Pc
  /\ \A pc \in Pc : \A n \in Nat : Plus(pc, n) \in Pc
  /\ \A pc \in Pc : Before(pc) \in Pc /\ Plus(Before(pc), 1) = pc
BY PipelineAssumption DEF None, Pc, Vector, Plus, Before

LEMMA InstFacts ==
  ASSUME Kept, NEW pc \in Pc, NEW i \in Insts(pc)
  PROVE  i \in Inst /\ i.at = pc /\ Straight(i) /\ i # NoInst
<1>1. Kinds = Kind
  BY DEF Kept, AllPromises, Kinds, Kind
<1> QED
  BY <1>1, Addresses DEF Insts, Inst, Straight, NoInst, Address, Kind

LEMMA AnswerFacts ==
  ASSUME TypeOK, NEW p \in Answers
  PROVE  /\ {p.iok, p.idata, p.dok, p.ddata, p.wait, p.stall, p.guess} \subseteq BOOLEAN
         /\ p.iok => fs.req /\ lat # None
         /\ p.idata => iport # <<>> /\ p.inst \in Insts(Head(iport))
         /\ ~ p.idata => p.inst = NoInst
         /\ p.dok => DataReq /\ ~ dport.v
         /\ p.ddata => dport.v
         /\ p.wait => es.v /\ es.kind = "plain"
         /\ p.stall => ds.v /\ (es.v \/ ms.v)
<1>1. PICK s \in Choice(ds.v /\ (es.v \/ ms.v)) :
          \E a \in Choice(CanFetch), c \in Choice(DataReq /\ ~ dport.v), d \in Choice(dport.v),
             i \in {NoInst} \cup IF iport # <<>> THEN Insts(Head(iport)) ELSE {},
             w \in Choice(es.v /\ es.kind = "plain"), g \in Choice(IsBranch /\ s) :
              p = [iok |-> a, idata |-> i # NoInst, inst |-> i, dok |-> c, ddata |-> d, wait |-> w, stall |-> s, guess |-> g]
  BY DEF Answers
<1>2. PICK a \in Choice(CanFetch), c \in Choice(DataReq /\ ~ dport.v), d \in Choice(dport.v),
           i \in {NoInst} \cup IF iport # <<>> THEN Insts(Head(iport)) ELSE {},
           w \in Choice(es.v /\ es.kind = "plain"), g \in Choice(IsBranch /\ s) :
             p = [iok |-> a, idata |-> i # NoInst, inst |-> i, dok |-> c, ddata |-> d, wait |-> w, stall |-> s, guess |-> g]
  BY <1>1
<1>3. \A B, x : x \in Choice(B) => x \in BOOLEAN /\ (x => B)
  BY DEF Choice
<1> QED
  BY <1>2, <1>3 DEF CanFetch

----------------------------------------------------------------------------
(* How the stages move in a cycle that does not flush                      *)

In(p)   == fs.v /\ FsReady(p) /\ DsAllow(p)
DsGo(p) == ds.v /\ DsReady(p) /\ EsAllow(p)
EsGo(p) == es.v /\ EsReady(p) /\ MsAllow(p)
MsGo(p) == ms.v /\ MsReady(p)

Comes(p) == IF hold.v THEN hold.inst ELSE p.inst
Came(p) == [v |-> TRUE, at |-> Comes(p).at, kind |-> Comes(p).kind, to |-> Comes(p).to,
            pc |-> fs.pc, bd |-> BranchHeld(p).is]

LEMMA Moves ==
  ASSUME TypeOK, NEW p \in Answers, Stages(p), ~ Flush
  PROVE  /\ ds' = IF In(p) THEN Came(p) ELSE IF ds.v /\ ~ DsGo(p) THEN ds ELSE NoOne
         /\ es' = IF DsGo(p) THEN ds ELSE IF es.v /\ ~ EsGo(p) THEN es ELSE NoOne
         /\ ms' = IF EsGo(p) THEN es ELSE IF ms.v /\ ~ MsGo(p) THEN ms ELSE NoOne
         /\ ws' = IF MsGo(p) THEN ms ELSE Left(ws)
<1>1. (IF p.idata THEN p.inst ELSE NoInst) = p.inst
  BY AnswerFacts
<1>2. /\ ds' = Stage(ds, DsAllow(p), fs.v /\ FsReady(p), Came(p))
      /\ es' = Stage(es, EsAllow(p), ds.v /\ DsReady(p), ds)
      /\ ms' = Stage(ms, MsAllow(p), es.v /\ EsReady(p), es)
      /\ ws' = IF MsGo(p) THEN ms ELSE Left(ws)
  BY <1>1 DEF Stages, Came, Comes, When, MsGo
<1>3. ds' = IF In(p) THEN Came(p) ELSE IF ds.v /\ ~ DsGo(p) THEN ds ELSE NoOne
  BY <1>2 DEF Stage, When, In, DsGo, DsAllow
<1>4. es' = IF DsGo(p) THEN ds ELSE IF es.v /\ ~ EsGo(p) THEN es ELSE NoOne
  BY <1>2 DEF Stage, When, DsGo, EsGo, EsAllow
<1>5. ms' = IF EsGo(p) THEN es ELSE IF ms.v /\ ~ MsGo(p) THEN ms ELSE NoOne
  BY <1>2 DEF Stage, When, EsGo, MsGo, MsAllow
<1> QED
  BY <1>2, <1>3, <1>4, <1>5

\* Who goes makes room, and what comes is an instruction of the fetch stage.
LEMMA Room ==
  ASSUME NEW p
  PROVE  /\ In(p) => ~ ds.v \/ DsGo(p)
         /\ DsGo(p) => ds.v /\ (~ es.v \/ EsGo(p))
         /\ EsGo(p) => es.v /\ (~ ms.v \/ MsGo(p))
         /\ MsGo(p) => ms.v
BY DEF In, DsGo, EsGo, MsGo, DsAllow, EsAllow, MsAllow

LEMMA NoOneFacts == NoOne \in StageT /\ ~ NoOne.v /\ Straight(NoOne) /\ NoOne.kind = "plain"
BY Addresses DEF NoOne, StageT, Straight, Address, Kind

LEMMA LeftFacts ==
  ASSUME NEW s
  PROVE  /\ Left(s) \in StageT /\ ~ Left(s).v /\ Straight(Left(s))
         /\ Left(s).kind = IF s.kind = "eret" THEN "eret" ELSE "plain"
BY NoOneFacts DEF Left, StageT, Straight, Kind

\* The order behind a stage moves with it.
LEMMA Shift ==
  ASSUME TypeOK, NEW p \in Answers, Stages(p), Retire, ~ Flush, ~ Raising(ws)
  PROVE  /\ ToWs' = ToMs
         /\ ToMs' = IF MsGo(p) THEN ToEs ELSE ToMs
         /\ ToEs' = IF EsGo(p) THEN ToDs ELSE ToEs
         /\ ToDs' = IF DsGo(p) THEN ToFs ELSE ToDs
         /\ ToFs' = IF In(p) THEN Advance(ToFs, Came(p)) ELSE ToFs
<1>0. /\ \A n, s : ~ s.v => Advance(n, s) = n
      /\ ~ NoOne.v /\ ~ Left(ws).v
  BY NoOneFacts, LeftFacts DEF Advance, TypeOK
<1>a. /\ ToMs = Advance(ToWs, ws) /\ ToMs' = Advance(ToWs', ws')
      /\ ToEs = Advance(ToMs, ms) /\ ToEs' = Advance(ToMs', ms')
      /\ ToDs = Advance(ToEs, es) /\ ToDs' = Advance(ToEs', es')
      /\ ToFs = Advance(ToDs, ds) /\ ToFs' = Advance(ToDs', ds')
  BY DEF ToMs, ToEs, ToDs, ToFs
<1>1. ToWs' = ToMs
  <2>1. CASE ws.v
    <3>1. ~ Raises(ws) /\ ws.kind # "eret"
      BY <2>1 DEF Raising
    <3>2. /\ next'.pc = next.after /\ next'.slot = (ws.kind = "branch")
          /\ next'.after = IF ws.to # None THEN ws.to ELSE Plus(next.after, 1)
      BY <2>1, <3>1 DEF Retire, TypeOK
    <3> QED
      BY <2>1, <3>2 DEF ToWs, ToMs, Advance
  <2>2. CASE ~ ws.v
    BY <2>2 DEF Retire, ToWs, ToMs, Advance
  <2> QED
    BY <2>1, <2>2
<1>2. ToMs' = IF MsGo(p) THEN ToEs ELSE ToMs
  BY <1>0, <1>a, <1>1, Moves
<1>3. ToEs' = IF EsGo(p) THEN ToDs ELSE ToEs
  BY <1>0, <1>a, <1>2, Moves, Room
<1>4. ToDs' = IF DsGo(p) THEN ToFs ELSE ToDs
  BY <1>0, <1>a, <1>3, Moves, Room
<1>5. ToFs' = IF In(p) THEN Advance(ToFs, Came(p)) ELSE ToFs
  BY <1>0, <1>a, <1>4, Moves, Room
<1> QED
  BY <1>1, <1>2, <1>3, <1>4, <1>5

----------------------------------------------------------------------------
(* What is fetched                                                         *)

LEMMA One == \A x : <<x>> # <<>> /\ Head(<<x>>) = x /\ Tail(<<x>>) = <<>> /\ <<>> \o <<x>> = <<x>> /\ <<x>> \o <<>> = <<x>>
OBVIOUS

LEMMA Nothing == <<>> \o <<>> = <<>>
OBVIOUS

\* At most one fetch is in flight, and what it brings is of its address.
LEMMA Fetched ==
  ASSUME Kept, PInv, NEW p \in Answers
  PROVE  /\ iport = <<>> \/ \E pc \in Pc : iport = <<pc>>
         /\ p.inst \in Inst /\ Straight(p.inst) /\ Comes(p) \in Inst /\ Straight(Comes(p))
         /\ p.idata => iport = <<p.inst.at>> /\ p.inst.at \in Pc /\ ~ fs.req
         /\ ~ p.idata => p.inst = NoInst
         /\ p.idata \/ p.iok => ~ (p.idata /\ p.iok)
<1>1. iport = <<>> \/ (~ fs.req /\ \E pc \in Pc : iport = <<pc>>)
  BY DEF PInv, TypeOK, Fetching, Onwards, Back, Asking, Waiting, Holding, Turning
<1>2. NoInst \in Inst /\ Straight(NoInst)
  BY DEF NoInst, Inst, Address, Kind, Straight
<1>3. CASE p.idata
  <2>1. PICK pc \in Pc : iport = <<pc>> /\ ~ fs.req
    BY <1>1, <1>3, AnswerFacts DEF PInv
  <2>2. p.inst \in Insts(pc)
    BY <1>3, <2>1, AnswerFacts, One DEF PInv
  <2>3. p.inst \in Inst /\ Straight(p.inst) /\ p.inst.at = pc
    BY <2>2, InstFacts
  <2> QED
    BY <1>1, <1>3, <2>1, <2>3, AnswerFacts DEF PInv, TypeOK, Comes
<1>4. CASE ~ p.idata
  BY <1>1, <1>2, <1>4, AnswerFacts DEF PInv, TypeOK, Comes
<1> QED
  BY <1>3, <1>4

----------------------------------------------------------------------------
(* A cycle that flushes                                                    *)

\* There is room in ID when an instruction that flushes is written back, unless the fetch
\* stage has asked already.
LEMMA RoomInId ==
  ASSUME Kept, PInv, NEW p \in Answers, Flush
  PROVE  fs.req \/ DsAllow(p)
<1>1. ws.v
  BY DEF Flush, WsReflush, WbEx, Eret, Refetch
<1>2. CASE Raising(ws)
  BY <1>2 DEF PInv, Timely, DsAllow, EsAllow, DsReady
<1>3. CASE ~ Raising(ws)
  <2>1. ToRefetch
    BY <1>3 DEF Flush, WsReflush, WbEx, Eret, Refetch, Raising
  <2>2. ~ ds.v
    BY <1>1, <2>1 DEF PInv, Alone, ToRefetch, TlbWrite
  <2> QED
    BY <2>2 DEF DsAllow
<1> QED
  BY <1>2, <1>3

\* It goes on where the architecture does.
LEMMA GoesOn ==
  ASSUME Kept, PInv, NEW p \in Answers, Flush, Cycle(p)
  PROVE  NextPc(p) = next'.pc /\ next'.pc \in Pc /\ ~ next'.slot /\ next'.after = Plus(next'.pc, 1)
<1>1. ws.v
  BY DEF Flush, WsReflush, WbEx, Eret, Refetch
<1>2. CASE ws.kind = "eret"
  <2>1. ~ Raises(ws) /\ Eret /\ ~ WbEx /\ WsReflush
    BY <1>1, <1>2 DEF Raises, ExeEx, IdEx, WbEx, Eret, WsReflush
  <2>2. NextPc(p) = cp0.epc
    BY <2>1 DEF NextPc
  <2>3. next' = [pc |-> next.epc, after |-> Plus(next.epc, 1), slot |-> FALSE, exl |-> FALSE, epc |-> next.epc]
    BY <1>1, <1>2, <2>1 DEF Cycle, Retire
  <2> QED
    BY <2>2, <2>3 DEF PInv, TypeOK, Restarts
<1>3. CASE Raises(ws)
  <2>1. ws.kind # "eret"
    BY <1>3 DEF Raises, ExeEx, IdEx
  <2>2. ~ Eret /\ WbEx /\ WsReflush
    BY <1>1, <1>3, <2>1 DEF WbEx, Eret, WsReflush
  <2>3. NextPc(p) = Vector
    BY <2>2 DEF NextPc
  <2>4. /\ next'.pc = Vector /\ next'.after = Plus(Vector, 1) /\ ~ next'.slot
    BY <1>1, <1>3, <2>1 DEF Cycle, Retire
  <2> QED
    BY <2>3, <2>4, Addresses
<1>4. CASE ~ Raises(ws) /\ ws.kind # "eret"
  <2>1. Refetch /\ ~ WsReflush /\ ~ WbEx /\ ~ Eret
    BY <1>4 DEF Flush, WsReflush, WbEx, Eret
  <2>2. TlbWrite(ws)
    BY <1>1, <2>1 DEF PInv, Alone, ToRefetch, TlbWrite, Refetch
  <2>3. fs.pc = next.pc /\ ~ next.slot /\ next.after = Plus(next.pc, 1)
    BY <1>1, <2>2 DEF PInv, Alone, TlbWrite, Ordered, Matches, ToWs
  <2>4. ws.to = None /\ ws.kind # "branch"
    BY <2>2 DEF TlbWrite, PInv, TypeOK, Straight
  <2>5. NextPc(p) = Plus(fs.pc, 1)
    BY <2>1 DEF NextPc
  <2>6. next' = [next EXCEPT !.pc = next.after, !.slot = FALSE, !.after = Plus(next.after, 1)]
    BY <1>1, <1>4, <2>4 DEF Cycle, Retire
  <2> QED
    BY <2>3, <2>5, <2>6, Addresses DEF PInv, TypeOK
<1> QED
  BY <1>2, <1>3, <1>4

LEMMA FlushTurnsBack ==
  ASSUME Kept, PInv, NEW p \in Answers, Flush, Cycle(p)
  PROVE  /\ Back' /\ ds' = NoOne /\ es' = NoOne /\ ms' = NoOne /\ ~ ws'.v
         /\ hold' = NoHold /\ br' = NoBranch
<1>1. /\ ds' = NoOne /\ es' = NoOne /\ ms' = NoOne
      /\ hold' = NoHold /\ br' = NoBranch
  BY DEF Cycle, Stages, FetchStage, Stage, When
<1>2. ~ ws'.v
  BY LeftFacts DEF Cycle, Stages, When
<1>3. again' = [v |-> TRUE, pc |-> NextPc(p)]
  BY DEF Cycle, FetchStage, When
<1>4. ws.v /\ Onwards
  BY DEF Flush, WsReflush, WbEx, Eret, Refetch, PInv, Fetching, Back, Empty
<1>5. /\ fs'.v = (Live /\ IF FsAllow(p) THEN PreGo(p) ELSE fs.v)
      /\ fs'.req = (~ PreGo(p) /\ (fs.req \/ (DsAllow(p) /\ (p.idata \/ hold.v))))
      /\ lat' = IF fs.req /\ ~ PreGo(p) THEN NextPc(p) ELSE None
      /\ iport' = (IF p.idata THEN Tail(iport) ELSE iport) \o (IF PreGo(p) THEN <<lat>> ELSE <<>>)
      /\ cancel' = [one |-> CancelOne(p), two |-> CancelTwo(p)]
  BY DEF Cycle, FetchStage, Ports
<1>6. (fs'.req /\ iport' = <<>>) \/ (~ fs'.req /\ \E pc \in Pc : iport' = <<pc>>)
  <2>1. CASE PreGo(p)
    <3>1. fs.req /\ lat \in Pc /\ ~ p.idata /\ iport = <<>>
      BY <1>4, <2>1, AnswerFacts, Fetched DEF PreGo, PInv, TypeOK, Address, Onwards, Asking, Waiting, Holding, Turning
    <3> QED
      BY <1>5, <2>1, <3>1, One
  <2>2. CASE ~ PreGo(p) /\ fs.req
    <3>1. iport = <<>> /\ ~ p.idata
      BY <1>4, <2>2, Fetched DEF Onwards, Asking, Waiting, Holding, Turning
    <3> QED
      BY <1>5, <2>2, <3>1, Nothing
  <2>3. CASE ~ fs.req
    <3>1. DsAllow(p) /\ ~ PreGo(p) /\ fs.pc \in Pc
      BY <2>3, RoomInId DEF PreGo, PInv, TypeOK
    <3>2. CASE Waiting
      BY <1>5, <2>3, <3>1, <3>2, One, Nothing DEF Waiting
    <3>3. CASE Holding
      BY <1>5, <2>3, <3>1, <3>3, Fetched, One, Nothing DEF Holding
    <3> QED
      BY <1>4, <2>3, <3>2, <3>3 DEF Onwards, Asking, Turning
  <2> QED
    BY <2>1, <2>2, <2>3
<1>7. ~ Live'
  <2>1. CancelOne(p) \/ CancelTwo(p)
    BY DEF CancelOne, CancelTwo
  <2> QED
    BY <1>5, <2>1 DEF Live
<1> QED
  BY <1>1, <1>2, <1>3, <1>5, <1>6, <1>7, GoesOn DEF Back, Empty, NoOne, NoHold, NoBranch

----------------------------------------------------------------------------
(* Types are kept                                                          *)

LEMMA BranchTyped ==
  ASSUME Kept, PInv, NEW p \in Answers
  PROVE  /\ Branch(p) \in [is : BOOLEAN, taken : BOOLEAN, to : Address]
         /\ BranchHeld(p) \in [is : BOOLEAN, taken : BOOLEAN, to : Address]
         /\ Branch(p).taken => Branch(p).to \in Pc
         /\ BranchHeld(p).taken => BranchHeld(p).to \in Pc
<1>1. IsBranch \in BOOLEAN /\ ds.to \in Address /\ (ds.to # None => ds.to \in Pc)
  BY DEF PInv, TypeOK, StageT, Address, IsBranch
<1>2. p.stall \in BOOLEAN /\ p.guess \in BOOLEAN
  BY AnswerFacts DEF PInv
<1>3. Target \in Pc /\ Target \in Address /\ Pc \subseteq Address
  BY Addresses DEF Address
<1>4. Branch(p) \in [is : BOOLEAN, taken : BOOLEAN, to : Address] /\ (Branch(p).taken => Branch(p).to \in Pc)
  BY <1>1, <1>2, <1>3 DEF Branch
<1> QED
  BY <1>4 DEF BranchHeld, PInv, TypeOK

LEMMA NextPcTyped ==
  ASSUME Kept, PInv, NEW p \in Answers, Cycle(p)
  PROVE  NextPc(p) \in Pc
<1>1. CASE Flush
  BY <1>1, GoesOn
<1>2. CASE ~ Flush
  <2>1. Onward(p) \in Pc
    BY BranchTyped, Addresses DEF Onward, PInv, TypeOK
  <2>2. NextPc(p) = IF again.v THEN again.pc ELSE Onward(p)
    BY <1>2 DEF Flush, WsReflush, NextPc
  <2> QED
    BY <2>1, <2>2 DEF PInv, TypeOK
<1> QED
  BY <1>1, <1>2

LEMMA CameTyped ==
  ASSUME Kept, PInv, NEW p \in Answers
  PROVE  /\ Came(p) \in StageT /\ Straight(Came(p)) /\ Came(p).v
         /\ Came(p).pc = fs.pc /\ Came(p).at = Comes(p).at /\ Came(p).kind = Comes(p).kind
         /\ Came(p).to = Comes(p).to /\ Came(p).bd = BranchHeld(p).is
<1>1. Comes(p) \in Inst /\ Straight(Comes(p)) /\ fs.pc \in Address
  BY Fetched DEF PInv, TypeOK, Address
<1>2. BranchHeld(p).is \in BOOLEAN
  BY BranchTyped
<1> QED
  BY <1>1, <1>2 DEF Came, StageT, Inst, Straight

LEMMA TypesKept ==
  ASSUME Kept, PInv, NEW p \in Answers, Cycle(p)
  PROVE  TypeOK'
<1> USE DEF PInv
<1>1. fs' \in [v : BOOLEAN, pc : Pc, req : BOOLEAN]
  <2>1. /\ fs'.v \in BOOLEAN /\ fs'.req \in BOOLEAN
        /\ fs'.pc = IF PreGo(p) /\ FsAllow(p) THEN NextPc(p) ELSE fs.pc
        /\ fs' = [v |-> fs'.v, pc |-> fs'.pc, req |-> fs'.req]
    <3>1. PreGo(p) \in BOOLEAN /\ Live \in BOOLEAN
      BY AnswerFacts DEF PreGo, Live, TypeOK
    <3> QED
      BY <3>1 DEF Cycle, FetchStage, TypeOK
  <2> QED
    BY <2>1, NextPcTyped DEF TypeOK
<1>2. hold' \in [v : BOOLEAN, inst : Inst] /\ Straight(hold'.inst)
  <2>1. NoInst \in Inst /\ Straight(NoInst)
    BY DEF NoInst, Inst, Address, Kind, Straight
  <2>2. hold' = NoHold \/ hold' = [v |-> TRUE, inst |-> p.inst] \/ hold' = [v |-> TRUE, inst |-> hold.inst]
    BY DEF Cycle, FetchStage, When
  <2>3. p.inst \in Inst /\ Straight(p.inst) /\ hold.inst \in Inst /\ Straight(hold.inst)
    BY Fetched DEF TypeOK
  <2>4. \A i \in Inst : LET h == [v |-> TRUE, inst |-> i] IN h \in [v : BOOLEAN, inst : Inst] /\ h.inst = i
    OBVIOUS
  <2>5. NoHold \in [v : BOOLEAN, inst : Inst] /\ NoHold.inst = NoInst
    BY <2>1 DEF NoHold
  <2> QED
    BY <2>1, <2>2, <2>3, <2>4, <2>5
<1>3. cancel' \in [one : BOOLEAN, two : BOOLEAN]
  BY AnswerFacts DEF Cycle, FetchStage, CancelOne, CancelTwo, TypeOK
<1>4. again' \in [v : BOOLEAN, pc : Pc]
  BY NextPcTyped, Addresses DEF Cycle, FetchStage, When, NoAgain, TypeOK
<1>5. br' \in [v : BOOLEAN, is : BOOLEAN, taken : BOOLEAN, to : Address] /\ (br'.taken => br'.to \in Pc)
  <2> DEFINE AsKept(b) == [v |-> TRUE, is |-> b.is, taken |-> b.taken, to |-> b.to]
             Good(r)  == r \in [v : BOOLEAN, is : BOOLEAN, taken : BOOLEAN, to : Address] /\ (r.taken => r.to \in Pc)
  <2>1. br' = NoBranch \/ br' = AsKept(Branch(p)) \/ br' = AsKept(BranchHeld(p))
    BY DEF Cycle, FetchStage, When
  <2>2. \A b \in [is : BOOLEAN, taken : BOOLEAN, to : Address] : (b.taken => b.to \in Pc) => Good(AsKept(b))
    OBVIOUS
  <2>3. Good(NoBranch)
    BY DEF NoBranch, Address
  <2> HIDE DEF AsKept, Good
  <2>4. Good(br')
    BY <2>1, <2>2, <2>3, BranchTyped
  <2> QED
    BY <2>4 DEF Good
<1>6. \A s \in {ds', es', ms', ws'} : s \in StageT /\ Straight(s) /\ (s.v => s.pc \in Pc)
  <2> DEFINE Fine(s) == s \in StageT /\ Straight(s) /\ (s.v => s.pc \in Pc)
  <2>1. Fine(NoOne) /\ Fine(Came(p)) /\ Fine(ds) /\ Fine(es) /\ Fine(ms) /\ Fine(ws)
    BY NoOneFacts, CameTyped DEF TypeOK
  <2>2. CASE ~ Flush
    <3>1. Fine(Left(ws))
      BY LeftFacts
    <3> HIDE DEF Fine
    <3>2. Fine(ds') /\ Fine(es') /\ Fine(ms') /\ Fine(ws')
      BY <2>1, <2>2, <3>1, Moves DEF Cycle
    <3> QED
      BY <3>2 DEF Fine
  <2>3. CASE Flush
    <3>1. ws' = Left(ws) \/ ws' = Left(ms)
      BY <2>3 DEF Cycle, Stages, When
    <3>2. Fine(ws')
      BY <3>1, LeftFacts
    <3> QED
      BY <2>1, <2>3, <3>2, FlushTurnsBack
  <2> QED
    BY <2>2, <2>3
<1>7. dreq' \in BOOLEAN
  BY DEF Cycle, Stages, TypeOK, StageT
<1>8. cp0' \in [epc : Pc, exl : BOOLEAN]
  <2>1. WbEx => ws.pc \in Pc
    BY DEF WbEx, TypeOK
  <2> QED
    BY <2>1, Addresses DEF Cycle, Stages, Epc, Exl, TypeOK, StageT
<1>9. lat' \in Address
  BY NextPcTyped DEF Cycle, Ports, Address
<1>10. dport' \in [v : BOOLEAN, own : BOOLEAN]
  BY DEF Cycle, Ports, When, NoAccess, Mem, TypeOK
<1>11. next' \in [pc : Pc, after : Pc, slot : BOOLEAN, epc : Pc, exl : BOOLEAN]
  <2>1. CASE ~ ws.v
    BY <2>1 DEF Cycle, Retire, TypeOK
  <2>2. CASE ws.v /\ Raises(ws)
    <3>1. ws.kind # "eret"
      BY <2>2 DEF Raises, ExeEx, IdEx
    <3> QED
      BY <2>2, <3>1, Addresses DEF Cycle, Retire, TypeOK
  <2>3. CASE ws.v /\ ws.kind = "eret"
    <3>1. ~ Raises(ws)
      BY <2>3 DEF Raises, ExeEx, IdEx
    <3> QED
      BY <2>3, <3>1, Addresses DEF Cycle, Retire, TypeOK
  <2>4. CASE ws.v /\ ~ Raises(ws) /\ ws.kind # "eret"
    <3>1. ws.to # None => ws.to \in Pc
      BY DEF TypeOK, StageT, Address
    <3> QED
      BY <2>4, <3>1, Addresses DEF Cycle, Retire, TypeOK
  <2> QED
    BY <2>1, <2>2, <2>3, <2>4
<1> QED
  BY <1>1, <1>2, <1>3, <1>4, <1>5, <1>6, <1>7, <1>8, <1>9, <1>10, <1>11 DEF TypeOK

----------------------------------------------------------------------------
(* Where an exception restarts                                             *)

LEMMA RestartsKept ==
  ASSUME Kept, PInv, NEW p \in Answers, Cycle(p)
  PROVE  Restarts'
<1> USE DEF PInv
<1>1. ws.v => Matches(ws, ToWs)
  BY DEF Ordered
<1>2. cp0'.epc = Epc /\ cp0'.exl = Exl /\ cp0' = [epc |-> cp0'.epc, exl |-> cp0'.exl]
  BY DEF Cycle, Stages
<1>3. cp0.epc = next.epc /\ cp0.exl = next.exl
  BY DEF Restarts
<1>4. cp0' = [epc |-> next'.epc, exl |-> next'.exl]
  <2>1. CASE ws.v /\ Raises(ws)
    <3>1. ws.kind # "eret" /\ WbEx
      BY <2>1 DEF Raises, ExeEx, IdEx, WbEx
    <3>2. ws.pc = next.pc /\ ws.bd = next.slot
      BY <1>1, <2>1 DEF Matches, ToWs
    <3>3. /\ next'.exl = TRUE
          /\ next'.epc = IF next.exl THEN next.epc ELSE IF next.slot THEN Before(next.pc) ELSE next.pc
      BY <2>1, <3>1 DEF Cycle, Retire
    <3>4. Exl = TRUE /\ Epc = IF ~ cp0.exl THEN IF ws.bd THEN Before(ws.pc) ELSE ws.pc ELSE cp0.epc
      BY <3>1 DEF Exl, Epc
    <3> QED
      BY <1>2, <1>3, <3>2, <3>3, <3>4
  <2>2. CASE ws.v /\ ws.kind = "eret"
    <3>1. ~ Raises(ws) /\ ~ WbEx
      BY <2>2 DEF Raises, ExeEx, IdEx, WbEx
    <3>2. next'.exl = FALSE /\ next'.epc = next.epc
      BY <2>2, <3>1 DEF Cycle, Retire
    <3> QED
      BY <1>2, <1>3, <2>2, <3>1, <3>2 DEF Exl, Epc
  <2>3. CASE ws.v /\ ~ Raises(ws) /\ ws.kind # "eret"
    <3>1. next'.exl = next.exl /\ next'.epc = next.epc
      BY <2>3 DEF Cycle, Retire, TypeOK
    <3> QED
      BY <1>2, <1>3, <2>3, <3>1 DEF Exl, Epc, WbEx, TypeOK
  <2>4. CASE ~ ws.v
    <3>1. next' = next
      BY <2>4 DEF Cycle, Retire
    <3> QED
      BY <1>2, <1>3, <2>4, <3>1 DEF Exl, Epc, WbEx, Restarts, TypeOK
  <2> QED
    BY <2>1, <2>2, <2>3, <2>4
<1>5. ~ ws'.v /\ ws'.kind = "eret" => ~ cp0'.exl
  <2> SUFFICES ASSUME ~ ws'.v, ws'.kind = "eret" PROVE ~ cp0'.exl
    OBVIOUS
  <2>1. IF MsGo(p) THEN ms.kind = "eret" ELSE ws.kind = "eret"
    BY LeftFacts DEF Cycle, Stages, When, MsGo
  <2>2. CASE ws.kind = "eret"
    <3>1. ~ WbEx
      BY <2>2 DEF WbEx, Raises, ExeEx, IdEx
    <3> QED
      BY <1>2, <2>2, <3>1 DEF Exl
  <2>3. CASE ws.kind # "eret"
    <3>1. MsGo(p) /\ ms.v /\ ms.kind = "eret"
      BY <2>1, <2>3 DEF MsGo
    <3>2. ~ Flush
      <4>1. ~ Raising(ws)
        BY <3>1 DEF Apart, Sensitive
      <4>2. ws.v => ~ ToRefetch
        BY <3>1 DEF ToRefetch, Alone, TlbWrite
      <4> QED
        BY <4>1, <4>2 DEF Flush, WsReflush, WbEx, Eret, Refetch, Raising
    <3>3. ws' = ms
      BY <3>1, <3>2, Moves DEF Cycle
    <3> QED
      BY <3>1, <3>3
  <2> QED
    BY <2>2, <2>3
<1> QED
  BY <1>4, <1>5 DEF Restarts

LEMMA FlushKeeps ==
  ASSUME Kept, PInv, NEW p \in Answers, Flush, Cycle(p)
  PROVE  PInv'
<1>1. Back' /\ Empty'
  BY FlushTurnsBack DEF Back
<1>2. TypeOK' /\ Restarts'
  BY TypesKept, RestartsKept
<1>3. ~ next'.slot /\ next'.after = Plus(next'.pc, 1)
  BY GoesOn
<1>4. again'.v /\ ~ hold'.v
  BY <1>1 DEF Back
<1>5. Ordered'
  BY <1>1, <1>3, <1>4 DEF Ordered, Empty
<1>6. Apart' /\ Alone' /\ Timely'
  BY <1>1, <1>4 DEF Empty, Apart, Alone, Timely, ToRefetch, TlbWrite, Raising
<1>7. Accesses'
  <2>1. ws.v
    BY DEF Flush, WsReflush, WbEx, Eret, Refetch
  <2>2. Raising(ws) \/ TlbWrite(ws)
    BY <2>1 DEF Flush, WsReflush, WbEx, Eret, Refetch, Raising, PInv, Alone, ToRefetch, TlbWrite
  <2>3. ~ (dport.v /\ dport.own)
    BY <2>2 DEF PInv, Alone, TlbWrite, Accesses
  <2>4. ~ DataReq
    BY <2>2 DEF DataReq, ExWen, Flush, Refetch, Raising, ToRefetch, TlbWrite, WsReflush, WbEx, Eret
  <2>5. ~ (dport'.v /\ dport'.own)
    BY <2>3, <2>4 DEF Cycle, Ports, When, NoAccess
  <2> QED
    BY <1>1, <2>5 DEF Accesses, Empty, Raising
<1> QED
  BY <1>1, <1>2, <1>5, <1>6, <1>7 DEF PInv, Fetching

----------------------------------------------------------------------------
(* The fetch stage in a cycle that does not flush                          *)

Leaves(p)  == DsAllow(p) /\ FsReady(p)
LeavesId(p) == IsBranch /\ DsReady(p) /\ EsAllow(p)

LEMMA FetchMoves ==
  ASSUME Kept, PInv, NEW p \in Answers, ~ Flush, Cycle(p), Onwards
  PROVE  /\ ~ again'.v /\ ~ cancel'.one /\ ~ cancel'.two
         /\ FsReady(p) = IF BranchHeld(p).is THEN PreGo(p) ELSE p.idata \/ hold.v
         /\ fs'.v = IF FsAllow(p) THEN PreGo(p) ELSE fs.v
         /\ fs'.pc = IF PreGo(p) /\ FsAllow(p) THEN Onward(p) ELSE fs.pc
         /\ fs'.req = (~ PreGo(p) /\ (fs.req \/ (DsAllow(p) /\ (p.idata \/ hold.v))))
         /\ hold'.v = ((p.idata \/ hold.v) /\ ~ Leaves(p))
         /\ hold'.v => hold'.inst = Comes(p)
         /\ lat' = IF fs.req /\ ~ PreGo(p) THEN Onward(p) ELSE None
         /\ iport' = (IF p.idata THEN Tail(iport) ELSE iport) \o (IF PreGo(p) THEN <<lat>> ELSE <<>>)
<1> USE DEF PInv
<1>1. NextPc(p) = Onward(p) /\ Live /\ ~ again.v
  BY DEF NextPc, Flush, WsReflush, Onwards, Live
<1>2. ~ CancelOne(p) /\ ~ CancelTwo(p)
  BY DEF CancelOne, CancelTwo, Onwards
<1>3. ~ (p.idata /\ hold.v)
  BY Fetched, One DEF Onwards, Asking, Waiting, Holding, Turning
<1>4. hold'.v = ((p.idata \/ hold.v) /\ ~ Leaves(p)) /\ (hold'.v => hold'.inst = Comes(p))
  <2>1. p.idata \in BOOLEAN
    BY AnswerFacts
  <2>2. hold' = IF (p.idata \/ hold.v) /\ ~ Leaves(p)
                  THEN [v |-> TRUE, inst |-> IF p.idata THEN p.inst ELSE hold.inst] ELSE NoHold
    BY <1>1, <1>3, <2>1 DEF Cycle, FetchStage, When, Leaves, TypeOK
  <2> QED
    BY <1>3, <2>2 DEF NoHold, Comes
<1>5. ~ again'.v /\ ~ cancel'.one /\ ~ cancel'.two
  BY <1>1, <1>2 DEF Cycle, FetchStage, When, NoAgain
<1>6. FsReady(p) = IF BranchHeld(p).is THEN PreGo(p) ELSE p.idata \/ hold.v
  BY <1>1, AnswerFacts DEF FsReady, TypeOK
<1>7. PreGo(p) \in BOOLEAN
  BY AnswerFacts DEF PreGo, TypeOK
<1>8. fs'.v = IF FsAllow(p) THEN PreGo(p) ELSE fs.v
  BY <1>1, <1>7 DEF Cycle, FetchStage, TypeOK
<1> QED
  BY <1>1, <1>4, <1>5, <1>6, <1>8 DEF Cycle, FetchStage, Ports

LEMMA BranchMoves ==
  ASSUME Kept, PInv, NEW p \in Answers, ~ Flush, Cycle(p), Onwards
  PROVE  /\ BranchHeld(p).is <=> br.v \/ IsBranch
         /\ LeavesId(p) <=> DsGo(p) /\ ds.kind = "branch"
         /\ br'.v <=> /\ LeavesId(p) \/ br.v
                      /\ ~ (BranchHeld(p).is /\ fs.v /\ FsAllow(p) /\ PreGo(p))
         /\ br.v /\ br'.v => br' = br
         /\ br.v => ~ LeavesId(p)
         /\ LeavesId(p) /\ br'.v => br'.is /\ br'.taken = (ds.to # None) /\ br'.to = ds.to
<1> USE DEF PInv
<1>1. BranchHeld(p).is <=> br.v \/ IsBranch
  BY DEF BranchHeld, Branch, Onwards, TypeOK
<1>2. LeavesId(p) <=> DsGo(p) /\ ds.kind = "branch"
  BY DEF LeavesId, DsGo, IsBranch
<1>3. br.v => ~ LeavesId(p)
  BY DEF Onwards, LeavesId, IsBranch
<1>4. br'.v <=> /\ LeavesId(p) \/ br.v
                /\ ~ (BranchHeld(p).is /\ fs.v /\ FsAllow(p) /\ PreGo(p))
  BY DEF Cycle, FetchStage, When, NoBranch, LeavesId
<1>5. ASSUME br.v, br'.v PROVE br' = br
  <2>1. br' = [v |-> TRUE, is |-> BranchHeld(p).is, taken |-> BranchHeld(p).taken, to |-> BranchHeld(p).to]
    BY <1>3, <1>5 DEF Cycle, FetchStage, When, NoBranch, LeavesId
  <2>2. BranchHeld(p) = [is |-> br.is, taken |-> br.taken, to |-> br.to]
    BY <1>5 DEF BranchHeld
  <2> QED
    BY <1>5, <2>1, <2>2 DEF TypeOK
<1>6. ASSUME LeavesId(p), br'.v PROVE br'.is /\ br'.taken = (ds.to # None) /\ br'.to = ds.to
  <2>1. br' = [v |-> TRUE, is |-> Branch(p).is, taken |-> Branch(p).taken, to |-> Branch(p).to]
    BY <1>6 DEF Cycle, FetchStage, When, NoBranch, LeavesId
  <2>2. IsBranch /\ ~ p.stall
    BY <1>6 DEF LeavesId, DsReady
  <2> QED
    BY <2>1, <2>2 DEF Branch
<1> QED
  BY <1>1, <1>2, <1>3, <1>4, <1>5, <1>6

\* What the order of instructions needs of the fetch stage.
Turned(p) ==
  /\ Onwards'
  /\ In(p) => fs.v /\ ~ br'.v /\ Came(p).at = fs.pc
  /\ In(p) /\ ~ BranchHeld(p).is => ~ fs'.v /\ fs'.pc = fs.pc
  /\ In(p) /\ BranchHeld(p).is => br.v /\ fs'.v /\ fs'.pc = IF br.taken THEN br.to ELSE Plus(fs.pc, 1)
  /\ ~ In(p) => (IF fs'.v THEN fs'.pc ELSE Plus(fs'.pc, 1)) = (IF fs.v THEN fs.pc ELSE Plus(fs.pc, 1))
  /\ ~ In(p) => (br'.v <=> br.v \/ LeavesId(p))

\* What the branch that has left ID says stays true when nothing enters ID.
LEMMA SlotEmpty ==
  ASSUME Kept, PInv, NEW p \in Answers, ~ Flush, Cycle(p), Onwards, ~ In(p)
  PROVE  br'.v => br'.is /\ ~ ds'.v /\ (es'.v => es'.kind = "branch")
<1>1. ASSUME br.v, br'.v PROVE br'.is /\ ~ ds'.v /\ (es'.v => es'.kind = "branch")
  BY <1>1, BranchMoves, Moves, NoOneFacts DEF Onwards, DsGo, Cycle, PInv
<1>2. ASSUME ~ br.v, br'.v PROVE br'.is /\ ~ ds'.v /\ (es'.v => es'.kind = "branch")
  BY <1>2, BranchMoves, Moves, NoOneFacts DEF Cycle, PInv
<1> QED
  BY <1>1, <1>2

LEMMA AskingTurns ==
  ASSUME Kept, PInv, NEW p \in Answers, ~ Flush, Cycle(p), Onwards, Asking
  PROVE  Turned(p)
<1> USE DEF PInv
<1>1. ~ fs.v /\ fs.req /\ ~ hold.v /\ iport = <<>> /\ lat \in {None, Plus(fs.pc, 1)} /\ ~ p.idata /\ ~ In(p) /\ FsAllow(p)
  BY Fetched DEF Asking, In, FsAllow
<1>2. Onward(p) = Plus(fs.pc, 1)
  BY <1>1 DEF Onward
<1>3. ~ hold'.v /\ (br'.v <=> br.v \/ LeavesId(p))
  BY <1>1, FetchMoves, BranchMoves
<1>4. CASE PreGo(p)
  <2>1. lat = Plus(fs.pc, 1)
    BY <1>1, <1>4, AnswerFacts DEF PreGo
  <2>2. Waiting' /\ fs'.v /\ fs'.pc = Plus(fs.pc, 1)
    BY <1>1, <1>2, <1>3, <1>4, <2>1, FetchMoves, One DEF Waiting
  <2> QED
    BY <1>1, <1>3, <2>2, FetchMoves, SlotEmpty DEF Turned, Onwards
<1>5. CASE ~ PreGo(p)
  <2>1. Asking' /\ ~ fs'.v /\ fs'.pc = fs.pc
    BY <1>1, <1>2, <1>3, <1>5, FetchMoves, Nothing DEF Asking
  <2> QED
    BY <1>1, <1>3, <2>1, FetchMoves, SlotEmpty DEF Turned, Onwards
<1> QED
  BY <1>4, <1>5

\* With a delay slot in IF, the branch is in ID or has left it for ever; it leaves ID when ID
\* has room.
LEMMA BranchOut ==
  ASSUME Kept, PInv, NEW p \in Answers, ~ Flush, Cycle(p), Onwards, BranchHeld(p).is, DsAllow(p)
  PROVE  br.v \/ LeavesId(p)
BY BranchMoves DEF DsAllow, LeavesId, IsBranch

LEMMA WaitingTurns ==
  ASSUME Kept, PInv, NEW p \in Answers, ~ Flush, Cycle(p), Onwards, Waiting
  PROVE  Turned(p)
<1> USE DEF PInv
<1>1. fs.v /\ ~ fs.req /\ ~ hold.v /\ iport = <<fs.pc>> /\ lat = None /\ ~ PreGo(p)
  BY DEF Waiting, PreGo
<1>2. p.idata => Comes(p).at = fs.pc
  BY <1>1, Fetched, One DEF Comes
<1>3. lat' = None /\ (br'.v <=> br.v \/ LeavesId(p)) /\ fs'.pc = fs.pc
  BY <1>1, FetchMoves, BranchMoves
<1>4. iport' = IF p.idata THEN <<>> ELSE <<fs.pc>>
  BY <1>1, FetchMoves, One, Nothing
<1>5. CASE In(p)
  <2>1. ~ BranchHeld(p).is /\ p.idata /\ DsAllow(p) /\ FsReady(p) /\ FsAllow(p)
    BY <1>1, <1>5, FetchMoves DEF In, FsAllow
  <2>2. ~ br'.v
    BY <1>3, <2>1, BranchMoves DEF LeavesId
  <2>3. Asking' /\ ~ hold'.v
    BY <1>1, <1>3, <1>4, <2>1, FetchMoves DEF Asking, Leaves
  <2> QED
    BY <1>1, <1>2, <1>3, <1>5, <2>1, <2>2, <2>3, FetchMoves, CameTyped DEF Turned, Onwards, Asking
<1>6. CASE ~ In(p)
  <2>1. ~ FsAllow(p) /\ ~ Leaves(p) /\ fs'.v
    BY <1>1, <1>6, FetchMoves DEF In, FsAllow, Leaves
  <2>2. hold'.v <=> p.idata
    BY <1>1, <2>1, FetchMoves, AnswerFacts
  <2>3. fs'.req <=> DsAllow(p) /\ p.idata
    BY <1>1, FetchMoves
  <2>4. Waiting' \/ Holding' \/ Turning'
    <3>1. CASE ~ p.idata
      BY <1>1, <1>3, <1>4, <2>1, <2>2, <2>3, <3>1 DEF Waiting
    <3>2. CASE p.idata /\ ~ DsAllow(p)
      BY <1>1, <1>3, <1>4, <2>1, <2>2, <2>3, <3>2 DEF Holding
    <3>3. CASE p.idata /\ DsAllow(p)
      <4>1. BranchHeld(p).is
        BY <1>1, <2>1, <3>3, FetchMoves DEF Leaves
      <4>2. br'.v
        BY <1>3, <3>3, <4>1, BranchOut
      <4> QED
        BY <1>1, <1>3, <1>4, <2>1, <2>2, <2>3, <3>3, <4>2 DEF Turning
    <3> QED
      BY <3>1, <3>2, <3>3
  <2> QED
    BY <1>1, <1>2, <1>3, <1>6, <2>1, <2>2, <2>4, FetchMoves, SlotEmpty DEF Turned, Onwards
<1> QED
  BY <1>5, <1>6

LEMMA HoldingTurns ==
  ASSUME Kept, PInv, NEW p \in Answers, ~ Flush, Cycle(p), Onwards, Holding
  PROVE  Turned(p)
<1> USE DEF PInv
<1>1. fs.v /\ ~ fs.req /\ hold.v /\ iport = <<>> /\ lat = None /\ ~ PreGo(p) /\ ~ p.idata
  BY Fetched, One DEF Holding, PreGo
<1>2. Comes(p).at = fs.pc
  BY <1>1 DEF Comes, Onwards
<1>3. lat' = None /\ (br'.v <=> br.v \/ LeavesId(p)) /\ fs'.pc = fs.pc /\ iport' = <<>>
  BY <1>1, FetchMoves, BranchMoves, Nothing
<1>4. CASE In(p)
  <2>1. ~ BranchHeld(p).is /\ DsAllow(p) /\ FsReady(p) /\ FsAllow(p)
    BY <1>1, <1>4, FetchMoves DEF In, FsAllow
  <2>2. ~ br'.v
    BY <1>3, <2>1, BranchMoves DEF LeavesId
  <2>3. Asking' /\ ~ hold'.v
    BY <1>1, <1>3, <2>1, FetchMoves DEF Asking, Leaves
  <2> QED
    BY <1>1, <1>2, <1>3, <1>4, <2>1, <2>2, <2>3, FetchMoves, CameTyped DEF Turned, Onwards, Asking
<1>5. CASE ~ In(p)
  <2>1. ~ FsAllow(p) /\ ~ Leaves(p) /\ fs'.v /\ hold'.v
    BY <1>1, <1>5, FetchMoves DEF In, FsAllow, Leaves
  <2>2. fs'.req <=> DsAllow(p)
    BY <1>1, FetchMoves
  <2>3. Holding' \/ Turning'
    <3>1. CASE ~ DsAllow(p)
      BY <1>1, <1>3, <2>1, <2>2, <3>1 DEF Holding
    <3>2. CASE DsAllow(p)
      <4>1. BranchHeld(p).is
        BY <1>1, <2>1, <3>2, FetchMoves DEF Leaves
      <4>2. br'.v
        BY <1>3, <3>2, <4>1, BranchOut
      <4> QED
        BY <1>1, <1>3, <2>1, <2>2, <3>2, <4>2 DEF Turning
    <3> QED
      BY <3>1, <3>2
  <2> QED
    BY <1>1, <1>2, <1>3, <1>5, <2>1, <2>3, FetchMoves, SlotEmpty DEF Turned, Onwards
<1> QED
  BY <1>4, <1>5

LEMMA TurningTurns ==
  ASSUME Kept, PInv, NEW p \in Answers, ~ Flush, Cycle(p), Onwards, Turning
  PROVE  Turned(p)
<1> USE DEF PInv
<1>1. fs.v /\ fs.req /\ hold.v /\ iport = <<>> /\ br.v /\ br.is /\ ~ ds.v /\ ~ p.idata
  BY Fetched DEF Turning, Onwards
<1>2. BranchHeld(p).is /\ DsAllow(p) /\ ~ LeavesId(p)
  BY <1>1, BranchMoves DEF DsAllow
<1>3. Onward(p) = (IF br.taken THEN br.to ELSE Plus(fs.pc, 1)) /\ lat \in {None, Onward(p)}
  BY <1>1 DEF Onward, BranchHeld, Turning
<1>4. Comes(p).at = fs.pc
  BY <1>1 DEF Comes, Onwards
<1>5. CASE PreGo(p)
  <2>1. In(p) /\ FsReady(p) /\ FsAllow(p) /\ Leaves(p)
    BY <1>1, <1>2, <1>5, FetchMoves DEF In, FsAllow, Leaves
  <2>2. lat = Onward(p)
    BY <1>3, <1>5, AnswerFacts DEF PreGo
  <2>3. ~ br'.v
    BY <1>1, <1>2, <1>5, <2>1, BranchMoves
  <2>4. Waiting' /\ ~ hold'.v /\ fs'.pc = Onward(p) /\ fs'.v
    BY <1>1, <1>5, <2>1, <2>2, FetchMoves, One DEF Waiting
  <2> QED
    BY <1>1, <1>2, <1>3, <1>4, <2>1, <2>3, <2>4, FetchMoves, CameTyped DEF Turned, Onwards
<1>6. CASE ~ PreGo(p)
  <2>1. ~ In(p) /\ ~ FsReady(p) /\ ~ FsAllow(p) /\ ~ Leaves(p)
    BY <1>1, <1>2, <1>6, FetchMoves DEF In, FsAllow, Leaves
  <2>2. br'.v /\ br' = br
    BY <1>1, <1>2, <1>6, BranchMoves
  <2>3. Turning' /\ fs'.pc = fs.pc /\ fs'.v /\ hold'.v
    BY <1>1, <1>3, <1>6, <2>1, <2>2, FetchMoves, Nothing DEF Turning
  <2> QED
    BY <1>1, <1>2, <1>4, <2>1, <2>2, <2>3, FetchMoves, SlotEmpty DEF Turned, Onwards
<1> QED
  BY <1>5, <1>6

LEMMA FetchTurns ==
  ASSUME Kept, PInv, NEW p \in Answers, ~ Flush, Cycle(p), Onwards
  PROVE  Turned(p)
BY AskingTurns, WaitingTurns, HoldingTurns, TurningTurns DEF Onwards

\* After a flush: the fetch begins again, and then goes on where it has to.
LEMMA BackTurns ==
  ASSUME Kept, PInv, NEW p \in Answers, ~ Flush, Cycle(p), Back
  PROVE  /\ ~ In(p) /\ Empty' /\ next' = next /\ ~ hold'.v /\ ~ br'.v
         /\ Back' \/ (Onwards' /\ fs'.v /\ fs'.pc = again.pc)
<1> USE DEF PInv
<1>1. again.v /\ ~ hold.v /\ ~ br.v /\ Empty /\ ~ BranchHeld(p).is /\ ~ IsBranch
  BY DEF Back, Empty, BranchHeld, Branch, IsBranch
<1>2. NextPc(p) = again.pc /\ ~ CancelTwo(p) /\ (CancelOne(p) <=> cancel.one /\ ~ p.idata)
  BY <1>1, AnswerFacts DEF NextPc, Flush, WsReflush, CancelOne, CancelTwo, TypeOK
<1>3. FsReady(p) <=> p.idata /\ Live
  BY <1>1 DEF FsReady
<1>4. DsAllow(p) /\ ~ In(p) /\ (FsAllow(p) <=> ~ fs.v)
  BY <1>1, <1>3 DEF DsAllow, In, FsAllow, Empty, Back
<1>5. Empty' /\ next' = next
  <2>1. ~ DsGo(p) /\ ~ EsGo(p) /\ ~ MsGo(p)
    BY <1>1 DEF Empty, DsGo, EsGo, MsGo
  <2>2. ~ ds'.v /\ ~ es'.v /\ ~ ms'.v /\ ~ ws'.v
    BY <1>1, <1>4, <2>1, Moves, NoOneFacts, LeftFacts DEF Cycle, TypeOK, Empty
  <2> QED
    BY <1>1, <2>2 DEF Empty, Cycle, Retire
<1>6. ~ hold'.v /\ ~ br'.v
  BY <1>1, <1>3, <1>4, AnswerFacts DEF Cycle, FetchStage, When, NoHold, NoBranch
<1>7. /\ fs'.v = (Live /\ PreGo(p))
      /\ fs'.pc = IF PreGo(p) /\ ~ fs.v THEN again.pc ELSE fs.pc
      /\ fs'.req = (~ PreGo(p) /\ (fs.req \/ p.idata))
      /\ cancel'.one = (cancel.one /\ ~ p.idata) /\ ~ cancel'.two
      /\ again' = IF ~ (PreGo(p) /\ Live) THEN [v |-> TRUE, pc |-> again.pc] ELSE NoAgain
      /\ lat' = IF fs.req /\ ~ PreGo(p) THEN again.pc ELSE None
      /\ iport' = (IF p.idata THEN Tail(iport) ELSE iport) \o (IF PreGo(p) THEN <<lat>> ELSE <<>>)
  <2>1. PreGo(p) \in BOOLEAN /\ Live \in BOOLEAN
    BY AnswerFacts DEF PreGo, Live, TypeOK
  <2>2. fs'.v = (Live /\ PreGo(p))
    BY <1>4, <2>1 DEF Cycle, FetchStage, Back, TypeOK
  <2>3. cancel'.one = (cancel.one /\ ~ p.idata) /\ ~ cancel'.two
    BY <1>2, AnswerFacts DEF Cycle, FetchStage, CancelOne, TypeOK
  <2>4. again' = IF ~ (PreGo(p) /\ Live) THEN [v |-> TRUE, pc |-> again.pc] ELSE NoAgain
    BY <1>1 DEF Cycle, FetchStage, When
  <2> QED
    BY <1>1, <1>2, <1>4, <2>2, <2>3, <2>4 DEF Cycle, FetchStage, Ports
<1>8. CASE PreGo(p) /\ Live
  <2>1. fs.req /\ lat = again.pc /\ iport = <<>> /\ ~ p.idata /\ ~ fs.v
    BY <1>8, AnswerFacts, Fetched DEF PreGo, Back
  <2>2. Waiting' /\ fs'.v /\ fs'.pc = again.pc
    BY <1>6, <1>7, <1>8, <2>1, One DEF Waiting
  <2>3. ~ again'.v /\ ~ cancel'.one /\ ~ cancel'.two
    BY <1>7, <1>8 DEF NoAgain, Live
  <2> QED
    BY <1>4, <1>5, <1>6, <2>2, <2>3 DEF Onwards
<1>9. CASE ~ (PreGo(p) /\ Live)
  <2>1. again'.v /\ again'.pc = again.pc /\ ~ fs'.v
    BY <1>7, <1>9
  <2>2. (fs'.req /\ iport' = <<>>) \/ (~ fs'.req /\ \E pc \in Pc : iport' = <<pc>>)
    <3>1. CASE PreGo(p)
      <4>1. fs.req /\ lat = again.pc /\ iport = <<>> /\ ~ p.idata /\ again.pc \in Pc
        BY <3>1, AnswerFacts, Fetched DEF PreGo, Back, TypeOK
      <4> QED
        BY <1>7, <3>1, <4>1, One
    <3>2. CASE ~ PreGo(p) /\ fs.req
      BY <1>7, <3>2, Fetched, Nothing DEF Back
    <3>3. CASE ~ fs.req
      <4>1. PICK pc \in Pc : iport = <<pc>>
        BY <3>3 DEF Back
      <4>2. ~ PreGo(p)
        BY <3>3 DEF PreGo
      <4> QED
        BY <1>7, <3>3, <4>1, <4>2, One, Nothing, AnswerFacts
    <3> QED
      BY <3>1, <3>2, <3>3
  <2>3. lat' \in {None, again.pc}
    BY <1>7
  <2> QED
    BY <1>4, <1>5, <1>6, <2>1, <2>2, <2>3 DEF Back
<1> QED
  BY <1>8, <1>9

----------------------------------------------------------------------------
(* The order of instructions in a cycle that does not flush                *)

LEMMA AdvanceFacts ==
  ASSUME NEW n, NEW s, Straight(s), ~ n.slot => n.after = Plus(n.pc, 1)
  PROVE  LET a == Advance(n, s) IN ~ a.slot => a.after = Plus(a.pc, 1)
BY DEF Advance, Straight

LEMMA AfterFacts ==
  ASSUME PInv
  PROVE  \A n \in {ToWs, ToMs, ToEs, ToDs, ToFs} : ~ n.slot => n.after = Plus(n.pc, 1)
<1> DEFINE Fine(n) == ~ n.slot => n.after = Plus(n.pc, 1)
<1>1. Fine(ToWs)
  BY DEF ToWs, PInv, Ordered
<1>2. Straight(ws) /\ Straight(ms) /\ Straight(es) /\ Straight(ds)
  BY DEF PInv, TypeOK
<1>3. Fine(ToMs)
  BY <1>1, <1>2, AdvanceFacts DEF ToMs
<1>4. Fine(ToEs)
  BY <1>2, <1>3, AdvanceFacts DEF ToEs
<1>5. Fine(ToDs)
  BY <1>2, <1>4, AdvanceFacts DEF ToDs
<1>6. Fine(ToFs)
  BY <1>2, <1>5, AdvanceFacts DEF ToFs
<1> QED
  BY <1>1, <1>3, <1>4, <1>5, <1>6

\* Without a flush, what is written back flushes nothing behind it.
LEMMA NoneFlushes ==
  ASSUME PInv, ~ Flush
  PROVE  ~ Flushing(ws) /\ ~ Raising(ws)
BY DEF Flush, WsReflush, WbEx, Eret, Refetch, ToRefetch, Flushing, Raising

LEMMA StagesOrdered ==
  ASSUME Kept, PInv, NEW p \in Answers, ~ Flush, Cycle(p), Onwards
  PROVE  /\ \A s \in {ds', es', ms', ws'} : s.v => s.at = s.pc
         /\ ~ next'.slot => next'.after = Plus(next'.pc, 1)
         /\ ws'.v => Matches(ws', ToWs')
         /\ ms'.v /\ ~ Flushing(ws') => Matches(ms', ToMs')
         /\ es'.v /\ ~ Flushing(ws') /\ ~ Flushing(ms') => Matches(es', ToEs')
         /\ ds'.v /\ ~ Flushing(ws') /\ ~ Flushing(ms') /\ ~ Flushing(es') => Matches(ds', ToDs')
<1> USE DEF PInv
<1>1. Stages(p) /\ Retire /\ ~ Flushing(ws) /\ ~ Raising(ws)
  BY NoneFlushes DEF Cycle
<1>2. Turned(p)
  BY FetchTurns
<1>3. \A s \in {NoOne, Left(ws)} : ~ s.v /\ ~ Flushing(s)
  BY NoOneFacts, LeftFacts DEF Flushing, TypeOK
<1>4. ASSUME In(p), ~ Flushing(ms), ~ Flushing(es), ~ Flushing(ds)
      PROVE  Matches(Came(p), ToFs)
  <2>1. fs.v /\ ~ again.v /\ (BranchHeld(p).is <=> br.v \/ IsBranch)
    BY <1>4, BranchMoves DEF In, Onwards
  <2>2. ToFs.pc = fs.pc /\ (ToFs.slot <=> br.v \/ IsBranch)
    BY <1>1, <1>4, <2>1 DEF Ordered
  <2>3. ToFs.slot \in BOOLEAN /\ BranchHeld(p).is \in BOOLEAN
    BY BranchTyped DEF ToFs, ToDs, ToEs, ToMs, ToWs, Advance, TypeOK
  <2> QED
    BY <2>1, <2>2, <2>3, CameTyped DEF Matches
<1>5. \A s \in {ds', es', ms', ws'} : s.v => s.at = s.pc
  <2>1. In(p) => Came(p).at = Came(p).pc
    BY <1>2, CameTyped DEF Turned
  <2> QED
    BY <1>1, <1>3, <2>1, Moves, Room DEF Ordered
<1>6. ~ next'.slot => next'.after = Plus(next'.pc, 1)
  <2>1. ToWs' = ToMs
    BY <1>1, Shift
  <2>2. ToWs'.slot = next'.slot /\ ToWs'.after = next'.after /\ ToWs'.pc = next'.pc
    BY DEF ToWs
  <2> QED
    BY <2>1, <2>2, AfterFacts
<1>7. ws'.v => Matches(ws', ToWs')
  BY <1>1, <1>3, Shift, Moves, Room DEF Ordered
<1>e. /\ ~ ms.v => ToEs = ToMs /\ ~ Flushing(ms)
      /\ ~ es.v => ToDs = ToEs /\ ~ Flushing(es)
      /\ ~ ds.v => ToFs = ToDs /\ ~ Flushing(ds)
  BY DEF ToEs, ToDs, ToFs, Advance, Flushing
<1>8. ms'.v /\ ~ Flushing(ws') => Matches(ms', ToMs')
  BY <1>e, <1>1, <1>3, Shift, Moves, Room DEF Ordered
<1>9. es'.v /\ ~ Flushing(ws') /\ ~ Flushing(ms') => Matches(es', ToEs')
  BY <1>e, <1>1, <1>3, Shift, Moves, Room DEF Ordered
<1>10. ds'.v /\ ~ Flushing(ws') /\ ~ Flushing(ms') /\ ~ Flushing(es') => Matches(ds', ToDs')
  BY <1>e, <1>1, <1>3, <1>4, Shift, Moves, Room DEF Ordered
<1> QED
  BY <1>5, <1>6, <1>7, <1>8, <1>9, <1>10

LEMMA FetchOrdered ==
  ASSUME Kept, PInv, NEW p \in Answers, ~ Flush, Cycle(p), Onwards,
         ~ Flushing(ws'), ~ Flushing(ms'), ~ Flushing(es'), ~ Flushing(ds')
  PROVE  /\ ToFs'.slot <=> br'.v \/ IsBranch'
         /\ ToFs'.pc = IF fs'.v THEN fs'.pc ELSE Plus(fs'.pc, 1)
         /\ br'.v => ToFs'.after = IF br'.taken THEN br'.to ELSE Plus(ToFs'.pc, 1)
<1> USE DEF PInv
<1>1. Stages(p) /\ Retire /\ ~ Flushing(ws) /\ ~ Raising(ws) /\ ~ again.v
  BY NoneFlushes DEF Cycle, Onwards
<1>2. Turned(p)
  BY FetchTurns
<1>3. ~ Flushing(ms) /\ ~ Flushing(es) /\ ~ Flushing(ds)
  <2>1. \A s : Flushing(s) => s.v
    BY DEF Flushing
  <2> QED
    BY <1>1, <2>1, Moves, Room
<1>4. /\ ToFs.slot <=> br.v \/ IsBranch
      /\ ToFs.pc = IF fs.v THEN fs.pc ELSE Plus(fs.pc, 1)
      /\ br.v => ToFs.after = IF br.taken THEN br.to ELSE Plus(ToFs.pc, 1)
  BY <1>1, <1>3 DEF Ordered
<1>5. CASE In(p)
  <2>1. fs.v /\ ~ br'.v /\ ds' = Came(p)
    BY <1>1, <1>2, <1>5, Moves DEF Turned
  <2>2. Came(p).v /\ Straight(Came(p)) /\ ToFs' = Advance(ToFs, Came(p))
    BY <1>1, <1>5, Shift, CameTyped
  <2>3. ToFs'.pc = ToFs.after /\ (ToFs'.slot <=> Came(p).kind = "branch")
    BY <2>2 DEF Advance
  <2>4. IsBranch' <=> Came(p).kind = "branch"
    BY <2>1, <2>2 DEF IsBranch
  <2>5. ToFs.after = IF fs'.v THEN fs'.pc ELSE Plus(fs'.pc, 1)
    <3>1. CASE BranchHeld(p).is
      BY <1>2, <1>4, <1>5, <2>1, <3>1 DEF Turned
    <3>2. CASE ~ BranchHeld(p).is
      <4>1. ~ ToFs.slot
        BY <1>4, <3>2, BranchMoves
      <4>2. ToFs.after = Plus(ToFs.pc, 1)
        BY <4>1, AfterFacts
      <4> QED
        BY <1>2, <1>4, <1>5, <2>1, <3>2, <4>2 DEF Turned
    <3> QED
      BY <3>1, <3>2
  <2> QED
    BY <2>1, <2>3, <2>4, <2>5
<1>6. CASE ~ In(p)
  <2>1. ToFs' = ToFs
    BY <1>1, <1>6, Shift
  <2>2. br'.v <=> br.v \/ LeavesId(p)
    BY <1>2, <1>6 DEF Turned
  <2>3. IsBranch' <=> IsBranch /\ ~ LeavesId(p)
    <3>1. ds' = IF ds.v /\ ~ DsGo(p) THEN ds ELSE NoOne
      BY <1>1, <1>6, Moves
    <3> QED
      BY <3>1, NoOneFacts, BranchMoves DEF IsBranch, DsGo
  <2>4. ToFs'.slot <=> br'.v \/ IsBranch'
    BY <1>4, <2>1, <2>2, <2>3 DEF LeavesId
  <2>5. ToFs'.pc = IF fs'.v THEN fs'.pc ELSE Plus(fs'.pc, 1)
    BY <1>2, <1>4, <1>6, <2>1 DEF Turned
  <2>6. ASSUME br'.v PROVE ToFs'.after = IF br'.taken THEN br'.to ELSE Plus(ToFs'.pc, 1)
    <3>1. CASE br.v
      BY <1>4, <2>1, <2>6, <3>1, BranchMoves
    <3>2. CASE LeavesId(p)
      <4>1. ds.v /\ br'.taken = (ds.to # None) /\ br'.to = ds.to
        BY <2>6, <3>2, BranchMoves DEF LeavesId, IsBranch
      <4>2. ToFs.pc = ToDs.after /\ ToFs.after = IF ds.to # None THEN ds.to ELSE Plus(ToDs.after, 1)
        BY <4>1 DEF ToFs, Advance
      <4> QED
        BY <2>1, <4>1, <4>2
    <3> QED
      BY <2>2, <2>6, <3>1, <3>2
  <2> QED
    BY <2>4, <2>5, <2>6
<1> QED
  BY <1>5, <1>6

LEMMA BackOrdered ==
  ASSUME Kept, PInv, NEW p \in Answers, ~ Flush, Cycle(p), Back
  PROVE  Ordered'
<1> USE DEF PInv
<1>1. Empty' /\ next' = next /\ ~ br'.v /\ (Back' \/ (Onwards' /\ fs'.v /\ fs'.pc = again.pc))
  BY BackTurns
<1>2. ~ ds'.v /\ ~ es'.v /\ ~ ms'.v /\ ~ ws'.v
  BY <1>1 DEF Empty
<1>3. next'.pc = again.pc /\ ~ next'.slot /\ next'.after = Plus(next'.pc, 1)
  BY <1>1 DEF Back, Ordered
<1>4. ASSUME ~ again'.v
      PROVE  /\ ToFs'.slot <=> br'.v \/ IsBranch'
             /\ ToFs'.pc = IF fs'.v THEN fs'.pc ELSE Plus(fs'.pc, 1)
  <2>1. fs'.v /\ fs'.pc = again.pc
    BY <1>1, <1>4 DEF Back
  <2>2. ToFs' = ToWs' /\ ToWs'.pc = next'.pc /\ ToWs'.slot = next'.slot /\ ~ IsBranch'
    BY <1>2 DEF ToFs, ToDs, ToEs, ToMs, ToWs, Advance, IsBranch
  <2> QED
    BY <1>1, <1>3, <2>1, <2>2
<1> QED
  BY <1>1, <1>2, <1>3, <1>4 DEF Ordered

LEMMA OrderKept ==
  ASSUME Kept, PInv, NEW p \in Answers, ~ Flush, Cycle(p)
  PROVE  Ordered' /\ Fetching'
<1>1. CASE Onwards
  <2>1. Onwards'
    BY <1>1, FetchTurns DEF Turned
  <2>2. Ordered'
    BY <1>1, StagesOrdered, FetchOrdered DEF Ordered
  <2> QED
    BY <2>1, <2>2 DEF Fetching
<1>2. CASE Back
  BY <1>2, BackTurns, BackOrdered DEF Fetching
<1> QED
  BY <1>1, <1>2 DEF PInv, Fetching

----------------------------------------------------------------------------
(* What software sees to, in a cycle that does not flush                   *)

LEMMA ComesApart ==
  ASSUME Kept, PInv, NEW p \in Answers, Cycle(p), Sensitive(Comes(p))
  PROVE  ~ Raising(ds) /\ ~ Raising(es) /\ ~ Raising(ms) /\ ~ Raising(ws)
<1>1. CASE hold.v
  BY <1>1 DEF Comes, PInv, Apart
<1>2. CASE ~ hold.v
  <2>1. Comes(p) = p.inst /\ p.inst.kind = "eret"
    BY <1>2 DEF Comes, Sensitive
  <2> QED
    BY <2>1 DEF Cycle, Keeps, Raising, Kept, AllPromises
<1> QED
  BY <1>1, <1>2

\* Nothing comes to be held that ID has not left where it was.
LEMMA HeldComes ==
  ASSUME Kept, PInv, NEW p \in Answers, ~ Flush, Cycle(p), hold'.v
  PROVE  Onwards /\ hold'.inst = Comes(p) /\ ~ In(p) /\ (p.idata \/ hold.v) /\ ~ Leaves(p)
<1>1. Onwards
  BY BackTurns DEF PInv, Fetching
<1> QED
  BY <1>1, FetchMoves DEF In, Leaves

LEMMA ApartKept ==
  ASSUME Kept, PInv, NEW p \in Answers, ~ Flush, Cycle(p)
  PROVE  Apart'
<1> USE DEF PInv
<1>1. \A s \in {NoOne, Left(ws)} : ~ s.v /\ ~ Raising(s)
  BY NoOneFacts, LeftFacts DEF Raising, TypeOK
<1>2. Sensitive(Came(p)) <=> Sensitive(Comes(p))
  BY CameTyped DEF Sensitive, Mem
<1>3. Stages(p)
  BY DEF Cycle
<1>4. \A s : Raising(s) => s.v
  BY DEF Raising
<1>5. hold'.v /\ Sensitive(hold'.inst) => ~ Raising(ds') /\ ~ Raising(es') /\ ~ Raising(ms') /\ ~ Raising(ws')
  BY <1>1, <1>3, HeldComes, ComesApart, Moves
<1>6. ds'.v /\ Sensitive(ds') => ~ Raising(es') /\ ~ Raising(ms') /\ ~ Raising(ws')
  <2>1. CASE In(p)
    BY <1>1, <1>2, <1>3, <2>1, ComesApart, Moves
  <2>2. CASE ~ In(p)
    BY <1>1, <1>3, <1>4, <2>2, Moves DEF Apart
  <2> QED
    BY <2>1, <2>2
<1>7. es'.v /\ Sensitive(es') => ~ Raising(ms') /\ ~ Raising(ws')
  BY <1>1, <1>3, <1>4, Moves, Room DEF Apart
<1>8. ms'.v /\ Sensitive(ms') => ~ Raising(ws')
  BY <1>1, <1>3, <1>4, Moves, Room DEF Apart
<1> QED
  BY <1>5, <1>6, <1>7, <1>8 DEF Apart

\* Nothing enters ID behind a TLB write.
LEMMA NothingBehind ==
  ASSUME Kept, PInv, NEW p \in Answers, ~ Flush, Cycle(p), ToRefetch
  PROVE  /\ Onwards /\ ~ In(p) /\ ~ br'.v /\ Asking' /\ ~ again'.v
         /\ ~ fs'.v /\ fs'.pc = fs.pc /\ ~ TlbWrite(ws)
<1> USE DEF PInv
<1>1. Asking /\ ~ again.v /\ ~ br.v /\ Onwards
  BY DEF Alone, Fetching, Back
<1>2. ~ fs.v /\ ~ In(p) /\ ~ p.iok /\ ~ PreGo(p) /\ FsAllow(p)
  BY <1>1 DEF Asking, In, FsAllow, PreGo, Cycle, Keeps, Kept, AllPromises
<1>3. ~ fs'.v /\ fs'.pc = fs.pc /\ ~ again'.v
  BY <1>1, <1>2, FetchMoves
<1>4. ~ LeavesId(p)
  BY DEF LeavesId, IsBranch, Alone, ToRefetch, TlbWrite
<1>5. Onwards' /\ ~ br'.v
  BY <1>1, <1>2, <1>4, FetchTurns DEF Turned
<1>6. ~ TlbWrite(ws)
  BY DEF TlbWrite, Flush, Refetch, ToRefetch
<1> QED
  BY <1>1, <1>2, <1>3, <1>5, <1>6 DEF Onwards, Asking, Waiting, Holding, Turning

LEMMA HeldNoWrite ==
  ASSUME Kept, PInv, NEW p \in Answers, ~ Flush, Cycle(p), hold'.v
  PROVE  hold'.inst.kind # "tlbw"
<1> SUFFICES ASSUME hold'.inst.kind = "tlbw" PROVE FALSE
  OBVIOUS
<1>1. Onwards /\ hold'.inst = Comes(p) /\ ~ Leaves(p) /\ (p.idata \/ hold.v)
  BY HeldComes
<1>2. ~ hold.v /\ p.inst.kind = "tlbw"
  BY <1>1 DEF Comes, PInv, Alone
<1>3. p.idata /\ ~ BranchHeld(p).is /\ ~ ds.v
  BY <1>1, <1>2 DEF Cycle, Keeps, Kept, AllPromises
<1>4. FsReady(p)
  BY <1>1, <1>3, FetchMoves
<1> QED
  BY <1>1, <1>3, <1>4 DEF Leaves, DsAllow

\* A TLB write comes into an empty pipeline.
LEMMA WriteEnters ==
  ASSUME Kept, PInv, NEW p \in Answers, ~ Flush, Cycle(p), In(p), Came(p).kind = "tlbw"
  PROVE  /\ ~ es'.v /\ ~ ms'.v /\ ~ ws'.v /\ ds' = Came(p) /\ ~ ds'.bd /\ ds'.pc = fs'.pc
         /\ ~ br'.v /\ Asking' /\ ~ again'.v
<1> USE DEF PInv
<1>1. Onwards
  BY BackTurns DEF Fetching
<1>2. ~ hold.v /\ p.inst.kind = "tlbw"
  BY CameTyped DEF Comes, Alone
<1>3. ~ ds.v /\ ~ es.v /\ ~ ms.v /\ ~ BranchHeld(p).is
  BY <1>2 DEF Cycle, Keeps, Kept, AllPromises
<1>4. ~ es'.v /\ ~ ms'.v /\ ~ ws'.v /\ ds' = Came(p)
  BY <1>3, Moves, NoOneFacts, LeftFacts DEF Cycle, DsGo, EsGo, MsGo, TypeOK
<1>5. Onwards' /\ ~ fs'.v /\ fs'.pc = fs.pc /\ ~ br'.v
  BY <1>1, <1>3, FetchTurns DEF Turned
<1> QED
  BY <1>3, <1>4, <1>5, CameTyped DEF Onwards, Asking, Waiting, Holding, Turning

LEMMA AloneKept ==
  ASSUME Kept, PInv, NEW p \in Answers, ~ Flush, Cycle(p)
  PROVE  Alone'
<1> USE DEF PInv
<1>1. hold'.v => hold'.inst.kind # "tlbw"
  BY HeldNoWrite
<1>2. CASE In(p) /\ Came(p).kind = "tlbw"
  BY <1>1, <1>2, WriteEnters DEF Alone, ToRefetch, TlbWrite
<1>3. CASE ~ (In(p) /\ Came(p).kind = "tlbw")
  <2> DEFINE W(s) == TlbWrite(s)
  <2>1. /\ ds' = Came(p) \/ ds' = NoOne \/ (ds' = ds /\ ~ DsGo(p))
        /\ ~ TlbWrite(NoOne) /\ ~ TlbWrite(Left(ws)) /\ (In(p) => ~ TlbWrite(Came(p)))
        /\ ~ NoOne.v /\ ~ Left(ws).v
    BY <1>3, Moves, NoOneFacts, LeftFacts DEF Cycle, TlbWrite, TypeOK
  <2>2. \A s : TlbWrite(s) => s.v
    BY DEF TlbWrite
  <2>3. CASE ~ (TlbWrite(ds) \/ TlbWrite(es) \/ TlbWrite(ms))
    <3>1. ~ TlbWrite(ds') /\ ~ TlbWrite(es') /\ ~ TlbWrite(ms') /\ ~ TlbWrite(ws')
      BY <2>1, <2>3, Moves DEF Cycle
    <3> QED
      BY <1>1, <3>1 DEF Alone, ToRefetch, TlbWrite
  <2>4. CASE TlbWrite(ds) \/ TlbWrite(es) \/ TlbWrite(ms)
    <3>1. ToRefetch
      BY <2>4 DEF ToRefetch, TlbWrite
    <3>2. ~ In(p) /\ ~ br'.v /\ Asking' /\ ~ again'.v /\ fs'.pc = fs.pc
      BY <3>1, NothingBehind
    <3>3. /\ ds' = IF ds.v /\ ~ DsGo(p) THEN ds ELSE NoOne
          /\ es' = IF DsGo(p) THEN ds ELSE IF es.v /\ ~ EsGo(p) THEN es ELSE NoOne
          /\ ms' = IF EsGo(p) THEN es ELSE IF ms.v /\ ~ MsGo(p) THEN ms ELSE NoOne
          /\ ws' = IF MsGo(p) THEN ms ELSE Left(ws)
      BY <3>2, Moves DEF Cycle
    <3>4. (DsGo(p) => ds.v) /\ (EsGo(p) => es.v) /\ (MsGo(p) => ms.v)
      BY Room
    <3>5. /\ TlbWrite(ds') => ~ es'.v /\ ~ ms'.v /\ ~ ws'.v /\ fs'.pc = ds'.pc /\ ~ ds'.bd
          /\ TlbWrite(es') => ~ ds'.v /\ ~ ms'.v /\ ~ ws'.v /\ fs'.pc = es'.pc /\ ~ es'.bd
          /\ TlbWrite(ms') => ~ ds'.v /\ ~ es'.v /\ ~ ws'.v /\ fs'.pc = ms'.pc /\ ~ ms'.bd
          /\ TlbWrite(ws') => ~ ds'.v /\ ~ es'.v /\ ~ ms'.v /\ fs'.pc = ws'.pc /\ ~ ws'.bd
      BY <2>1, <2>2, <2>4, <3>2, <3>3, <3>4 DEF Alone
    <3> QED
      BY <1>1, <3>2, <3>5 DEF Alone
  <2> QED
    BY <2>3, <2>4
<1> QED
  BY <1>2, <1>3

\* An instruction that raises never waits in MEM.
LEMMA RaisingGoes ==
  ASSUME PInv, NEW p \in Answers, Raising(ms)
  PROVE  MsGo(p) /\ MsAllow(p)
BY DEF Raising, MsGo, MsAllow, MsReady, MsReflush

\* What enters ID without being a delay slot leaves the fetch stage asking.
LEMMA EntersAsking ==
  ASSUME Kept, PInv, NEW p \in Answers, ~ Flush, Cycle(p), In(p)
  PROVE  /\ Onwards
         /\ BranchHeld(p).is => br.v /\ ~ ds.v
         /\ ~ BranchHeld(p).is => fs'.req /\ lat' = None
<1>1. Onwards
  BY BackTurns DEF PInv, Fetching
<1>2. Turned(p)
  BY <1>1, FetchTurns
<1>3. ASSUME ~ BranchHeld(p).is PROVE fs'.req /\ lat' = None
  <2>1. fs.v /\ ~ br.v
    BY <1>1, <1>2, <1>3, BranchMoves DEF Turned
  <2>2. ~ fs.req
    BY <1>1, <2>1 DEF Onwards, Asking, Waiting, Holding, Turning
  <2>3. Onwards' /\ ~ fs'.v
    BY <1>2, <1>3 DEF Turned
  <2> QED
    BY <1>1, <2>2, <2>3, FetchMoves DEF Onwards, Asking, Waiting, Holding, Turning
<1> QED
  BY <1>1, <1>2, <1>3 DEF Turned, Onwards

LEMMA TimelyKept ==
  ASSUME Kept, PInv, NEW p \in Answers, ~ Flush, Cycle(p)
  PROVE  Timely'
<1> USE DEF PInv
<1>1. /\ ds' = IF In(p) THEN Came(p) ELSE IF ds.v /\ ~ DsGo(p) THEN ds ELSE NoOne
      /\ es' = IF DsGo(p) THEN ds ELSE IF es.v /\ ~ EsGo(p) THEN es ELSE NoOne
      /\ ms' = IF EsGo(p) THEN es ELSE IF ms.v /\ ~ MsGo(p) THEN ms ELSE NoOne
      /\ ws' = IF MsGo(p) THEN ms ELSE Left(ws)
  BY Moves DEF Cycle
<1>2. ~ NoOne.v /\ ~ Left(ws).v /\ (\A s : Raising(s) => s.v)
  BY NoOneFacts, LeftFacts DEF TypeOK, Raising
<1>3. ASSUME Raising(ms'), es'.v, ds'.v PROVE fs'.req /\ lat' = None
  <2>1. EsGo(p) /\ es.v
    BY <1>1, <1>2, <1>3, RaisingGoes, Room
  <2>2. DsGo(p) /\ ds.v
    BY <1>1, <1>2, <1>3, <2>1, Room
  <2>3. In(p)
    BY <1>1, <1>2, <1>3, <2>2
  <2> QED
    BY <2>2, <2>3, EntersAsking
<1>4. ASSUME Raising(ws'), es'.v, ds'.v PROVE fs'.req
  <2>1. Raising(ms)
    BY <1>1, <1>2, <1>4
  <2>2. MsAllow(p)
    BY <2>1, RaisingGoes
  <2>3. CASE In(p) /\ ~ BranchHeld(p).is
    BY <2>3, EntersAsking
  <2>4. CASE In(p) /\ BranchHeld(p).is
    <3>1. Onwards /\ br.v /\ ~ ds.v /\ ~ DsGo(p)
      BY <2>4, EntersAsking, Room
    <3>2. es.v /\ es.kind = "branch" /\ ~ EsGo(p)
      BY <1>1, <1>2, <1>4, <3>1 DEF Onwards
    <3>3. EsReady(p)
      BY <3>2, AnswerFacts DEF EsReady, Mem
    <3> QED
      BY <2>2, <3>2, <3>3 DEF EsGo
  <2>5. CASE ~ In(p)
    <3>1. ds.v /\ ~ DsGo(p)
      BY <1>1, <1>2, <1>4, <2>5
    <3>2. es.v
      BY <1>1, <1>2, <1>4, <3>1
    <3>3. fs.req /\ lat = None
      BY <2>1, <3>1, <3>2 DEF Timely
    <3>4. ~ PreGo(p)
      BY <3>3, AnswerFacts DEF PreGo
    <3> QED
      BY <3>3, <3>4 DEF Cycle, FetchStage
  <2> QED
    BY <2>3, <2>4, <2>5
<1> QED
  BY <1>3, <1>4 DEF Timely

\* What raises in MEM goes on to WB, and no load or store leaves EXE behind it; nothing else
\* moves a load or store that the port has not accepted, or keeps one it has answered.
LEMMA AccessesKept ==
  ASSUME Kept, PInv, NEW p \in Answers, ~ Flush, Cycle(p)
  PROVE  Accesses'
<1> USE DEF PInv
<1>1. /\ ms' = IF EsGo(p) THEN es ELSE IF ms.v /\ ~ MsGo(p) THEN ms ELSE NoOne
      /\ ws' = IF MsGo(p) THEN ms ELSE Left(ws)
  BY Moves DEF Cycle
<1>2. ~ NoOne.v /\ ~ Left(ws).v
  BY NoOneFacts, LeftFacts
<1>3. dport.v /\ dport.own <=> ms.v /\ ms.kind = "mem"
  BY DEF Accesses
<1>0. p.ddata \in BOOLEAN /\ ~ NoAccess.v
  BY AnswerFacts DEF NoAccess
<1>4. dport' = IF DataReq /\ p.dok THEN [v |-> TRUE, own |-> Mem(es)]
              ELSE IF p.ddata THEN NoAccess ELSE dport
  BY <1>0 DEF Cycle, Ports, When
<1>5. (p.ddata => dport.v) /\ (p.dok => DataReq /\ ~ dport.v)
  BY AnswerFacts
<1>6. ms.v /\ ms.kind = "mem" => (MsGo(p) <=> p.ddata)
  <2>1. ms.v /\ ms.kind = "mem" => ~ MsReflush
    BY DEF MsReflush, Raises, ExeEx, IdEx, Refetch, Flush
  <2> QED
    BY <1>0, <2>1 DEF MsGo, MsReady, Mem
<1>7. es.kind = "mem" => (EsGo(p) => p.dok /\ DataReq)
  BY DEF EsGo, EsReady, Mem, ExeEx
<1>8. p.dok => es.v /\ ~ MsReflush /\ ~ Raises(es)
  BY <1>5 DEF DataReq, ExWen
<1>9. Mem(es) /\ ~ Raises(es) => es.kind = "mem"
  BY DEF Mem, Raises, ExeEx, IdEx
<1>10. p.dok => MsAllow(p)
  <2>1. p.dok /\ ms.v => ms.kind # "mem" /\ ~ MsReflush
    BY <1>3, <1>5, <1>8
  <2>2. p.dok /\ ms.v => ~ Mem(ms)
    BY <2>1 DEF Mem, MsReflush, Raises, ExeEx, IdEx
  <2> QED
    BY <2>2 DEF MsAllow, MsReady
<1>11. dport'.v /\ dport'.own <=> ms'.v /\ ms'.kind = "mem"
  <2>1. CASE p.dok
    <3>1. EsGo(p) <=> EsReady(p)
      BY <1>8, <1>10, <2>1 DEF EsGo
    <3>2. Mem(es) => EsGo(p)
      BY <1>5, <2>1, <3>1 DEF EsReady
    <3>3. dport'.v /\ dport'.own <=> Mem(es)
      BY <1>4, <1>5, <2>1
    <3>4. Mem(es) <=> es.kind = "mem"
      BY <1>8, <1>9, <2>1 DEF Mem
    <3>5. ~ (ms.v /\ ms.kind = "mem")
      BY <1>3, <1>5, <2>1
    <3> QED
      BY <1>1, <1>2, <1>8, <2>1, <3>2, <3>3, <3>4, <3>5
  <2>2. CASE ~ p.dok
    <3>1. EsGo(p) => es.kind # "mem" /\ (~ ms.v \/ MsGo(p))
      BY <1>7, <2>2, Room
    <3>2. dport' = IF p.ddata THEN NoAccess ELSE dport
      BY <1>4, <2>2
    <3> QED
      BY <1>0, <1>1, <1>2, <1>3, <1>6, <3>1, <3>2
  <2> QED
    BY <2>1, <2>2
<1>12. Raising(ws') => ~ (dport'.v /\ dport'.own)
  <2> SUFFICES ASSUME Raising(ws') PROVE ~ (ms'.v /\ ms'.kind = "mem")
    BY <1>11
  <2>1. MsGo(p) /\ Raising(ms)
    BY <1>1, <1>2 DEF Raising
  <2>2. MsReflush
    BY <2>1 DEF Raising, MsReflush
  <2>3. EsGo(p) => es.kind # "mem"
    BY <1>7, <1>8, <2>2
  <2> QED
    BY <1>1, <1>2, <2>1, <2>3
<1> QED
  BY <1>11, <1>12 DEF Accesses

----------------------------------------------------------------------------
(* The theorems                                                            *)

LEMMA InitInv ==
  ASSUME Kept, Init
  PROVE  PInv
<1> USE DEF Init
<1>1. TypeOK
  BY Addresses, NoOneFacts DEF TypeOK, NoHold, NoInst, NoAgain, NoBranch, NoAccess, Inst, Address, Kind, Straight
<1>2. ~ ds.v /\ ~ es.v /\ ~ ms.v /\ ~ ws.v /\ ~ hold.v /\ ~ br.v /\ ~ again.v /\ ws.kind = "plain"
  BY DEF NoOne, NoHold, NoBranch, NoAgain
<1>3. Onwards
  BY <1>2 DEF Onwards, Asking
<1>4. Ordered
  <2>1. /\ ToFs.pc = Vector /\ ~ ToFs.slot /\ Plus(fs.pc, 1) = Vector /\ ~ fs.v
        /\ ~ IsBranch
    BY <1>2, Addresses DEF ToFs, ToDs, ToEs, ToMs, ToWs, Advance, IsBranch
  <2> QED
    BY <1>2, <2>1 DEF Ordered
<1> QED
  BY <1>1, <1>2, <1>3, <1>4
     DEF PInv, Fetching, Apart, Alone, ToRefetch, TlbWrite, Timely, Raising, Restarts, Accesses, NoAccess

LEMMA StepInv ==
  ASSUME Kept, PInv, [Next]_vars
  PROVE  PInv'
<1>1. CASE UNCHANGED vars
  BY <1>1 DEF vars, PInv, TypeOK, Fetching, Onwards, Asking, Waiting, Holding, Turning, Back, Empty, Live,
       Ordered, IsBranch, ToFs, ToDs, ToEs, ToMs, ToWs, Apart, Alone, ToRefetch, Timely, Restarts, Accesses
<1>2. ASSUME NEW p \in Answers, Cycle(p) PROVE PInv'
  <2>1. CASE Flush
    BY <1>2, <2>1, FlushKeeps
  <2>2. CASE ~ Flush
    BY <1>2, <2>2, TypesKept, RestartsKept, OrderKept, ApartKept, AloneKept, TimelyKept, AccessesKept DEF PInv
  <2> QED
    BY <2>1, <2>2
<1> QED
  BY <1>1, <1>2 DEF Next

\* Whatever the ports answer and whatever is fetched, the stages hold the instructions that the
\* architecture executes next, in its order, and the fetch stage asks for the one behind them.
THEOREM StagesInOrder == Kept => (Spec => []PInv)
<1> SUFFICES ASSUME Kept PROVE Spec => []PInv
  OBVIOUS
<1>1. Init => PInv
  BY InitInv
<1>2. PInv /\ [Next]_vars => PInv'
  BY StepInv
<1> QED
  BY <1>1, <1>2, PTL DEF Spec

\* What is written back is the instruction the architecture executes next, from its own address
\* (IF_stage.v, the handshakes and the flush).
THEOREM WrittenBackInOrder == Kept => (Spec => []InOrder)
<1> SUFFICES ASSUME Kept PROVE Spec => []InOrder
  OBVIOUS
<1>1. PInv => InOrder
  BY DEF PInv, Ordered, Matches, ToWs, InOrder
<1> QED
  BY <1>1, StagesInOrder, PTL

\* EPC and EXL are what the architecture makes them, and an instruction is taken for a delay slot
\* when it is one (cp0.v, WB_stage.v).
THEOREM ExceptionsRestartRight == Kept => (Spec => []RestartsRight)
<1> SUFFICES ASSUME Kept PROVE Spec => []RestartsRight
  OBVIOUS
<1>1. PInv => RestartsRight
  BY DEF PInv, Ordered, Restarts, Matches, ToWs, RestartsRight
<1> QED
  BY <1>1, StagesInOrder, PTL

\* An answer of the data port finds the load or store that waits for it in MEM (EXE_stage.v,
\* MEM_stage.v).
THEOREM AnswersPaired == Kept => (Spec => []DataPaired)
<1> SUFFICES ASSUME Kept PROVE Spec => []DataPaired
  OBVIOUS
<1>1. PInv => DataPaired
  BY DEF PInv, Accesses, DataPaired
<1> QED
  BY <1>1, StagesInOrder, PTL
=============================================================================
