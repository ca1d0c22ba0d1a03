------------------------------ MODULE Pipeline ------------------------------
(***************************************************************************)
(* The five stages of myCPU as they take instructions from the fetch port  *)
(* and hand them on: valid bits and handshakes, branches with their delay  *)
(* slot, exceptions and ERET that flush, and the two memory ports, which   *)
(* answer when they like.  One step is one cycle of the clock.  Operands   *)
(* are the subject of Forwarding; here a stall for one is arbitrary.       *)
(***************************************************************************)
EXTENDS Naturals, Sequences

CONSTANTS
    NumPc,      \* addresses are numbers modulo NumPc; the exception vector is 0
    Target,     \* where a taken branch goes
    Promises    \* what software and the ports see to

AllPromises ==
  { "slots",    \* no branch, ERET or TLB write in a delay slot
    "alone",    \* a TLB write is alone in the pipeline, and no fetch is accepted
                \*   before it is written back
    "apart" }   \* no ERET comes while an instruction that flushes is on its way

Pc == 0 .. NumPc - 1
Vector == 0
Plus(pc, n) == (pc + n) % NumPc
Before(pc)  == (pc + NumPc - 1) % NumPc

ASSUME PipelineAssumption ==
    NumPc \in Nat \ {0, 1} /\ Target \in Pc /\ Promises \subseteq AllPromises

VARIABLES
    fs,      \* IF: valid, pc (fs_pc), req (inst_sram_req)
    hold,    \* IF: the instruction that came while ID had no room
    cancel,  \* IF: inst_cancel_r_1 and inst_cancel_r_2
    again,   \* IF: ex_hold, where to go on after a flush
    br,      \* ID: br_bus_r, the branch that has left ID
    ds, es, ms, ws,  \* a stage: valid, and its instruction
    dreq,    \* EXE: data_sram_req_r
    cp0,     \* EPC and the EXL bit
    iport,   \* external: addresses of accepted fetches
    lat,     \* external: the address the bridge has latched, if any
    dport,   \* external: an access the data port has accepted and not answered, and
             \*   whether a load or store asked for it
    next     \* history: the next pc and the one after by the architecture,
             \*   whether the next is a delay slot, EPC and EXL as they should be

vars == <<fs, hold, cancel, again, br, ds, es, ms, ws, dreq, cp0, iport, lat, dport, next>>

None == NumPc    \* no address

\* ex: an exception or an interrupt before EXE; hitMem: the same of a load or store;
\* fault, align: of its address, by the TLB or for its alignment.
Kinds == {"plain", "mem", "branch", "ex", "hitMem", "fault", "align", "eret", "tlbw"}

\* What a fetch from pc can bring: any instruction.
Insts(pc) == {[at |-> pc, kind |-> k, to |-> t] : k \in Kinds \ {"branch"}, t \in {None}}
             \cup {[at |-> pc, kind |-> "branch", to |-> t] : t \in {Target, None}}
NoInst == [at |-> None, kind |-> "plain", to |-> None]
NoHold == [v |-> FALSE, inst |-> NoInst]
NoAgain == [v |-> FALSE, pc |-> Vector]
NoAccess == [v |-> FALSE, own |-> FALSE]
NoBranch == [v |-> FALSE, is |-> FALSE, taken |-> FALSE, to |-> None]
NoOne  == [v |-> FALSE, at |-> None, kind |-> "plain", to |-> None, pc |-> None, bd |-> FALSE]

Init ==
    /\ fs = [v |-> FALSE, pc |-> Before(Vector), req |-> TRUE]
    /\ hold = NoHold
    /\ cancel = [one |-> FALSE, two |-> FALSE]
    /\ again = NoAgain
    /\ br = NoBranch
    /\ ds = NoOne /\ es = NoOne /\ ms = NoOne /\ ws = NoOne
    /\ dreq = FALSE /\ cp0 = [epc |-> Vector, exl |-> FALSE]
    /\ iport = <<>> /\ lat = None /\ dport = NoAccess
    /\ next = [pc |-> Vector, after |-> Plus(Vector, 1), slot |-> FALSE, epc |-> Vector, exl |-> FALSE]

----------------------------------------------------------------------------
(* Instructions and flushes                                                *)

Mem(s)     == s.kind \in {"mem", "fault", "align", "hitMem"}
ExeEx(s)   == s.kind \in {"fault", "align"}        \* exe_ex
IdEx(s)    == s.kind \in {"ex", "hitMem"}          \* if_ex, id_ex
Raises(s)  == ExeEx(s) \/ IdEx(s)
WbEx       == ws.v /\ Raises(ws)
ToRefetch  == \E s \in {ds, es, ms, ws} : s.v /\ s.kind = "tlbw"
Refetch    == ws.v /\ ToRefetch
Eret       == ws.v /\ ws.kind = "eret"
WsReflush  == WbEx \/ Eret
Flush      == WsReflush \/ Refetch
MsReflush  == ms.v /\ (Raises(ms) \/ ms.kind = "eret" \/ Refetch)

\* exe_ex_wen: EXE may change state.  Mutant: what is flushed from MEM next is forgotten.
AsksOn == ~ (Raises(es) \/ WsReflush \/ Refetch \/ ToRefetch)
ExWen == ~ (Raises(es) \/ WsReflush \/ MsReflush \/ Refetch \/ ToRefetch)
DataReq == dreq /\ es.v /\ ExWen

\* The handshakes, back to front.  p: what the ports and the stalls do in this
\* cycle.
MsReady(p)  == Mem(ms) /\ ~ MsReflush => p.ddata
MsAllow(p)  == ~ ms.v \/ MsReady(p)
StuckOnFault(p) == IF Mem(es) THEN DataReq /\ p.dok ELSE ~ p.wait   \* a mutant
EsReady(p)  == IF Mem(es) THEN (ExeEx(es) /\ es.v) \/ (DataReq /\ p.dok) ELSE ~ p.wait
EsAllow(p)  == ~ es.v \/ (EsReady(p) /\ MsAllow(p))
DsReady(p)  == Flush \/ ~ p.stall
DsAllow(p)  == ~ ds.v \/ (DsReady(p) /\ EsAllow(p))

----------------------------------------------------------------------------
(* IF and the branch                                                       *)

\* br_bus: of ID, with arbitrary operands while it stalls for them.
IsBranch == ds.v /\ ds.kind = "branch"
Branch(p) ==
    [is    |-> IsBranch,
     taken |-> IsBranch /\ (IF p.stall THEN p.guess ELSE ds.to # None),
     to    |-> IF p.stall THEN Target ELSE ds.to]
OnlyInId(p) == Branch(p)   \* Mutant: a branch that has left ID is forgotten.
BranchHeld(p) == IF br.v THEN [is |-> br.is, taken |-> br.taken, to |-> br.to] ELSE Branch(p)

\* nextpc, when no flush has to be gone on with.  Mutant: the flush is forgotten when
\* its cycle is over.
Onward(p) ==
    LET b == BranchHeld(p)
    IN IF b.taken /\ fs.v THEN b.to ELSE Plus(fs.pc, 1)
Forgets(p) ==
    CASE Eret -> cp0.epc
      [] WbEx -> Vector
      [] ~ WsReflush -> Onward(p)
NextPc(p) ==
    CASE Eret -> cp0.epc
      [] WbEx -> Vector
      [] ~ WsReflush /\ Refetch -> Plus(fs.pc, 1)
      [] ~ Flush -> IF again.v THEN again.pc ELSE Onward(p)

PreGo(p)   == fs.req /\ p.iok
Live       == ~ cancel.one /\ ~ cancel.two          \* inst_cancel
FsReady(p) == IF BranchHeld(p).is THEN PreGo(p) ELSE (p.idata \/ hold.v) /\ Live
FsAllow(p) == ~ fs.v \/ (FsReady(p) /\ DsAllow(p))

\* inst_cancel_r_1 drops the answer of a fetch in flight, inst_cancel_r_2 what IF
\* holds.
CancelOne(p) ==
    IF Flush /\ (PreGo(p) \/ (~ FsAllow(p) /\ ~ FsReady(p))) THEN TRUE
    ELSE cancel.one /\ ~ p.idata

CancelTwo(p) == Flush /\ (~ PreGo(p) \/ FsAllow(p) \/ FsReady(p))

\* What a valid bit guards, if it is on: nothing reads a register whose bit is off,
\* and the model shows it as empty.
When(v, r, empty) == IF v THEN r ELSE empty

FetchStage(p) ==
    LET leaves == DsAllow(p) /\ FsReady(p)
        held   == ~ Flush /\ IF p.idata /\ ~ leaves /\ Live THEN TRUE ELSE hold.v /\ ~ leaves
        back   == Flush \/ (again.v /\ ~ (PreGo(p) /\ Live))
        leavesId == IsBranch /\ DsReady(p) /\ EsAllow(p)
        branch == IF leavesId THEN Branch(p) ELSE BranchHeld(p)
        waits  == /\ ~ Flush
                  /\ ~ (BranchHeld(p).is /\ fs.v /\ FsAllow(p) /\ PreGo(p))
                  /\ leavesId \/ br.v
    IN /\ fs' = [v   |-> Live /\ IF FsAllow(p) THEN PreGo(p) ELSE fs.v,
                 pc  |-> IF PreGo(p) /\ FsAllow(p) THEN NextPc(p) ELSE fs.pc,
                 req |-> ~ PreGo(p) /\ (fs.req \/ (DsAllow(p) /\ (p.idata \/ hold.v)))]
       /\ hold' = When(held, [v |-> TRUE, inst |-> IF p.idata /\ ~ leaves THEN p.inst ELSE hold.inst], NoHold)
       /\ cancel' = [one |-> CancelOne(p), two |-> CancelTwo(p)]
       /\ again' = When(back, [v |-> TRUE, pc |-> IF Flush THEN NextPc(p) ELSE again.pc], NoAgain)
       /\ br' = When(waits, [v |-> TRUE, is |-> branch.is, taken |-> branch.taken, to |-> branch.to], NoBranch)

----------------------------------------------------------------------------
(* The other stages                                                        *)

\* A stage takes what comes when it has room; a flush empties it.
Stage(s, allow, comes, i) ==
    When(~ Flush /\ IF allow THEN comes ELSE s.v, IF allow THEN i ELSE s, NoOne)

\* WB, when it has let its instruction go: ERET is read of its bus register without the
\* valid bit, and the model shows nothing else of the register.
Left(s) == [NoOne EXCEPT !.kind = IF s.kind = "eret" THEN "eret" ELSE "plain"]

\* c0_epc and c0_status_exl.
Epc == IF WbEx /\ ~ cp0.exl THEN IF ws.bd THEN Before(ws.pc) ELSE ws.pc ELSE cp0.epc
Exl == IF WbEx THEN TRUE ELSE cp0.exl /\ ws.kind # "eret"

Stages(p) ==
    LET inst == IF hold.v THEN hold.inst ELSE IF p.idata THEN p.inst ELSE NoInst
        came == [v |-> TRUE, at |-> inst.at, kind |-> inst.kind, to |-> inst.to,
                 pc |-> fs.pc, bd |-> BranchHeld(p).is]
    IN /\ ds' = Stage(ds, DsAllow(p), fs.v /\ FsReady(p), came)
       /\ es' = Stage(es, EsAllow(p), ds.v /\ DsReady(p), ds)
       /\ ms' = Stage(ms, MsAllow(p), es.v /\ EsReady(p), es)
       \* A flush does not keep WB's bus register from being loaded.
       /\ ws' = When(~ Flush /\ ms.v /\ MsReady(p), ms, Left(IF ms.v /\ MsReady(p) THEN ms ELSE ws))
       /\ dreq' = IF dreq /\ p.dok THEN FALSE
                  ELSE dreq \/ (MsAllow(p) /\ Mem(es) /\ es.v /\ es.kind # "fault")
       /\ cp0' = [epc |-> Epc, exl |-> Exl]

\* External: the fetch port answers in order, with what is at the address the bridge
\* latched in the cycle before; the data port takes one access at a time.
Ports(p) ==
    /\ iport' = (IF p.idata THEN Tail(iport) ELSE iport) \o (IF PreGo(p) THEN <<lat>> ELSE <<>>)
    /\ lat' = IF fs.req /\ ~ PreGo(p) THEN NextPc(p) ELSE None
    /\ dport' = IF DataReq /\ p.dok THEN [v |-> TRUE, own |-> Mem(es)]
                ELSE When(~ p.ddata, dport, NoAccess)

\* What the architecture does at the instruction that is written back.
Retire ==
    LET n == next
    IN next' =
        IF ~ ws.v THEN n
        ELSE CASE Raises(ws) ->
                    [pc |-> Vector, after |-> Plus(Vector, 1), slot |-> FALSE, exl |-> TRUE,
                     epc |-> IF n.exl THEN n.epc ELSE IF n.slot THEN Before(n.pc) ELSE n.pc]
               [] ws.kind = "eret" ->
                    [pc |-> n.epc, after |-> Plus(n.epc, 1), slot |-> FALSE, exl |-> FALSE, epc |-> n.epc]
               [] ~ Raises(ws) /\ ws.kind # "eret" ->
                    [n EXCEPT !.pc = n.after, !.slot = ws.kind = "branch",
                              !.after = IF ws.to # None THEN ws.to ELSE Plus(n.after, 1)]

Keeps(p) ==
    /\ "slots" \in Promises /\ BranchHeld(p).is => p.inst.kind \notin {"branch", "eret", "tlbw"}
    /\ "alone" \in Promises =>
           /\ ~ (p.iok /\ ToRefetch)
           /\ p.inst.kind = "tlbw" => ~ ds.v /\ ~ es.v /\ ~ ms.v
    /\ "apart" \in Promises /\ p.inst.kind = "eret" =>
           \A s \in {ds, es, ms, ws} : ~ (s.v /\ (Raises(s) \/ s.kind = "eret"))

Cycle(p) ==
    /\ Keeps(p)
    /\ FetchStage(p) /\ Stages(p) /\ Ports(p) /\ Retire

Choice(B) == IF B THEN BOOLEAN ELSE {FALSE}

\* A fetch may be accepted: the bridge has latched its address, and two at most are under way.
CanFetch == fs.req /\ lat # None /\ Len(iport) < 2

Answers ==
    UNION {{[iok |-> a, idata |-> i # NoInst, inst |-> i, dok |-> c, ddata |-> d, wait |-> w, stall |-> s, guess |-> g] :
        a \in Choice(CanFetch), c \in Choice(DataReq /\ ~ dport.v), d \in Choice(dport.v),
        i \in {NoInst} \cup IF iport # <<>> THEN Insts(Head(iport)) ELSE {},
        w \in Choice(es.v /\ es.kind = "plain"), g \in Choice(IsBranch /\ s)} :
        s \in Choice(ds.v /\ (es.v \/ ms.v))}

Next == \E p \in Answers : Cycle(p)

Spec == Init /\ [][Next]_vars

\* The ports answer, and no stall lasts.
PromptAnswers ==
    {[iok |-> a, idata |-> iport # <<>>, inst |-> i, dok |-> DataReq /\ ~ dport.v, ddata |-> dport.v,
      wait |-> FALSE, stall |-> FALSE, guess |-> FALSE] :
        a \in IF ToRefetch THEN Choice(CanFetch) ELSE {CanFetch},
        i \in IF iport = <<>> THEN {NoInst} ELSE Insts(Head(iport))}
Prompt == \E p \in PromptAnswers : Cycle(p)

FairSpec == Spec /\ WF_vars(Prompt)

----------------------------------------------------------------------------
(* Properties                                                              *)

\* The instruction in WB is the one the architecture executes next, fetched from
\* its own address: past branches, slots, flushes and answers that come late.
InOrder == ws.v => ws.pc = next.pc /\ ws.at = ws.pc

\* An exception in a delay slot, and only there, restarts at the branch.
RestartsRight == ws.v => ws.bd = next.slot /\ cp0 = [epc |-> next.epc, exl |-> next.exl]

\* The answer to a load or store finds it in MEM, whatever has been flushed meanwhile,
\* and MEM waits for the answer to its own access: never for that to a request
\* which data_sram_req_r makes for whatever is in EXE when a flush has left it set.
DataPaired == dport.v /\ dport.own <=> ms.v /\ ms.kind = "mem"

\* A load or store that had an interrupt or an exception before EXE has reached EXE, and
\* nothing is left ahead that could flush it: it makes no request and waits for one.
Hangs == es.v /\ es.kind = "hitMem" /\ ~ ms.v /\ ~ ws.v

\* An instruction is written back again and again, or the pipeline hangs in this one way.
Progress == []<>(ws.v) \/ <>[]Hangs
=============================================================================
