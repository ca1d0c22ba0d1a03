----------------------------- MODULE Forwarding -----------------------------
(***************************************************************************)
(* The operands ID_stage.v hands to EXE: byte by byte from EXE, MEM, WB or *)
(* the register file, or a stall when the nearest writer does not have its *)
(* value yet.  The value of a byte is 0 or 1 and only lane Watched is      *)
(* followed: lanes do not mix on the way from a result to an operand.      *)
(***************************************************************************)
EXTENDS Lanes

CONSTANTS
    Register,  \* some registers, 0 among them
    Partial,   \* the loads of a part of a word in use: lwl or lwr, and the last address bits
    Watched    \* the lane whose values are followed

ForwardingAssumption ==
    Register \subseteq Nat /\ 0 \in Register /\ Watched \in Lane /\ Partial \subseteq {"lwl", "lwr"} \X Lane

VARIABLES
    es, ms, ws,  \* EXE, MEM, WB: valid, and the instruction
    rf,          \* the register file
    ideal,       \* history: registers after all instructions that have left ID
    taken        \* history: operands that left ID last, and what they should be

vars == <<es, ms, ws, rf, ideal, taken>>

\* An instruction that writes a register, as far as operands go: where its result
\* comes from, the lanes it writes, the value.  "alu" has it in EXE, a load in MEM when
\* the port answers, "mfc0" in WB; "none" writes nothing.  "flush" is an instruction that
\* raises an exception or returns from one; its result counts for nothing.
Insts ==
    [op : {"alu", "lw"}, dest : Register, sel : {0}, val : {0, 1}]
    \cup [op : {"mfc0"}, dest : Register \ {0}, sel : {0}, val : {0, 1}]
    \cup {[op |-> q[1], dest |-> r, sel |-> q[2], val |-> v] : q \in Partial, r \in Register \ {0}, v \in {0, 1}}
    \cup [op : {"flush"}, dest : Register \ {0}, sel : {0}, val : {0}]
    \cup {[op |-> "none", dest |-> 0, sel |-> 0, val |-> 0]}
Nop == [op |-> "none", dest |-> 0, sel |-> 0, val |-> 0]
Empty == [v |-> FALSE, i |-> Nop]

IsLoad(i) == i.op \in Loads

Init ==
    /\ es = Empty /\ ms = Empty /\ ws = Empty
    /\ rf \in [Register -> {0, 1}] /\ ideal = rf
    /\ taken = [got |-> 0, want |-> 0]

----------------------------------------------------------------------------
(* Forwarding                                                              *)

\* gr_we of ID stays with an instruction until MEM, where load_wen replaces it.
WeInEs(i) == IF i.op = "none" THEN {} ELSE Lane
WeInMs(i) == IF IsLoad(i) THEN LoadWen(i.op, i.sel) ELSE WeInEs(i)

\* Where lane j of register r comes from.
Source(r, j) ==
    CASE es.v /\ j \in WeInEs(es.i) /\ es.i.dest = r -> "es"
      [] ~ (es.v /\ j \in WeInEs(es.i) /\ es.i.dest = r)
           /\ ms.v /\ j \in WeInMs(ms.i) /\ ms.i.dest = r -> "ms"
      [] ~ (es.v /\ j \in WeInEs(es.i) /\ es.i.dest = r)
           /\ ~ (ms.v /\ j \in WeInMs(ms.i) /\ ms.i.dest = r)
           /\ ws.v /\ j \in WeInMs(ws.i) /\ ws.i.dest = r -> "ws"
      [] OTHER -> "rf"

\* forward_valid: some lane comes from s.
Comes(r, s) == \E j \in Lane : Source(r, j) = s

\* What a stage shows on its forwarding bus in lane Watched: before the value is there,
\* anything.  p.ok: data_sram_data_ok.
EsData(i, x)  == IF i.op \in {"alu", "flush"} THEN i.val ELSE x
MsData(i, ok, x) == IF i.op = "mfc0" \/ (IsLoad(i) /\ ~ ok) THEN x ELSE i.val

Operand(r, p, x) ==
    IF r = 0 THEN 0
    ELSE CASE Source(r, Watched) = "es" -> EsData(es.i, x)
           [] Source(r, Watched) = "ms" -> MsData(ms.i, p.ok, x)
           [] Source(r, Watched) = "ws" -> ws.i.val
           [] Source(r, Watched) = "rf" -> rf[r]

----------------------------------------------------------------------------
(* The stages                                                              *)

\* Flushing: ws_reflush.  The bus of WB is not cleared by it.
Reflush == ws.v /\ ws.i.op = "flush"

\* ds_ready_go.  Mutant: nobody waits for the answer to a load in MEM.
NoLoadUse(rs, rt, p) ==
    \/ Reflush
    \/ ~ \/ (IsLoad(es.i) \/ es.i.op = "mfc0") /\ (Comes(rs, "es") \/ Comes(rt, "es"))
         \/ ms.i.op = "mfc0" /\ (Comes(rs, "ms") \/ Comes(rt, "ms"))
DsReady(rs, rt, p) ==
    \/ Reflush
    \/ ~ \/ (IsLoad(es.i) \/ es.i.op = "mfc0") /\ (Comes(rs, "es") \/ Comes(rt, "es"))
         \/ ms.i.op = "mfc0" /\ (Comes(rs, "ms") \/ Comes(rt, "ms"))
         \/ IsLoad(ms.i) /\ ~ p.ok /\ (Comes(rs, "ms") \/ Comes(rt, "ms"))

MsReady(p) == IsLoad(ms.i) => p.ok
MsAllow(p) == ~ ms.v \/ MsReady(p)
EsAllow(p) == ~ es.v \/ (p.go /\ MsAllow(p))

\* Register 0 reads as 0 whatever is written to it.
Written(file, i, we) ==
    IF Watched \in we /\ i.dest # 0 THEN [file EXCEPT ![i.dest] = i.val] ELSE file

\* p.come: an instruction is in ID, p.rs and p.rt its operands; p.go: EXE is done.
\* What a stage holds while it is not valid shows nowhere.
Cycle(p) ==
    LET leaves == p.come /\ DsReady(p.rs, p.rt, p) /\ EsAllow(p) /\ ~ Reflush
    IN /\ ms' = IF Reflush THEN Empty
                ELSE IF MsAllow(p) THEN IF es.v /\ p.go THEN es ELSE Empty
                ELSE ms
       /\ ws' = IF ~ Reflush /\ ms.v /\ MsReady(p) THEN ms ELSE Empty
       /\ rf' = IF ws.v /\ ~ Reflush THEN Written(rf, ws.i, WeInMs(ws.i)) ELSE rf
       /\ taken' \in IF leaves
                       THEN {[got |-> Operand(r, p, x), want |-> IF r = 0 THEN 0 ELSE ideal[r]] :
                                r \in {p.rs, p.rt}, x \in {0, 1}}
                       ELSE {[got |-> 0, want |-> 0]}
       /\ \E i \in IF leaves THEN Insts ELSE {Nop} :
            /\ es' = IF Reflush THEN Empty
                     ELSE IF EsAllow(p) THEN [v |-> leaves, i |-> i]
                     ELSE es
            /\ ideal' = IF Reflush THEN rf
                        ELSE IF leaves /\ i.op # "flush" THEN Written(ideal, i, WeInMs(i))
                        ELSE ideal

\* Behind an instruction that flushes nothing counts.
Counts == \A s \in {es, ms, ws} : ~ (s.v /\ s.i.op = "flush")

Next ==
    \E rs, rt \in Register, come, go, ok \in BOOLEAN :
        /\ ok => ms.v /\ IsLoad(ms.i)
        /\ go => es.v
        /\ rs <= rt   \* the two are treated alike
        /\ ~ come => rt = 0
        /\ Cycle([rs |-> rs, rt |-> rt, come |-> come, go |-> go, ok |-> ok])

----------------------------------------------------------------------------

\* What leaves ID is what the instructions before it have left in the registers, lane
\* by lane, whatever they wait for and though lwl and lwr write a part.
OperandsRight == Counts => taken.got = taken.want
----------------------------------------------------------------------------
(* The invariant that DatapathProofs shows to be inductive: the registers  *)
(* as they should be are those of the file with what is under way written  *)
(* to them, the oldest first.                                              *)

Through(file, s) == IF s.v THEN Written(file, s.i, WeInMs(s.i)) ELSE file

ForwardingInv ==
    /\ \A s \in {es, ms, ws} : s.v \in BOOLEAN /\ s.i \in Insts
    /\ rf \in [Register -> {0, 1}] /\ ideal \in [Register -> {0, 1}]
    /\ Counts => /\ ideal = Through(Through(Through(rf, ws), ms), es)
                 /\ taken.got = taken.want
=============================================================================
