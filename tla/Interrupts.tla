----------------------------- MODULE Interrupts -----------------------------
(***************************************************************************)
(* Interrupts in myCPU: the bits of Status and Cause in cp0.v, and the     *)
(* instructions that change them on their way from ID to WB.  An interrupt *)
(* is noticed in ID, where it marks the instruction, and taken when that   *)
(* instruction is in WB; the registers are written in WB, so those ahead   *)
(* may have changed them since.  One step is one cycle.  Count and Compare *)
(* are equal when they like.  A refetch, which discards instructions and   *)
(* changes none of these registers, is left out.                           *)
(***************************************************************************)
EXTENDS Naturals, FiniteSets

CONSTANTS
    Masks,         \* what software writes to Status: ie and im
    MaxSpecial     \* instructions under way that do not pass, at most

Lines == {"time", "soft"}    \* IP7 and IP0; IP1 is as IP0

InterruptsAssumption == Masks \subseteq [ie : BOOLEAN, im : SUBSET Lines] /\ MaxSpecial \in 1 .. 3

VARIABLES
    cp0,             \* Status (ie, im, exl) and Cause (ti, ip)
    ds,              \* ds_valid
    es, ms, ws,      \* a stage: valid, its instruction, and whether it is marked
    since,           \* history: instructions written back since an interrupt was due
    fresh,           \* history: ERET was the last instruction written back
    inside,          \* history: in a handler, from an exception to ERET
    tick             \* history: Count met Compare after Compare was last written

vars == <<cp0, ds, es, ms, ws, since, fresh, inside, tick>>

\* Any instruction that leaves these registers alone passes; a syscall stands for
\* whatever raises.
Insts == [op : {"pass", "syscall", "eret", "compare"}] \cup [op : {"cause"}, to : BOOLEAN]
         \cup [op : {"status"}, to : Masks, exl : BOOLEAN]

Bubble == [v |-> FALSE, i |-> [op |-> "pass"], int |-> FALSE]
Long   == 5   \* more instructions than are under way; since is not counted beyond

Init ==
    /\ cp0 = [ie |-> FALSE, im |-> {}, exl |-> FALSE, ti |-> FALSE, ip7 |-> FALSE, ip0 |-> FALSE]
    /\ ds = FALSE /\ es = Bubble /\ ms = Bubble /\ ws = Bubble
    /\ since = Long /\ fresh = FALSE /\ inside = FALSE /\ tick = FALSE

----------------------------------------------------------------------------

UnderWay == <<es, ms, ws>>

\* The lines of Cause that are on, of those Status lets through.
Asking == {x \in cp0.im : IF x = "time" THEN cp0.ip7 ELSE cp0.ip0}

\* time_int, sof_int0: what ID sees of cause and status.  Mutant: EXL is not looked at.
InHandler == cp0.ie /\ Asking # {}
Interrupt == cp0.ie /\ ~ cp0.exl /\ Asking # {}

\* id_ex of the instruction in s.  WB flushes for an exception and for ERET.
Raises(s) == s.v /\ (s.int \/ s.i.op = "syscall")
Eret(s)   == s.i.op = "eret"
Flush     == Raises(ws) \/ (ws.v /\ Eret(ws))
Writes(o) == ws.v /\ ~ Raises(ws) /\ ws.i.op = o    \* mtc0_we

\* cp0.v at the end of the cycle; match: Count and Compare are equal.  ERET is read of
\* WB's register without its valid bit.
Registers(match) ==
    [ie  |-> IF Writes("status") THEN ws.i.to.ie ELSE cp0.ie,
     im  |-> IF Writes("status") THEN ws.i.to.im ELSE cp0.im,
     exl |-> Raises(ws) \/ (~ Eret(ws) /\ IF Writes("status") THEN ws.i.exl ELSE cp0.exl),
     ti  |-> ~ Writes("compare") /\ (cp0.ti \/ match),
     ip7 |-> cp0.ti,
     ip0 |-> IF Writes("cause") THEN ws.i.to ELSE cp0.ip0]

\* An interrupt is asked for and allowed, by the registers c and the clock.
Due(c, clock) == c.ie /\ ~ c.exl /\ \E x \in c.im : IF x = "time" THEN clock ELSE c.ip0

\* What software sees to: ERET comes in a handler only, and not behind an exception or an
\* ERET that is on its way; a write of Status leaves EXL as it is.
Keeps(i) ==
    /\ i.op = "eret" =>
         /\ cp0.exl
         /\ \A n \in 1 .. 3 : UnderWay[n].v => UnderWay[n].i.op \notin {"syscall", "eret"}
    /\ i.op = "status" => i.exl = cp0.exl
    \* The bound.
    /\ i.op # "pass" => Cardinality({n \in 1 .. 3 : UnderWay[n].i.op # "pass"}) < MaxSpecial

\* id_ex and the instruction go on from ID.
Decoded == [v : {TRUE}, i : {x \in Insts : Keeps(x)}, int : {Interrupt}]

\* waits: the stage that holds its instruction back, with all before it, if any; a load
\* in MEM, a division or a request in EXE, an operand in ID.
Cycle(match, waits) ==
    LET msGo == waits # "MEM"
        esGo == ~ es.v \/ (msGo /\ waits # "EXE")
        dsGo == ~ ds \/ (esGo /\ waits # "ID")
    IN /\ ds' \in IF Flush THEN {FALSE} ELSE IF dsGo THEN BOOLEAN ELSE {ds}
       /\ es' \in IF Flush THEN {Bubble} ELSE IF ~ esGo THEN {es}
                  ELSE IF ds /\ dsGo THEN Decoded ELSE {Bubble}
       /\ ms' = IF Flush THEN Bubble ELSE IF ~ msGo THEN ms
                ELSE IF es.v /\ esGo THEN es ELSE Bubble
       /\ ws' = IF ms.v /\ msGo THEN [ms EXCEPT !.v = ~ Flush]
                ELSE IF Eret(ws) THEN [ws EXCEPT !.v = FALSE] ELSE Bubble
       /\ cp0' = Registers(match)
       /\ tick' = (~ Writes("compare") /\ (tick \/ match))
       /\ since' = IF Due(cp0', tick') THEN 0 ELSE IF ws.v /\ since < Long THEN since + 1 ELSE since
       /\ inside' = (Raises(ws) \/ (inside /\ ~ (ws.v /\ Eret(ws))))
       /\ fresh' = IF ws.v THEN ~ Raises(ws) /\ Eret(ws) ELSE fresh

Next ==
    \E match \in BOOLEAN, waits \in {"none", "ID", "EXE", "MEM"} :
        /\ waits = "MEM" => ms.v /\ ms.i.op = "pass" /\ ~ Raises(ms)
        /\ waits = "EXE" => es.v /\ es.i.op = "pass"
        /\ waits = "ID" => ds /\ ~ Flush
        /\ Cycle(match, waits)

Spec == Init /\ [][Next]_vars

----------------------------------------------------------------------------

Taken == ws.v /\ ws.int

\* A handler is not interrupted: EPC and Cause keep what they tell it.
NoNesting == Taken => ~ inside

\* What masks or withdraws an interrupt is obeyed: at most the three instructions
\* behind it are interrupted all the same.
NotLate == Taken => since <= 4

\* A handler that writes Compare and returns at once, as entry.S does, is not entered
\* again for the same tick: an interrupt taken right after ERET is due.
ReturnsClean == Taken /\ fresh => since = 0
----------------------------------------------------------------------------
(* The invariant that DatapathProofs shows to be inductive.                *)

Stage == [v : BOOLEAN, i : Insts, int : BOOLEAN]
One(s) == IF s.v THEN 1 ELSE 0

\* EXL is on exactly in a handler, and the stages agree with it: a marked instruction
\* was let through outside, a write of Status leaves EXL alone, ERET is of the handler
\* and nothing that flushes is before it; an ERET that is not valid finds EXL off.
StagesAgree ==
    /\ cp0.exl = inside
    /\ \A s \in {es, ms, ws} :
        /\ s.v /\ s.int => ~ cp0.exl
        /\ s.v /\ s.i.op = "status" => s.i.exl = cp0.exl
        /\ s.v /\ Eret(s) => cp0.exl
    /\ es.v /\ Eret(es) => ~ (ms.v /\ ms.i.op \in {"syscall", "eret"})
    /\ (es.v /\ Eret(es)) \/ (ms.v /\ Eret(ms)) => ~ (ws.v /\ ws.i.op \in {"syscall", "eret"})
    /\ ~ ws.v /\ Eret(ws) => ~ cp0.exl

\* The clock of the history is TI, which IP7 follows by a cycle: what ID sees was due
\* one cycle ago at most, and each instruction before a marked one counts once.
CountsKept ==
    /\ tick = cp0.ti
    /\ Due(cp0, tick) => since = 0
    /\ Interrupt => since <= 1
    /\ ws.v /\ ws.int => since <= 4
    /\ ms.v /\ ms.int => since + One(ws) <= 4
    /\ es.v /\ es.int => since + One(ms) + One(ws) <= 4

\* As long as nothing is written back after ERET, what is on stays on.
StillDue ==
    fresh =>
        /\ cp0.ip7 => cp0.ti
        /\ \A s \in {es, ms, ws} : s.v /\ s.int => Due(cp0, tick)

InterruptsInv ==
    /\ es \in Stage /\ ms \in Stage /\ ws \in Stage /\ since \in 0 .. Long /\ inside \in BOOLEAN
    /\ (~ es.v => es = Bubble) /\ (~ ms.v => ms = Bubble)
    /\ StagesAgree /\ CountsKept /\ StillDue
=============================================================================
