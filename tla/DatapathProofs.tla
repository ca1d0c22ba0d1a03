--------------------------- MODULE DatapathProofs ---------------------------
(***************************************************************************)
(* What Datapath promises of the parts of the processor, for every value   *)
(* of the constants: of the interrupts, the divider, the operands, the TLB *)
(* and the bridge to the bus, of the arithmetic on words of any width, and *)
(* of the loads and stores.                                                *)
(***************************************************************************)
EXTENDS Datapath, FiniteSetTheorems, FunctionTheorems, TLAPS

----------------------------------------------------------------------------
(* Interrupts.  The variables of the part have the names of Datapath:      *)
(* a is cp0, c, d and e are EXE, MEM and WB, f is since, g fresh, h inside *)
(* and i tick.                                                             *)

LEMMA InterruptsInit ==
    ASSUME Irq!Init PROVE Irq!InterruptsInv
<1>1. c = Irq!Bubble /\ d = Irq!Bubble /\ e = Irq!Bubble /\ f \in 0 .. Irq!Long
  BY DEF Irq!Init, Irq!Long
<1>2. Irq!Bubble \in Irq!Stage /\ ~ Irq!Bubble.v /\ ~ Irq!Eret(Irq!Bubble)
  BY DEF Irq!Bubble, Irq!Stage, Irq!Insts, Irq!Eret
<1>3. a.exl = h /\ h \in BOOLEAN /\ ~ a.exl /\ ~ a.ie /\ ~ g /\ a.ti = i
  BY DEF Irq!Init
<1>4. ~ Irq!Due(a, i) /\ ~ Irq!Interrupt
  BY <1>3 DEF Irq!Due, Irq!Interrupt
<1>5. Irq!StagesAgree
  BY <1>1, <1>2, <1>3 DEF Irq!StagesAgree
<1> QED
  BY <1>1, <1>2, <1>3, <1>4, <1>5 DEF Irq!InterruptsInv, Irq!CountsKept, Irq!StillDue

\* What is in a stage in the next cycle was in it or in the one before, or comes from ID.
LEMMA InterruptsMove ==
    ASSUME NEW match, NEW waits, Irq!Cycle(match, waits), Irq!InterruptsInv
    PROVE  /\ Irq!Flush => ~ c'.v /\ ~ d'.v /\ ~ e'.v
           /\ e'.v => d.v /\ e' = d
           /\ ~ e'.v => \/ d.v /\ Irq!Flush /\ e'.i = d.i
                        \/ Irq!Eret(e) /\ e'.i = e.i
                        \/ e' = Irq!Bubble
           /\ d'.v => \/ c.v /\ d' = c /\ (d.v <=> e'.v)
                      \/ d.v /\ d' = d /\ ~ e'.v
           /\ ~ d'.v => d' = Irq!Bubble
           /\ c'.v => \/ c.v /\ c' = c /\ (d'.v => d.v /\ d' = d /\ ~ e'.v)
                      \/ c' \in Irq!Decoded /\ (c.v => d' = c /\ (d.v <=> e'.v)) /\ (~ c.v => ~ d'.v \/ ~ e'.v)
           /\ ~ c'.v => c' = Irq!Bubble
           /\ c' \in Irq!Stage /\ d' \in Irq!Stage /\ e' \in Irq!Stage
<1>1. /\ c \in Irq!Stage /\ d \in Irq!Stage /\ e \in Irq!Stage
      /\ ~ c.v => c = Irq!Bubble
      /\ ~ d.v => d = Irq!Bubble
  BY DEF Irq!InterruptsInv
<1>2. Irq!Bubble \in Irq!Stage /\ ~ Irq!Bubble.v
  BY DEF Irq!Bubble, Irq!Stage, Irq!Insts
<1>3. \A s \in Irq!Decoded : s \in Irq!Stage /\ s.v
  BY DEF Irq!Decoded, Irq!Stage, Irq!Interrupt
<1>4. ASSUME NEW s \in Irq!Stage, NEW x \in BOOLEAN
      PROVE  [s EXCEPT !.v = x] \in Irq!Stage /\ [s EXCEPT !.v = x].v = x /\ [s EXCEPT !.v = x].i = s.i
  BY DEF Irq!Stage
<1>5. ASSUME NEW s \in Irq!Stage, s.v
      PROVE  [s EXCEPT !.v = TRUE] = s
  BY <1>5 DEF Irq!Stage
<1>6. Irq!Flush \in BOOLEAN
  BY DEF Irq!Flush, Irq!Raises
<1>7. e' \in Irq!Stage /\ (Irq!Flush => ~ e'.v) /\ (e'.v => d.v /\ e' = d)
  BY <1>1, <1>2, <1>4, <1>5, <1>6 DEF Irq!Cycle
<1>8. ~ e'.v => \/ d.v /\ Irq!Flush /\ e'.i = d.i
                \/ Irq!Eret(e) /\ e'.i = e.i
                \/ e' = Irq!Bubble
  BY <1>1, <1>2, <1>4, <1>5, <1>6 DEF Irq!Cycle
<1>9. d' \in Irq!Stage /\ (Irq!Flush => ~ d'.v) /\ (~ d'.v => d' = Irq!Bubble)
  BY <1>1, <1>2 DEF Irq!Cycle
<1>10. c' \in Irq!Stage /\ (Irq!Flush => ~ c'.v) /\ (~ c'.v => c' = Irq!Bubble)
  BY <1>1, <1>2, <1>3 DEF Irq!Cycle
<1>11. ~ Irq!Flush => (e'.v <=> d.v /\ waits # "MEM")
  BY <1>1, <1>2, <1>4, <1>5, <1>6 DEF Irq!Cycle
<1>12. d'.v => \/ c.v /\ d' = c /\ (d.v <=> e'.v)
               \/ d.v /\ d' = d /\ ~ e'.v
  BY <1>1, <1>2, <1>9, <1>11 DEF Irq!Cycle
<1>13. c'.v => \/ c.v /\ c' = c /\ (d'.v => d.v /\ d' = d /\ ~ e'.v)
               \/ c' \in Irq!Decoded /\ (c.v => d' = c /\ (d.v <=> e'.v)) /\ (~ c.v => ~ d'.v \/ ~ e'.v)
  BY <1>1, <1>2, <1>3, <1>9, <1>10, <1>11 DEF Irq!Cycle
<1> QED
  BY <1>7, <1>8, <1>9, <1>10, <1>12, <1>13

\* A decoded instruction agrees with the registers, and is marked when ID sees an interrupt.
LEMMA InterruptsDecoded ==
    ASSUME NEW s \in Irq!Decoded
    PROVE  /\ s.v /\ (s.int <=> Irq!Interrupt)
           /\ s.i.op = "status" => s.i.exl = a.exl
           /\ Irq!Eret(s) =>
                /\ a.exl
                /\ \A x \in {c, d, e} : x.v => x.i.op \notin {"syscall", "eret"}
<1>1. s.v /\ s.int = Irq!Interrupt /\ Irq!Keeps(s.i)
  BY DEF Irq!Decoded
<1>2. Irq!UnderWay[1] = c /\ Irq!UnderWay[2] = d /\ Irq!UnderWay[3] = e
  BY DEF Irq!UnderWay
<1> QED
  BY <1>1, <1>2 DEF Irq!Keeps, Irq!Eret

\* The registers in the next cycle.
LEMMA InterruptsRegisters ==
    ASSUME NEW match \in BOOLEAN, NEW waits, Irq!Cycle(match, waits), Irq!InterruptsInv
    PROVE  /\ a'.ti = i' /\ (i' <=> (~ Irq!Writes("compare") /\ (i \/ match)))
           /\ a'.exl = h' /\ h' \in BOOLEAN
           /\ a'.ip7 = a.ti
           /\ Irq!Raises(e) => a'.exl
           /\ ~ Irq!Raises(e) /\ Irq!Eret(e) => ~ a'.exl
           /\ ~ Irq!Raises(e) /\ ~ Irq!Eret(e) => a'.exl = a.exl
           /\ ~ e.v \/ (~ Irq!Raises(e) /\ e.i.op \notin {"status", "cause"}) =>
                a'.ie = a.ie /\ a'.im = a.im /\ a'.ip0 = a.ip0
           /\ f' = IF Irq!Due(a', i') THEN 0 ELSE IF e.v /\ f < Irq!Long THEN f + 1 ELSE f
           /\ g' => IF e.v THEN ~ Irq!Raises(e) /\ Irq!Eret(e) ELSE g
<1>1. /\ a' = Irq!Registers(match)
      /\ i' = (~ Irq!Writes("compare") /\ (i \/ match))
      /\ f' = IF Irq!Due(a', i') THEN 0 ELSE IF e.v /\ f < Irq!Long THEN f + 1 ELSE f
      /\ h' = (Irq!Raises(e) \/ (h /\ ~ (e.v /\ Irq!Eret(e))))
      /\ g' = IF e.v THEN ~ Irq!Raises(e) /\ Irq!Eret(e) ELSE g
  BY DEF Irq!Cycle
<1>2. /\ a.exl = h /\ i = a.ti
      /\ e.v /\ e.i.op = "status" => e.i.exl = a.exl
      /\ ~ e.v /\ Irq!Eret(e) => ~ a.exl
      /\ h \in BOOLEAN
  BY DEF Irq!InterruptsInv, Irq!StagesAgree, Irq!CountsKept
<1>3. Irq!Raises(e) => e.v
  BY DEF Irq!Raises
<1>4. a'.exl = (Irq!Raises(e) \/ (~ Irq!Eret(e) /\ IF Irq!Writes("status") THEN e.i.exl ELSE a.exl))
  BY <1>1 DEF Irq!Registers
<1>5. Irq!Writes("status") => e.i.exl = a.exl
  BY <1>2 DEF Irq!Writes
<1>6. a'.ti = (~ Irq!Writes("compare") /\ (a.ti \/ match)) /\ a'.ip7 = a.ti
  BY <1>1 DEF Irq!Registers
<1>7. a'.ti = i'
  BY <1>1, <1>2, <1>6
<1>8. /\ Irq!Raises(e) => a'.exl
      /\ ~ Irq!Raises(e) /\ Irq!Eret(e) => ~ a'.exl
      /\ ~ Irq!Raises(e) /\ ~ Irq!Eret(e) => a'.exl = a.exl
  <2>1. ASSUME Irq!Raises(e) PROVE a'.exl
    BY <2>1, <1>4
  <2>2. ASSUME ~ Irq!Raises(e), Irq!Eret(e) PROVE ~ a'.exl
    BY <2>2, <1>4
  <2>3. ASSUME ~ Irq!Raises(e), ~ Irq!Eret(e) PROVE a'.exl = a.exl
    BY <2>3, <1>4, <1>5, <1>2
  <2> QED BY <2>1, <2>2, <2>3
<1>9. a'.exl = h' /\ h' \in BOOLEAN
  BY <1>1, <1>2, <1>3, <1>4, <1>5
<1>10. ~ e.v \/ (~ Irq!Raises(e) /\ e.i.op \notin {"status", "cause"}) =>
         a'.ie = a.ie /\ a'.im = a.im /\ a'.ip0 = a.ip0
  BY <1>1 DEF Irq!Registers, Irq!Writes
<1> QED
  BY <1>1, <1>6, <1>7, <1>8, <1>9, <1>10


LEMMA InterruptsAgree ==
    ASSUME NEW match \in BOOLEAN, NEW waits, Irq!Cycle(match, waits), Irq!InterruptsInv
    PROVE  Irq!StagesAgree'
<1>1. /\ \A s \in {c, d, e} :
          /\ s.v /\ s.int => ~ a.exl
          /\ s.v /\ s.i.op = "status" => s.i.exl = a.exl
          /\ s.v /\ Irq!Eret(s) => a.exl
      /\ c.v /\ Irq!Eret(c) => ~ (d.v /\ d.i.op \in {"syscall", "eret"})
      /\ (c.v /\ Irq!Eret(c)) \/ (d.v /\ Irq!Eret(d)) => ~ (e.v /\ e.i.op \in {"syscall", "eret"})
      /\ ~ e.v /\ Irq!Eret(e) => ~ a.exl
  BY DEF Irq!InterruptsInv, Irq!StagesAgree
<1>2. a'.exl = h'
  BY InterruptsRegisters
<1>3. Irq!Flush => ~ c'.v /\ ~ d'.v /\ ~ e'.v
  BY InterruptsMove
\* Without a flush EXL stays, for an ERET that is not valid finds it off.
<1>4. ~ Irq!Flush => a'.exl = a.exl
  <2>1. SUFFICES ASSUME ~ Irq!Flush PROVE a'.exl = a.exl
    OBVIOUS
  <2>2. ~ Irq!Raises(e) /\ (Irq!Eret(e) => ~ e.v)
    BY <2>1 DEF Irq!Flush
  <2>3. h \in BOOLEAN /\ a.exl = h /\ h' \in BOOLEAN
    BY InterruptsRegisters DEF Irq!InterruptsInv, Irq!StagesAgree
  <2>4. CASE Irq!Eret(e)
    <3>1. ~ a'.exl
      BY <2>2, <2>4, InterruptsRegisters
    <3>2. ~ a.exl
      BY <2>2, <2>4, <1>1
    <3> QED BY <3>1, <3>2, <2>3, <1>2
  <2>5. CASE ~ Irq!Eret(e)
    BY <2>2, <2>5, InterruptsRegisters
  <2> QED BY <2>4, <2>5
<1>5. ASSUME NEW s \in {c', d', e'}, s.v
      PROVE  (s.int => ~ a'.exl) /\ (s.i.op = "status" => s.i.exl = a'.exl) /\ (Irq!Eret(s) => a'.exl)
  <2>1. ~ Irq!Flush
    BY <1>3, <1>5
  <2>2. s \in Irq!Decoded \/ s \in {c, d, e}
    BY <1>5, InterruptsMove
  <2>3. CASE s \in {c, d, e}
    BY <1>1, <1>4, <1>5, <2>1, <2>3
  <2>4. CASE s \in Irq!Decoded
    BY <1>4, <2>1, <2>4, InterruptsDecoded DEF Irq!Interrupt
  <2> QED BY <2>2, <2>3, <2>4
\* Before an ERET there is nothing that flushes.
<1>6. c'.v /\ Irq!Eret(c') => ~ (d'.v /\ d'.i.op \in {"syscall", "eret"})
  <2>1. SUFFICES ASSUME c'.v, Irq!Eret(c'), d'.v, d'.i.op \in {"syscall", "eret"} PROVE FALSE
    OBVIOUS
  <2>2. CASE c.v /\ c' = c /\ d.v /\ d' = d
    BY <1>1, <2>1, <2>2
  <2>3. CASE c' \in Irq!Decoded
    <3>1. \A x \in {c, d, e} : x.v => x.i.op \notin {"syscall", "eret"}
      BY <2>1, <2>3, InterruptsDecoded
    <3>2. (c.v /\ d' = c) \/ (d.v /\ d' = d)
      BY <2>1, InterruptsMove
    <3> QED BY <2>1, <3>1, <3>2
  <2> QED BY <2>1, <2>2, <2>3, InterruptsMove
<1>7. (c'.v /\ Irq!Eret(c')) \/ (d'.v /\ Irq!Eret(d')) => ~ (e'.v /\ e'.i.op \in {"syscall", "eret"})
  <2>1. SUFFICES ASSUME (c'.v /\ Irq!Eret(c')) \/ (d'.v /\ Irq!Eret(d')), e'.v, e'.i.op \in {"syscall", "eret"}
                 PROVE  FALSE
    OBVIOUS
  <2>2. d.v /\ e' = d
    BY <2>1, InterruptsMove
  <2>3. CASE d'.v /\ Irq!Eret(d')
    <3>1. c.v /\ d' = c
      BY <2>1, <2>3, InterruptsMove
    <3> QED BY <1>1, <2>1, <2>2, <2>3, <3>1
  <2>4. CASE c'.v /\ Irq!Eret(c') /\ c.v /\ c' = c
    BY <1>1, <2>1, <2>2, <2>4
  <2>5. CASE c'.v /\ Irq!Eret(c') /\ c' \in Irq!Decoded
    BY <2>1, <2>2, <2>5, InterruptsDecoded
  <2> QED BY <2>1, <2>3, <2>4, <2>5, InterruptsMove
<1>8. ~ e'.v /\ Irq!Eret(e') => ~ a'.exl
  <2>1. SUFFICES ASSUME ~ e'.v, Irq!Eret(e') PROVE ~ a'.exl
    OBVIOUS
  <2>2. ~ Irq!Eret(Irq!Bubble)
    BY DEF Irq!Bubble, Irq!Eret
  <2>3. CASE Irq!Eret(e)
    <3>1. ~ Irq!Raises(e)
      BY <1>1, <2>3 DEF Irq!Raises, Irq!Eret
    <3> QED BY <2>3, <3>1, InterruptsRegisters
  <2>4. CASE d.v /\ Irq!Flush /\ e'.i = d.i
    <3>1. Irq!Eret(d)
      BY <2>1, <2>4 DEF Irq!Eret
    <3>2. e.v /\ (e.int \/ e.i.op \in {"syscall", "eret"})
      BY <2>4 DEF Irq!Flush, Irq!Raises, Irq!Eret
    <3>3. a.exl
      BY <1>1, <2>4, <3>1
    <3> QED BY <1>1, <2>4, <3>1, <3>2, <3>3
  <2> QED BY <2>1, <2>2, <2>3, <2>4, InterruptsMove
<1> QED
  BY <1>2, <1>5, <1>6, <1>7, <1>8 DEF Irq!StagesAgree, Irq!Eret


\* IP7 follows TI by a cycle, so what ID sees was due a cycle ago; from then on each
\* instruction before the marked one counts once.
LEMMA InterruptsCount ==
    ASSUME NEW match \in BOOLEAN, NEW waits, Irq!Cycle(match, waits), Irq!InterruptsInv
    PROVE  Irq!CountsKept' /\ f' \in 0 .. Irq!Long
<1> USE DEF Irq!Long
<1>0. \A s : Irq!One(s) \in 0 .. 1 /\ (s.v => Irq!One(s) = 1) /\ (~ s.v => Irq!One(s) = 0)
  BY DEF Irq!One
<1>a. Irq!One(d) \in 0 .. 1 /\ Irq!One(e) \in 0 .. 1
  BY <1>0
<1>1. /\ i = a.ti /\ f \in 0 .. 5
      /\ Irq!Due(a, i) => f = 0
      /\ Irq!Interrupt => f <= 1
      /\ d.v /\ d.int => f + Irq!One(e) <= 4
      /\ c.v /\ c.int => f + Irq!One(d) + Irq!One(e) <= 4
  BY DEF Irq!InterruptsInv, Irq!CountsKept
<1>2. f' = IF Irq!Due(a', i') THEN 0 ELSE IF e.v /\ f < 5 THEN f + 1 ELSE f
  BY InterruptsRegisters
<1>3. f' \in 0 .. 5 /\ f' <= f + Irq!One(e) /\ (Irq!Due(a', i') => f' = 0)
  <2>1. Irq!One(e) \in 0 .. 1 /\ (e.v => Irq!One(e) = 1)
    BY <1>0
  <2>2. CASE Irq!Due(a', i')
    BY <1>1, <1>2, <2>1, <2>2
  <2>3. CASE ~ Irq!Due(a', i')
    BY <1>1, <1>2, <2>1, <2>3
  <2> QED BY <2>2, <2>3
<1>4. Irq!Interrupt' => f' <= 1
  <2>1. SUFFICES ASSUME Irq!Interrupt' PROVE f' <= 1
    OBVIOUS
  <2>2. PICK x \in a'.im : a'.ie /\ ~ a'.exl /\ IF x = "time" THEN a'.ip7 ELSE a'.ip0
    BY <2>1 DEF Irq!Interrupt, Irq!Asking
  <2>3. CASE Irq!Due(a', i')
    BY <1>3, <2>3
  <2>4. CASE ~ Irq!Due(a', i')
    <3>1. x = "time" /\ a'.ip7 /\ ~ i'
      BY <2>2, <2>4 DEF Irq!Due
    <3>2. a.ti /\ i
      BY <1>1, <3>1, InterruptsRegisters
    <3>3. Irq!Writes("compare")
      BY <3>1, <3>2, InterruptsRegisters
    <3>4. e.v /\ ~ Irq!Raises(e) /\ e.i.op = "compare" /\ ~ Irq!Eret(e)
      BY <3>3 DEF Irq!Writes, Irq!Eret
    <3>5. a.ie /\ ~ a.exl /\ x \in a.im
      BY <2>2, <3>4, InterruptsRegisters
    <3>6. Irq!Due(a, i)
      BY <3>1, <3>2, <3>5 DEF Irq!Due
    <3> QED BY <1>0, <1>1, <1>3, <3>6
  <2> QED BY <2>3, <2>4
<1>5. /\ e'.v => d.v /\ e' = d
      /\ d'.v => \/ c.v /\ d' = c /\ (d.v <=> e'.v)
                 \/ d.v /\ d' = d /\ ~ e'.v
      /\ c'.v => \/ c.v /\ c' = c /\ (d'.v => d.v /\ d' = d /\ ~ e'.v)
                 \/ c' \in Irq!Decoded /\ (c.v => d' = c /\ (d.v <=> e'.v)) /\ (~ c.v => ~ d'.v \/ ~ e'.v)
  BY InterruptsMove
<1>6. e'.v /\ e'.int => f' <= 4
  BY <1>a, <1>1, <1>3, <1>5
<1>7. d'.v /\ d'.int => f' + Irq!One(e') <= 4
  <2>1. ASSUME c.v, d' = c, d.v <=> e'.v, c.int PROVE f' + Irq!One(e') <= 4
    <3>1. Irq!One(e') = Irq!One(d)
      BY <2>1, <1>0
    <3>2. f + Irq!One(d) + Irq!One(e) <= 4
      BY <2>1, <1>1
    <3> HIDE <2>1
    <3> QED BY <1>a, <1>1, <1>3, <3>1, <3>2
  <2>2. ASSUME d.v, d' = d, ~ e'.v, d.int PROVE f' + Irq!One(e') <= 4
    <3>1. Irq!One(e') = 0 /\ f + Irq!One(e) <= 4
      BY <2>2, <1>0, <1>1
    <3>2. f' <= 4 /\ f' \in 0 .. 5
      BY <1>a, <1>1, <1>3, <3>1
    <3>3. \A x \in 0 .. 5 : x <= 4 => x + 0 <= 4
      OBVIOUS
    <3> QED BY <3>1, <3>2, <3>3
  <2> QED BY <1>5, <2>1, <2>2
<1>8. c'.v /\ c'.int => f' + Irq!One(d') + Irq!One(e') <= 4
  <2>1. SUFFICES ASSUME c'.v, c'.int PROVE f' + Irq!One(d') + Irq!One(e') <= 4
    OBVIOUS
  <2>2. CASE c.v /\ c' = c /\ (d'.v => d.v /\ d' = d /\ ~ e'.v)
    <3>1. f + Irq!One(d) + Irq!One(e) <= 4
      BY <1>1, <2>1, <2>2
    <3>2. Irq!One(d') + Irq!One(e') <= Irq!One(d)
      BY <1>0, <1>5, <2>2
    <3> QED BY <1>0, <1>1, <1>3, <3>1, <3>2
  <2>3. CASE c' \in Irq!Decoded /\ (c.v => d' = c /\ (d.v <=> e'.v)) /\ (~ c.v => ~ d'.v \/ ~ e'.v)
    <3>1. f <= 1
      BY <1>1, <2>1, <2>3, InterruptsDecoded
    <3> QED BY <1>0, <1>1, <1>3, <3>1
  <2> QED BY <1>5, <2>1, <2>2, <2>3
<1>9. i' = a'.ti
  BY InterruptsRegisters
<1> QED
  BY <1>3, <1>4, <1>6, <1>7, <1>8, <1>9 DEF Irq!CountsKept

\* Behind an ERET nothing has written the registers, and the clock stays on.
LEMMA InterruptsStill ==
    ASSUME NEW match \in BOOLEAN, NEW waits, Irq!Cycle(match, waits), Irq!InterruptsInv
    PROVE  Irq!StillDue'
<1>1. SUFFICES ASSUME g' PROVE (a'.ip7 => a'.ti) /\ \A s \in {c', d', e'} : s.v /\ s.int => Irq!Due(a', i')
  BY DEF Irq!StillDue, Irq!Due
<1>2. IF e.v THEN ~ Irq!Raises(e) /\ Irq!Eret(e) ELSE g
  BY <1>1, InterruptsRegisters
<1>3. ~ Irq!Writes("compare")
  BY <1>2 DEF Irq!Writes, Irq!Eret
<1>4. (i => i') /\ i = a.ti /\ i' = a'.ti /\ a'.ip7 = a.ti
  BY <1>3, InterruptsRegisters DEF Irq!InterruptsInv, Irq!CountsKept
<1>5. a'.ip7 => a'.ti
  BY <1>4
<1>6. ASSUME NEW s \in {c', d', e'}, s.v, s.int PROVE Irq!Due(a', i')
  <2>1. ~ e.v /\ g
    BY <1>2, <1>6, InterruptsMove DEF Irq!Flush
  <2>2. ~ Irq!Raises(e)
    BY <2>1 DEF Irq!Raises
  <2>3. Irq!Due(a, i)
    <3>1. s \in {c, d, e} \/ s \in Irq!Decoded
      BY <1>6, InterruptsMove
    <3>2. CASE s \in {c, d, e}
      BY <1>6, <2>1, <3>2 DEF Irq!InterruptsInv, Irq!StillDue
    <3>3. CASE s \in Irq!Decoded
      <4>1. Irq!Interrupt
        BY <1>6, <3>3, InterruptsDecoded
      <4>2. a.ip7 => i
        BY <1>4, <2>1 DEF Irq!InterruptsInv, Irq!StillDue
      <4> QED BY <4>1, <4>2 DEF Irq!Interrupt, Irq!Asking, Irq!Due
    <3> QED BY <3>1, <3>2, <3>3
  <2>4. a.ie /\ ~ a.exl /\ \E x \in a.im : IF x = "time" THEN i ELSE a.ip0
    BY <2>3 DEF Irq!Due
  <2>5. a'.ie /\ a'.im = a.im /\ a'.ip0 = a.ip0
    BY <2>1, <2>4, InterruptsRegisters
  <2>6. ~ a'.exl
    BY <2>2, <2>4, InterruptsRegisters
  <2> QED BY <1>4, <2>4, <2>5, <2>6 DEF Irq!Due
<1> QED
  BY <1>5, <1>6

LEMMA InterruptsStep ==
    ASSUME Irq!InterruptsInv, Irq!Next PROVE Irq!InterruptsInv'
<1>1. PICK match \in BOOLEAN, waits \in {"none", "ID", "EXE", "MEM"} : Irq!Cycle(match, waits)
  BY DEF Irq!Next
<1>2. /\ c' \in Irq!Stage /\ d' \in Irq!Stage /\ e' \in Irq!Stage /\ h' \in BOOLEAN
      /\ (~ c'.v => c' = Irq!Bubble) /\ (~ d'.v => d' = Irq!Bubble)
  BY <1>1, InterruptsMove, InterruptsRegisters
<1> QED
  BY <1>1, <1>2, InterruptsAgree, InterruptsCount, InterruptsStill DEF Irq!InterruptsInv, Irq!Stage, Irq!Insts, Irq!Long, Irq!Bubble

LEMMA InterruptsSafe ==
    ASSUME Irq!InterruptsInv PROVE Irq!NoNesting /\ Irq!NotLate /\ Irq!ReturnsClean
<1>1. Irq!StagesAgree /\ Irq!CountsKept /\ Irq!StillDue
  BY DEF Irq!InterruptsInv
<1> QED
  BY <1>1 DEF Irq!StagesAgree, Irq!CountsKept, Irq!StillDue, Irq!NoNesting, Irq!NotLate, Irq!ReturnsClean, Irq!Taken

\* A handler is not interrupted, a mask is obeyed after the three instructions under way
\* and an interrupt right after ERET is due, whatever software writes to Status.
THEOREM InterruptsRightAlways == Spec => []InterruptsRight
<1> DEFINE Inv == part = "interrupts" => Irq!InterruptsInv
<1>1. Init => Inv
  BY InterruptsInit DEF Init
<1>2. Inv /\ [Next]_vars => Inv'
  <2>1. SUFFICES ASSUME Inv, [Next]_vars, part' = "interrupts" PROVE Irq!InterruptsInv'
    OBVIOUS
  <2>2. part = "interrupts" /\ (Irq!Next \/ UNCHANGED vars)
    BY <2>1 DEF Next, InBus, vars
  <2>3. CASE Irq!Next
    BY <2>1, <2>2, <2>3, InterruptsStep
  <2>4. CASE UNCHANGED vars
    BY <2>1, <2>2, <2>4 DEF vars, fromE, fromG, fromJ, Irq!InterruptsInv, Irq!StagesAgree, Irq!CountsKept,
       Irq!StillDue, Irq!Interrupt, Irq!Asking
  <2> QED BY <2>2, <2>3, <2>4
<1>3. Inv => InterruptsRight
  BY InterruptsSafe DEF InterruptsRight
<1> QED
  BY <1>1, <1>2, <1>3, PTL DEF Spec


----------------------------------------------------------------------------
(* The divider: a is EXE, b and c are asks and success, d is taken, e      *)
(* works, f dout, g hilo, h want and i haunted.                            *)

\* Sequences of one element.
LEMMA OneLong ==
    ASSUME NEW x
    PROVE  /\ Append(<<>>, x) = <<x>> /\ <<>> \o <<x>> = <<x>> /\ <<x>> \o <<>> = <<x>> /\ <<x>> # <<>>
           /\ Head(<<x>>) = x /\ Tail(<<x>>) = <<>>
<1>1. Append(<<>>, x) = <<x>>
  OBVIOUS
<1>2. <<>> \o <<x>> = <<x>>
  OBVIOUS
<1>3. <<x>> \o <<>> = <<x>>
  OBVIOUS
<1>4. <<x>> # <<>> /\ Head(<<x>>) = x
  OBVIOUS
<1>5. Tail(<<x>>) = <<>>
  OBVIOUS
<1> QED BY <1>1, <1>2, <1>3, <1>4, <1>5

LEMMA DividerInit ==
    ASSUME Div!Init PROVE Div!DividerInv
BY DEF Div!Init, Div!DividerInv, Div!Idle, Div!Divides, Div!Channel, Div!Empty, Div!None

\* What LO and HI get is what they should.
LEMMA DividerWrites ==
    ASSUME NEW ready, NEW answers, NEW allow, NEW flush, NEW wen,
           Div!Cycle(ready, answers, allow, flush, wen), Div!DividerInv
    PROVE  g' = h'
<1>1. g = h /\ (~ i /\ Div!Divides => f \in {Div!None, <<a.pair, a.pair>>})
  BY DEF Div!DividerInv
<1>2. Div!Divides /\ Div!ReadyGo => f # Div!None
  BY DEF Div!Divides, Div!ReadyGo
<1>3. g' = IF Div!Divides /\ wen /\ f # Div!None THEN f ELSE g
  BY DEF Div!Cycle
<1>4. h' = IF ~ (Div!Divides /\ wen /\ (f # Div!None \/ (a.v /\ Div!ReadyGo /\ allow))) THEN h
           ELSE IF i THEN g' ELSE <<a.pair, a.pair>>
  BY DEF Div!Cycle
<1> QED
  BY <1>1, <1>2, <1>3, <1>4

\* A cycle with a divider that is idle, or that gives its answer, leaves it idle.
LEMMA DividerRests ==
    ASSUME NEW ready \in SUBSET b, NEW answers \in BOOLEAN, answers => e # <<>>,
           b' = Div!AsksNext(ready), c' = Div!SuccessNext(ready), Div!Divide(ready, answers),
           ready = {}, d = Div!Empty, e = <<>>, c = {} \/ f # Div!None
    PROVE  Div!Idle'
<1>1. c' = {}
  BY DEF Div!SuccessNext
<1>2. d' = Div!Empty /\ e' = <<>> /\ f' = Div!None
  <2> DEFINE now == [x \in Div!Channel |-> IF x \in ready THEN Append(d[x], a.pair) ELSE d[x]]
  <2>1. \A x \in Div!Channel : now[x] = <<>>
    BY DEF Div!Empty
  <2>2. now = Div!Empty
    BY <2>1 DEF Div!Empty
  <2>3. ~ \A x \in Div!Channel : now[x] # <<>>
    BY <2>1 DEF Div!Channel
  <2>4. d' = now /\ e' = (IF answers THEN Tail(e) ELSE e) \o <<>> /\ f' = IF answers THEN Head(e) ELSE Div!None
    BY <2>3 DEF Div!Divide
  <2> QED BY <2>2, <2>4
<1> QED
  BY <1>1, <1>2 DEF Div!Idle, Div!Empty, Div!None

\* The divider while a division waits in EXE, and nothing else is in it.
DividerBusy ==
    /\ c \subseteq Div!Channel \ b
    /\ d \in [Div!Channel -> {<<>>, <<a.pair>>}]
    /\ \A x \in Div!Channel : d[x] # <<>> => x \in c
    /\ e \in {<<>>, <<<<a.pair, a.pair>>>>} /\ f \in {Div!None, <<a.pair, a.pair>>}
    /\ e # <<>> \/ f # Div!None => c = Div!Channel /\ d = Div!Empty
    /\ f # Div!None => e = <<>>
    /\ ~ \A x \in Div!Channel : d[x] # <<>>

LEMMA DividerWorks ==
    ASSUME NEW ready \in SUBSET b, NEW answers \in BOOLEAN, answers => e # <<>>,
           b \subseteq Div!Channel, DividerBusy, a.div, f = Div!None, a' = a,
           b' = Div!AsksNext(ready), c' = Div!SuccessNext(ready), Div!Divide(ready, answers)
    PROVE  DividerBusy'
<1>1. c' = c \cup ready /\ c' \subseteq Div!Channel \ b' /\ c \subseteq c'
  BY DEF Div!AsksNext, Div!SuccessNext, DividerBusy
<1> DEFINE now == [x \in Div!Channel |-> IF x \in ready THEN Append(d[x], a.pair) ELSE d[x]]
<1>2. \A x \in Div!Channel : now[x] \in {<<>>, <<a.pair>>} /\ (now[x] # <<>> => x \in c') /\ (now[x] = d[x] \/ x \in ready)
  <2>1. ASSUME NEW x \in Div!Channel, x \in ready PROVE now[x] = <<a.pair>> /\ x \in c'
    BY <1>1, <2>1, OneLong DEF DividerBusy
  <2>2. ASSUME NEW x \in Div!Channel, x \notin ready PROVE now[x] = d[x]
    BY <2>2
  <2> QED BY <1>1, <2>1, <2>2 DEF DividerBusy
<1>3. CASE \A x \in Div!Channel : now[x] # <<>>
  <2>1. \A x \in Div!Channel : now[x] = <<a.pair>>
    BY <1>2, <1>3
  <2>2. e = <<>> /\ answers = FALSE
    BY <1>2, <2>1 DEF Div!Channel, DividerBusy, Div!Empty
  <2>3. /\ d' = [x \in Div!Channel |-> Tail(now[x])]
        /\ e' = <<>> \o <<<<Head(now["divisor"]), Head(now["dividend"])>>>>
        /\ f' = Div!None
    BY <1>3, <2>2 DEF Div!Divide
  <2>4. \A x \in Div!Channel : Tail(now[x]) = <<>>
    BY <2>1, OneLong
  <2>5. now["divisor"] = <<a.pair>> /\ now["dividend"] = <<a.pair>>
    BY <2>1 DEF Div!Channel
  <2> HIDE DEF now
  <2>6. <<<<Head(now["divisor"]), Head(now["dividend"])>>>> = <<<<a.pair, a.pair>>>>
    BY <2>5, OneLong
  <2>7. d' = Div!Empty /\ e' = <<<<a.pair, a.pair>>>>
    BY <2>3, <2>4, <2>6, OneLong DEF Div!Empty
  <2>8. c' = Div!Channel
    BY <1>1, <1>2, <1>3
  <2> QED
    BY <1>1, <2>3, <2>7, <2>8 DEF DividerBusy, Div!Channel, Div!Empty
<1>4. CASE ~ \A x \in Div!Channel : now[x] # <<>>
  <2>1. d' = now /\ f' = (IF answers THEN Head(e) ELSE Div!None) /\ e' = (IF answers THEN Tail(e) ELSE e) \o <<>>
    BY <1>4 DEF Div!Divide
  <2>2. CASE e = <<>>
    <3>1. d' = now /\ f' = Div!None /\ e' = <<>>
      BY <2>1, <2>2
    <3> QED
      BY <1>1, <1>2, <1>4, <3>1 DEF DividerBusy
  <2>3. CASE e = <<<<a.pair, a.pair>>>>
    <3>1. c' = Div!Channel /\ d' = Div!Empty
      BY <1>1, <2>1, <2>3, OneLong DEF DividerBusy, Div!Empty
    <3>2. Head(e) = <<a.pair, a.pair>> /\ Tail(e) = <<>> /\ e \o <<>> = e /\ <<>> \o <<>> = <<>>
      BY <2>3, OneLong
    <3>3. \/ e' = e /\ f' = Div!None
          \/ e' = <<>> /\ f' = <<a.pair, a.pair>>
      BY <2>1, <3>2
    <3> QED
      BY <1>1, <2>3, <3>1, <3>3 DEF DividerBusy, Div!Channel, Div!Empty
  <2> QED BY <2>2, <2>3 DEF DividerBusy
<1> QED
  BY <1>3, <1>4

LEMMA DividerStep ==
    ASSUME Div!DividerInv, Div!Next PROVE Div!DividerInv'
<1>1. PICK ready \in SUBSET b, answers \in BOOLEAN, allow \in BOOLEAN, flush \in BOOLEAN, wen \in BOOLEAN :
        (answers => e # <<>>) /\ Div!Cycle(ready, answers, allow, flush, wen)
  BY DEF Div!Next
<1>2. g' = h'
  BY <1>1, DividerWrites
<1>3. b \subseteq Div!Channel /\ (~ i /\ ~ Div!Divides => Div!Idle) /\ (~ i /\ Div!Divides => DividerBusy)
  BY DEF Div!DividerInv, DividerBusy
<1>4. b' = Div!AsksNext(ready) /\ c' = Div!SuccessNext(ready) /\ Div!Divide(ready, answers)
  BY <1>1 DEF Div!Cycle
<1>5. b' \subseteq Div!Channel
  BY <1>4 DEF Div!AsksNext
<1>6. a' \in Div!Loads(a.v /\ Div!ReadyGo /\ allow, flush)
  BY <1>1 DEF Div!Cycle
<1>7. i' = (~ Div!Idle' /\ (i \/ (Div!Divides /\ flush) \/ (~ Div!Divides /\ ready # {})))
  BY <1>1 DEF Div!Cycle
<1>8. CASE Div!Idle'
  <2>1. DividerBusy'
    BY <1>8 DEF DividerBusy, Div!Idle, Div!Empty, Div!Channel, Div!None
  <2> QED
    BY <1>2, <1>5, <1>8, <2>1 DEF Div!DividerInv, DividerBusy
<1>9. CASE ~ Div!Idle' /\ ~ i'
  <2>1. ~ i /\ ~ (Div!Divides /\ flush) /\ (Div!Divides \/ ready = {})
    BY <1>7, <1>9
  <2>2. Div!Divides
    <3>1. SUFFICES ASSUME ~ Div!Divides PROVE Div!Idle'
      BY <1>9
    <3>2. ready = {} /\ d = Div!Empty /\ e = <<>> /\ c = {}
      BY <1>3, <2>1, <3>1 DEF Div!Idle
    <3> QED BY <1>1, <1>4, <3>2, DividerRests
  <2>3. DividerBusy /\ flush = FALSE /\ a.v /\ a.div
    BY <1>3, <2>1, <2>2 DEF Div!Divides
  <2>4. f = Div!None
    <3>1. SUFFICES ASSUME f # Div!None PROVE Div!Idle'
      BY <1>9
    <3>2. d = Div!Empty /\ e = <<>> /\ ready = {}
      BY <1>3, <2>3, <3>1 DEF DividerBusy
    <3> QED BY <1>1, <1>4, <3>1, <3>2, DividerRests
  <2>5. a' = a
    BY <1>6, <2>3, <2>4 DEF Div!Loads, Div!ReadyGo
  <2>6. DividerBusy'
    BY <1>1, <1>3, <1>4, <2>3, <2>4, <2>5, DividerWorks
  <2>7. Div!Divides'
    BY <2>3, <2>5 DEF Div!Divides
  <2> QED
    BY <1>2, <1>5, <2>6, <2>7 DEF Div!DividerInv, DividerBusy
<1>10. CASE i'
  BY <1>2, <1>5, <1>10 DEF Div!DividerInv
<1> QED
  BY <1>8, <1>9, <1>10

\* LO and HI get the quotient of the operands in EXE, however long the divider takes,
\* whichever channel is taken first, whatever comes from ID and is flushed; but for a
\* divider that has taken operands of a bubble or of a flushed division and was not
\* empty since.
THEOREM QuotientsRightAlways == Spec => []QuotientsRight
<1> DEFINE Inv == part = "divider" => Div!DividerInv
<1>1. Init => Inv
  BY DividerInit DEF Init
<1>2. Inv /\ [Next]_vars => Inv'
  <2>1. SUFFICES ASSUME Inv, [Next]_vars, part' = "divider" PROVE Div!DividerInv'
    OBVIOUS
  <2>2. part = "divider" /\ (Div!Next \/ UNCHANGED vars)
    BY <2>1 DEF Next, InBus, vars
  <2>3. CASE Div!Next
    BY <2>1, <2>2, <2>3, DividerStep
  <2>4. CASE UNCHANGED vars
    BY <2>1, <2>2, <2>4 DEF vars, fromE, fromG, Div!DividerInv, Div!Idle, Div!Divides
  <2> QED BY <2>2, <2>3, <2>4
<1>3. Inv => QuotientsRight
  BY DEF QuotientsRight, Div!QuotientsRight, Div!DividerInv
<1> QED
  BY <1>1, <1>2, <1>3, PTL DEF Spec

----------------------------------------------------------------------------
(* The operands: a, b and c are EXE, MEM and WB, d is the register file, e *)
(* ideal and f taken.                                                      *)

File == [Register -> {0, 1}]

LEMMA InstsTyped ==
    ASSUME NEW x \in Fwd!Insts
    PROVE  /\ x.dest \in Register /\ x.val \in {0, 1}
           /\ x.op \in {"alu", "lw", "lwl", "lwr", "mfc0", "flush", "none"}
<1>1. 0 \in Register /\ Partial \subseteq {"lwl", "lwr"} \X Fwd!Lane
  BY DatapathAssumption DEF DatapathAssumption, Fwd!ForwardingAssumption
<1>2. CASE x \in {[op |-> q[1], dest |-> r, sel |-> q[2], val |-> v] :
                    q \in Partial, r \in Register \ {0}, v \in {0, 1}}
  BY <1>1, <1>2
<1>3. CASE x \in [op : {"alu", "lw"}, dest : Register, sel : {0}, val : {0, 1}]
                 \cup [op : {"mfc0"}, dest : Register \ {0}, sel : {0}, val : {0, 1}]
                 \cup [op : {"flush"}, dest : Register \ {0}, sel : {0}, val : {0}]
  BY <1>3
<1>4. CASE x = [op |-> "none", dest |-> 0, sel |-> 0, val |-> 0]
  BY <1>1, <1>4
<1> QED
  BY <1>2, <1>3, <1>4 DEF Fwd!Insts

\* What a stage writes to a register, and that it leaves the others alone.
LEMMA ThroughFile ==
    ASSUME NEW file \in File, NEW s, s.i \in Fwd!Insts
    PROVE  /\ Fwd!Through(file, s) \in File
           /\ \A r \in Register \ {0} :
                Fwd!Through(file, s)[r] = IF s.v /\ Watched \in Fwd!WeInMs(s.i) /\ s.i.dest = r THEN s.i.val ELSE file[r]
BY InstsTyped DEF Fwd!Through, Fwd!Written, File

\* An instruction that leaves ID finds its operands.
LEMMA OperandFound ==
    ASSUME Fwd!ForwardingInv, Fwd!Counts, NEW rs \in Register, NEW rt \in Register, NEW p,
           Fwd!DsReady(rs, rt, p), ~ Fwd!Reflush, NEW r \in {rs, rt}, NEW x \in {0, 1}
    PROVE  Fwd!Operand(r, p, x) = IF r = 0 THEN 0 ELSE e[r]
<1>1. SUFFICES ASSUME r # 0 PROVE Fwd!Operand(r, p, x) = e[r]
  BY DEF Fwd!Operand
<1>2. /\ a.i \in Fwd!Insts /\ b.i \in Fwd!Insts /\ c.i \in Fwd!Insts /\ d \in File
      /\ e = Fwd!Through(Fwd!Through(Fwd!Through(d, c), b), a)
  BY DEF Fwd!ForwardingInv, File
<1>3. Watched \in Fwd!Lane /\ r \in Register \ {0}
  BY <1>1, DatapathAssumption DEF DatapathAssumption, Fwd!ForwardingAssumption
<1> DEFINE inA == a.v /\ Watched \in Fwd!WeInMs(a.i) /\ a.i.dest = r
           inB == b.v /\ Watched \in Fwd!WeInMs(b.i) /\ b.i.dest = r
           inC == c.v /\ Watched \in Fwd!WeInMs(c.i) /\ c.i.dest = r
           early == a.v /\ Watched \in Fwd!WeInEs(a.i) /\ a.i.dest = r
<1>4. e[r] = IF inA THEN a.i.val ELSE IF inB THEN b.i.val ELSE IF inC THEN c.i.val ELSE d[r]
  <2>1. Fwd!Through(d, c) \in File /\ Fwd!Through(d, c)[r] = IF inC THEN c.i.val ELSE d[r]
    BY <1>2, <1>3, ThroughFile
  <2>2. /\ Fwd!Through(Fwd!Through(d, c), b) \in File
        /\ Fwd!Through(Fwd!Through(d, c), b)[r] = IF inB THEN b.i.val ELSE Fwd!Through(d, c)[r]
    <3>1. Fwd!Through(d, c) \in File
      BY <2>1
    <3> HIDE DEF inC
    <3> QED BY <1>2, <1>3, <3>1, ThroughFile
  <2>3. e[r] = IF inA THEN a.i.val ELSE Fwd!Through(Fwd!Through(d, c), b)[r]
    <3>1. Fwd!Through(Fwd!Through(d, c), b) \in File
      BY <2>2
    <3> HIDE DEF inB, inC
    <3> QED BY <1>2, <1>3, <3>1, ThroughFile
  <2> QED BY <2>1, <2>2, <2>3
\* In EXE a load counts as a writer of all lanes, and is waited for.
<1>5. inA => early
  BY <1>3 DEF Fwd!WeInMs, Fwd!WeInEs, Fwd!IsLoad, Fwd!Loads
<1>6. Fwd!Source(r, Watched) = IF early THEN "es" ELSE IF inB THEN "ms" ELSE IF inC THEN "ws" ELSE "rf"
  BY DEF Fwd!Source
<1>7. ASSUME NEW s, Fwd!Source(r, Watched) = s PROVE Fwd!Comes(r, s)
  BY <1>3, <1>7 DEF Fwd!Comes
<1>8. /\ ~ ((Fwd!IsLoad(a.i) \/ a.i.op = "mfc0") /\ Fwd!Comes(r, "es"))
      /\ ~ (b.i.op = "mfc0" /\ Fwd!Comes(r, "ms"))
      /\ ~ (Fwd!IsLoad(b.i) /\ ~ p.ok /\ Fwd!Comes(r, "ms"))
  BY DEF Fwd!DsReady
<1> HIDE DEF inA, inB, inC, early
<1>9. CASE early
  <2>1. Fwd!Source(r, Watched) = "es"
    BY <1>6, <1>9
  <2>2. ~ Fwd!IsLoad(a.i) /\ a.i.op # "mfc0"
    BY <1>7, <1>8, <2>1
  <2>3. a.v /\ a.i.op # "none" /\ a.i.op # "flush"
    BY <1>9 DEF early, Fwd!WeInEs, Fwd!Counts
  <2>4. a.i.op = "alu"
    BY <1>2, <2>2, <2>3, InstsTyped DEF Fwd!IsLoad, Fwd!Loads
  <2>5. inA
    BY <1>9, <2>2 DEF inA, early, Fwd!WeInMs
  <2>6. Fwd!Operand(r, p, x) = a.i.val
    BY <1>1, <2>1, <2>4 DEF Fwd!Operand, Fwd!EsData
  <2> QED BY <1>4, <2>5, <2>6
<1>10. CASE ~ early /\ inB
  <2>1. Fwd!Source(r, Watched) = "ms"
    BY <1>6, <1>10
  <2>2. b.i.op # "mfc0" /\ (Fwd!IsLoad(b.i) => p.ok)
    BY <1>7, <1>8, <2>1
  <2>3. Fwd!Operand(r, p, x) = b.i.val
    BY <1>1, <2>1, <2>2 DEF Fwd!Operand, Fwd!MsData
  <2> QED BY <1>4, <1>5, <1>10, <2>3
<1>11. CASE ~ early /\ ~ inB /\ inC
  <2>1. Fwd!Source(r, Watched) = "ws"
    BY <1>6, <1>11
  <2>2. Fwd!Operand(r, p, x) = c.i.val
    BY <1>1, <2>1 DEF Fwd!Operand
  <2> QED BY <1>4, <1>5, <1>11, <2>2
<1>12. CASE ~ early /\ ~ inB /\ ~ inC
  <2>1. Fwd!Source(r, Watched) = "rf"
    BY <1>6, <1>12
  <2>2. Fwd!Operand(r, p, x) = d[r]
    BY <1>1, <2>1 DEF Fwd!Operand
  <2> QED BY <1>4, <1>5, <1>12, <2>2
<1> QED BY <1>9, <1>10, <1>11, <1>12


\* What moves on in a cycle without a flush, and what has been written since.
LEMMA ForwardingMove ==
    ASSUME NEW p, Fwd!Cycle(p), Fwd!ForwardingInv, ~ Fwd!Reflush,
           p.go => a.v
    PROVE  /\ a'.v \in BOOLEAN /\ b'.v \in BOOLEAN /\ c'.v \in BOOLEAN
           /\ a'.i \in Fwd!Insts /\ b'.i \in Fwd!Insts /\ c'.i \in Fwd!Insts
           /\ d' = Fwd!Through(d, c)
           /\ \A s \in {a, b} : s.v => s \in {a', b', c'}
           /\ \A file \in File :
                LET before == Fwd!Through(Fwd!Through(file, c'), b')
                    after  == Fwd!Through(Fwd!Through(Fwd!Through(file, c'), b'), a')
                    old    == Fwd!Through(Fwd!Through(file, b), a)
                IN \/ after = old /\ e' = e
                   \/ a'.v /\ before = old /\ e' = IF a'.i.op = "flush" THEN e ELSE Fwd!Through(e, a')
<1>1. /\ a.v \in BOOLEAN /\ b.v \in BOOLEAN /\ c.v \in BOOLEAN
      /\ a.i \in Fwd!Insts /\ b.i \in Fwd!Insts /\ c.i \in Fwd!Insts
  BY DEF Fwd!ForwardingInv
<1>2. Fwd!Nop \in Fwd!Insts /\ Fwd!Empty.i = Fwd!Nop /\ Fwd!Empty.v = FALSE
  BY DEF Fwd!Nop, Fwd!Insts, Fwd!Empty
<1>3. ASSUME NEW file PROVE Fwd!Through(file, Fwd!Empty) = file
  BY <1>2 DEF Fwd!Through
<1>4. d' = Fwd!Through(d, c)
  BY DEF Fwd!Cycle, Fwd!Through
<1> DEFINE leaves == p.come /\ Fwd!DsReady(p.rs, p.rt, p) /\ Fwd!EsAllow(p) /\ ~ Fwd!Reflush
<1>5. PICK x \in IF leaves THEN Fwd!Insts ELSE {Fwd!Nop} :
        /\ a' = IF Fwd!EsAllow(p) THEN [v |-> leaves, i |-> x] ELSE a
        /\ e' = IF leaves /\ x.op # "flush" THEN Fwd!Written(e, x, Fwd!WeInMs(x)) ELSE e
  BY DEF Fwd!Cycle
<1>6. /\ b' = IF Fwd!MsAllow(p) THEN IF a.v /\ p.go THEN a ELSE Fwd!Empty ELSE b
      /\ c' = IF b.v /\ Fwd!MsReady(p) THEN b ELSE Fwd!Empty
  BY DEF Fwd!Cycle
<1>7. /\ Fwd!MsAllow(p) <=> (~ b.v \/ Fwd!MsReady(p))
      /\ Fwd!EsAllow(p) <=> (~ a.v \/ (p.go /\ Fwd!MsAllow(p)))
  BY DEF Fwd!MsAllow, Fwd!EsAllow
<1>8. x \in Fwd!Insts /\ leaves \in BOOLEAN /\ (leaves => Fwd!EsAllow(p))
  BY <1>2, <1>5
<1> HIDE DEF leaves
<1>9. Fwd!EsAllow(p) => a'.v = leaves /\ a'.i = x
  BY <1>5
<1>10. /\ a'.v \in BOOLEAN /\ b'.v \in BOOLEAN /\ c'.v \in BOOLEAN
       /\ a'.i \in Fwd!Insts /\ b'.i \in Fwd!Insts /\ c'.i \in Fwd!Insts
  BY <1>1, <1>2, <1>5, <1>6, <1>8, <1>9
<1>11. \A s \in {a, b} : s.v => s \in {a', b', c'}
  BY <1>5, <1>6, <1>7
<1>12. ASSUME NEW file \in File
       PROVE  LET before == Fwd!Through(Fwd!Through(file, c'), b')
                  after  == Fwd!Through(Fwd!Through(Fwd!Through(file, c'), b'), a')
                  old    == Fwd!Through(Fwd!Through(file, b), a)
              IN \/ after = old /\ e' = e
                 \/ a'.v /\ before = old /\ e' = IF a'.i.op = "flush" THEN e ELSE Fwd!Through(e, a')
  <2>1. CASE Fwd!EsAllow(p)
    <3>1. ~ a.v => Fwd!Through(Fwd!Through(file, b), a) = Fwd!Through(file, b)
      BY DEF Fwd!Through
    <3>2. Fwd!Through(Fwd!Through(file, c'), b') = Fwd!Through(Fwd!Through(file, b), a)
      <4>1. CASE Fwd!MsAllow(p)
        <5>1. Fwd!Through(file, c') = Fwd!Through(file, b)
          BY <1>3, <1>6, <1>7, <4>1 DEF Fwd!Through
        <5> QED BY <1>3, <1>6, <1>7, <2>1, <3>1, <4>1, <5>1
      <4>2. CASE ~ Fwd!MsAllow(p)
        BY <1>3, <1>6, <1>7, <2>1, <3>1, <4>2
      <4> QED BY <4>1, <4>2
    <3>3. CASE leaves
      <4>1. a'.v /\ a'.i = x
        BY <1>9, <2>1, <3>3
      <4> QED BY <1>5, <3>2, <3>3, <4>1 DEF Fwd!Through
    <3>4. CASE ~ leaves
      <4>1. ~ a'.v /\ e' = e
        BY <1>5, <1>9, <2>1, <3>4
      <4> QED BY <3>2, <4>1 DEF Fwd!Through
    <3> QED BY <3>3, <3>4
  <2>2. CASE ~ Fwd!EsAllow(p)
    <3>1. a' = a /\ e' = e /\ a.v
      BY <1>5, <1>7, <1>8, <2>2
    <3>2. Fwd!Through(Fwd!Through(file, c'), b') = Fwd!Through(file, b)
      <4>1. CASE Fwd!MsAllow(p)
        <5>1. Fwd!Through(file, c') = Fwd!Through(file, b) /\ b' = Fwd!Empty
          BY <1>3, <1>6, <1>7, <2>2, <4>1 DEF Fwd!Through
        <5> QED BY <1>3, <5>1
      <4>2. CASE ~ Fwd!MsAllow(p)
        BY <1>3, <1>6, <1>7, <4>2
      <4> QED BY <4>1, <4>2
    <3> QED BY <3>1, <3>2
  <2> QED BY <2>1, <2>2
<1> QED
  BY <1>4, <1>10, <1>11, <1>12


LEMMA ForwardingInit ==
    ASSUME Fwd!Init PROVE Fwd!ForwardingInv
<1>1. Fwd!Nop \in Fwd!Insts /\ Fwd!Empty.i = Fwd!Nop /\ Fwd!Empty.v = FALSE
  BY DEF Fwd!Nop, Fwd!Insts, Fwd!Empty
<1>2. a = Fwd!Empty /\ b = Fwd!Empty /\ c = Fwd!Empty /\ d \in File /\ e = d /\ f.got = f.want
  BY DEF Fwd!Init, File
<1>3. e = Fwd!Through(Fwd!Through(Fwd!Through(d, c), b), a)
  BY <1>1, <1>2 DEF Fwd!Through
<1> QED
  BY <1>1, <1>2, <1>3 DEF Fwd!ForwardingInv, File

LEMMA ForwardingStep ==
    ASSUME Fwd!ForwardingInv, Fwd!Next PROVE Fwd!ForwardingInv'
<1>1. PICK rs \in Register, rt \in Register, come \in BOOLEAN, go \in BOOLEAN, ok \in BOOLEAN :
        (go => a.v) /\ Fwd!Cycle([rs |-> rs, rt |-> rt, come |-> come, go |-> go, ok |-> ok])
  BY DEF Fwd!Next
<1> DEFINE p == [rs |-> rs, rt |-> rt, come |-> come, go |-> go, ok |-> ok]
<1>2. Fwd!Cycle(p) /\ (p.go => a.v) /\ p.rs = rs /\ p.rt = rt
  BY <1>1
<1> HIDE DEF p
<1>3. /\ a.i \in Fwd!Insts /\ b.i \in Fwd!Insts /\ c.i \in Fwd!Insts
      /\ d \in File /\ e \in File
      /\ Fwd!Counts => e = Fwd!Through(Fwd!Through(Fwd!Through(d, c), b), a)
  BY DEF Fwd!ForwardingInv, File
<1>4. CASE Fwd!Reflush
  <2>1. Fwd!Nop \in Fwd!Insts /\ Fwd!Empty.i = Fwd!Nop /\ Fwd!Empty.v = FALSE
    BY DEF Fwd!Nop, Fwd!Insts, Fwd!Empty
  <2>2. /\ a' = Fwd!Empty /\ b' = Fwd!Empty /\ c' = Fwd!Empty /\ d' = d /\ e' = d
        /\ f' = [got |-> 0, want |-> 0]
    BY <1>2, <1>4 DEF Fwd!Cycle
  <2>3. e' = Fwd!Through(Fwd!Through(Fwd!Through(d', c'), b'), a')
    BY <2>1, <2>2 DEF Fwd!Through
  <2> QED
    BY <1>3, <2>1, <2>2, <2>3 DEF Fwd!ForwardingInv, File
<1>5. CASE ~ Fwd!Reflush
  <2>1. /\ a'.v \in BOOLEAN /\ b'.v \in BOOLEAN /\ c'.v \in BOOLEAN
        /\ a'.i \in Fwd!Insts /\ b'.i \in Fwd!Insts /\ c'.i \in Fwd!Insts
        /\ d' = Fwd!Through(d, c)
        /\ \A s \in {a, b} : s.v => s \in {a', b', c'}
    BY <1>2, <1>5, ForwardingMove
  <2>2. d' \in File
    BY <1>3, <2>1, ThroughFile
  <2> DEFINE before == Fwd!Through(Fwd!Through(d', c'), b')
             after  == Fwd!Through(Fwd!Through(Fwd!Through(d', c'), b'), a')
             old    == Fwd!Through(Fwd!Through(d', b), a)
  <2>3. \/ after = old /\ e' = e
        \/ a'.v /\ before = old /\ e' = IF a'.i.op = "flush" THEN e ELSE Fwd!Through(e, a')
    BY <1>2, <1>5, <2>2, ForwardingMove
  <2>4. e' \in File
    BY <1>3, <2>1, <2>3, ThroughFile
  <2>5. ASSUME Fwd!Counts' PROVE e' = after /\ f'.got = f'.want
    <3>1. Fwd!Counts
      BY <1>5, <2>1, <2>5 DEF Fwd!Counts, Fwd!Reflush
    <3>2. e = old
      BY <1>3, <2>1, <3>1
    <3>3. e' = after
      <4>1. a'.v => a'.i.op # "flush"
        BY <2>5 DEF Fwd!Counts
      <4> QED BY <2>3, <3>2, <4>1
    <3>4. f'.got = f'.want
      <4> DEFINE leaves == p.come /\ Fwd!DsReady(p.rs, p.rt, p) /\ Fwd!EsAllow(p) /\ ~ Fwd!Reflush
      <4>1. f' \in IF leaves
                     THEN {[got |-> Fwd!Operand(r, p, x), want |-> IF r = 0 THEN 0 ELSE e[r]] :
                              r \in {p.rs, p.rt}, x \in {0, 1}}
                     ELSE {[got |-> 0, want |-> 0]}
        BY <1>2 DEF Fwd!Cycle
      <4>2. CASE ~ leaves
        BY <4>1, <4>2
      <4>3. CASE leaves
        <5>1. PICK r \in {rs, rt}, x \in {0, 1} :
                f' = [got |-> Fwd!Operand(r, p, x), want |-> IF r = 0 THEN 0 ELSE e[r]]
          BY <1>2, <4>1, <4>3
        <5>2. Fwd!Operand(r, p, x) = IF r = 0 THEN 0 ELSE e[r]
          BY <1>2, <1>5, <3>1, <4>3, OperandFound
        <5> QED BY <5>1, <5>2
      <4> QED BY <4>2, <4>3
    <3> QED BY <3>3, <3>4
  <2> QED
    BY <2>1, <2>2, <2>4, <2>5 DEF Fwd!ForwardingInv, File
<1> QED BY <1>4, <1>5

\* The operands that leave ID are those the instructions before it have left, whatever
\* the stages wait for, for any registers and any loads of a part of a word.
THEOREM OperandsRightAlways == Spec => []OperandsRight
<1> DEFINE Inv == part = "forwarding" => Fwd!ForwardingInv
<1>1. Init => Inv
  BY ForwardingInit DEF Init
<1>2. Inv /\ [Next]_vars => Inv'
  <2>1. SUFFICES ASSUME Inv, [Next]_vars, part' = "forwarding" PROVE Fwd!ForwardingInv'
    OBVIOUS
  <2>2. part = "forwarding" /\ (Fwd!Next \/ UNCHANGED vars)
    BY <2>1 DEF Next, InBus, vars
  <2>3. CASE Fwd!Next
    BY <2>1, <2>2, <2>3, ForwardingStep
  <2>4. CASE UNCHANGED vars
    BY <2>1, <2>2, <2>4 DEF vars, fromE, fromG, Fwd!ForwardingInv, Fwd!Counts
  <2> QED BY <2>2, <2>3, <2>4
<1>3. Inv => OperandsRight
  BY DEF OperandsRight, Fwd!OperandsRight, Fwd!ForwardingInv
<1> QED
  BY <1>1, <1>2, <1>3, PTL DEF Spec

----------------------------------------------------------------------------
(* The TLB on its way down the pipeline.  Its variables have the names of  *)
(* Datapath: a is tlb, b cp0, c to e are EXE, MEM and WB.                  *)

\* Where one entry matches, the bits of all that match are its index.
LEMMA OneCombined ==
    ASSUME NEW x \in Tlb!Entry PROVE Tlb!Combined({x}) = x
<1>1. x \in 0 .. 15
  BY DatapathAssumption DEF Tlb!TranslateAssumption, Tlb!Entry
<1> DEFINE bit(weight) == IF (x \div weight) % 2 = 1 THEN weight ELSE 0
<1>2. bit(1) + bit(2) + bit(4) + bit(8) = x
  BY <1>1
<1> QED
  BY <1>2 DEF Tlb!Combined

\* Where several match, it is the index of some entry all the same.
LEMMA SomeCombined ==
    ASSUME NEW found \in SUBSET Tlb!Entry PROVE Tlb!Combined(found) \in Tlb!Entry
<1> DEFINE has(weight) == \E x \in found : (x \div weight) % 2 = 1
           bit(weight) == IF has(weight) THEN weight ELSE 0
<1>1. NumEntries \in {1, 2, 4, 8, 16} /\ \A x \in found : x \in Nat /\ x < NumEntries
  BY DatapathAssumption DEF Tlb!TranslateAssumption, Tlb!Entry
<1>2. /\ NumEntries <= 1 => ~ has(1)
      /\ NumEntries <= 2 => ~ has(2)
      /\ NumEntries <= 4 => ~ has(4)
      /\ NumEntries <= 8 => ~ has(8)
  BY <1>1
<1>3. Tlb!Combined(found) = bit(1) + bit(2) + bit(4) + bit(8)
  BY DEF Tlb!Combined
<1> HIDE DEF has
<1> QED
  BY <1>1, <1>2, <1>3 DEF Tlb!Entry

\* What the port of tlb.v finds is an entry, and the one that matches if there is one.
LEMMA PortFinds ==
    ASSUME NEW t \in Tlb!Tlb, NEW vpn, NEW asid
    PROVE  /\ Tlb!SearchPort(t, vpn, asid) \in Tlb!Found
           /\ Tlb!OneMatch(t, vpn, asid) => Tlb!SearchPort(t, vpn, asid) = Tlb!Search(t, vpn, asid)
<1> DEFINE found == Tlb!Matches(t, vpn, asid)
<1>1. found \in SUBSET Tlb!Entry
  BY DEF Tlb!Matches, Tlb!Tlb
<1>2. CASE found = {}
  BY <1>2 DEF Tlb!SearchPort, Tlb!Search, Tlb!Found
<1>3. CASE found # {}
  <2>1. PICK y : y = Tlb!Combined(found)
    OBVIOUS
  <2>2. y \in Tlb!Entry /\ t[y].lo.frames \in 0 .. NumLo - 1
    BY <1>1, <2>1, SomeCombined DEF Tlb!Tlb, Tlb!Lo
  <2>3. Tlb!SearchPort(t, vpn, asid) = [found |-> TRUE, at |-> y, frames |-> t[y].lo.frames]
    BY <1>3, <2>1 DEF Tlb!SearchPort
  <2>4. ASSUME Tlb!OneMatch(t, vpn, asid)
        PROVE  Tlb!Search(t, vpn, asid) = [found |-> TRUE, at |-> y, frames |-> t[y].lo.frames]
    <3>1. PICK x : x \in found
      BY <1>3
    <3>2. found = {x} /\ x \in Tlb!Entry /\ x <= x
      BY <1>1, <2>4, <3>1 DEF Tlb!OneMatch, Tlb!Entry
    <3>3. y = x
      BY <2>1, <3>2, OneCombined
    <3> DEFINE lowest == CHOOSE z \in found : \A w \in found : z <= w
    <3>4. lowest = x
      BY <3>2
    <3> QED BY <1>3, <3>3, <3>4 DEF Tlb!Search
  <2> QED
    BY <2>2, <2>3, <2>4 DEF Tlb!Found
<1> QED BY <1>2, <1>3

\* The fields of an instruction that uses the TLB.
LEMMA TlbInsts ==
    ASSUME NEW x \in Tlb!Insts \cup {Tlb!Nop.i}
    PROVE  /\ x.op = "entryHi" => x.hi \in Tlb!Hi
           /\ x.op = "entryLo" => x.lo \in Tlb!Lo
           /\ x.op = "index" => x.index \in Tlb!Entry
           /\ x.op = "load" => x.vpn \in 0 .. NumVpn - 1
<1>1. CASE x = Tlb!Nop.i
  BY <1>1 DEF Tlb!Nop
<1>2. CASE x \in Tlb!Insts
  BY <1>2 DEF Tlb!Insts
<1> QED BY <1>1, <1>2

LEMMA TlbNop ==
    /\ Tlb!Nop \in Tlb!Stage /\ ~ Tlb!Nop.v /\ Tlb!Nop.v = FALSE /\ ~ Tlb!Misses(Tlb!Nop)
    /\ \A x \in Tlb!InId : x \in Tlb!Stage
<1>1. Tlb!NotFound \in Tlb!Found
  BY DEF Tlb!Found
<1>2. ASSUME NEW y \in Tlb!Insts \cup {Tlb!Nop.i}, NEW x \in BOOLEAN
      PROVE  [v |-> x, i |-> y, got |-> Tlb!NotFound, early |-> FALSE] \in Tlb!Stage
  BY <1>1 DEF Tlb!Stage
<1>3. Tlb!Nop = [v |-> FALSE, i |-> Tlb!Nop.i, got |-> Tlb!NotFound, early |-> FALSE]
  BY DEF Tlb!Nop
<1>4. Tlb!Nop \in Tlb!Stage
  BY <1>2, <1>3
<1>5. ASSUME NEW x \in [v : {TRUE}, i : Tlb!Insts, got : {Tlb!NotFound}, early : {FALSE}]
      PROVE  x \in Tlb!Stage
  BY <1>1 DEF Tlb!Stage
<1>6. Tlb!Nop.v = FALSE /\ ~ Tlb!Misses(Tlb!Nop)
  BY DEF Tlb!Nop, Tlb!Misses
<1>7. \A x \in Tlb!InId : x \in Tlb!Stage
  BY <1>4, <1>5 DEF Tlb!InId
<1> QED
  BY <1>4, <1>6, <1>7

\* A cycle from a state in which the invariant holds.
TlbCycle(allow, id) ==
    /\ Tlb!TranslateInv /\ Tlb!Cycle(allow, id)
    /\ allow \in BOOLEAN /\ id \in Tlb!InId
    /\ ~ allow => Tlb!Does(d, {"load"}) /\ ~ Tlb!Misses(d)

\* What WB makes of the registers.
LEMMA TlbWriteBack ==
    ASSUME Tlb!TranslateInv
    PROVE  /\ Tlb!WriteBack \in Tlb!Regs
           /\ ~ Tlb!Misses(e) /\ ~ Tlb!Does(e, {"entryHi", "tlbr"}) => Tlb!WriteBack.hi = b.hi
           /\ Tlb!Misses(e) => Tlb!WriteBack.hi.vpn = e.i.vpn
           /\ Tlb!Misses(e) /\ b.hi.vpn = e.i.vpn => Tlb!WriteBack.hi = b.hi
<1>1. a \in Tlb!Tlb /\ b \in Tlb!Regs /\ e \in Tlb!Stage
  BY DEF Tlb!TranslateInv
<1>2. /\ e.i.op = "entryHi" => e.i.hi \in Tlb!Hi
      /\ e.i.op = "entryLo" => e.i.lo \in Tlb!Lo
      /\ e.i.op = "index" => e.i.index \in Tlb!Entry
      /\ e.i.op = "load" => e.i.vpn \in 0 .. NumVpn - 1
  BY <1>1, TlbInsts DEF Tlb!Stage
<1>3. a[b.index].hi \in Tlb!Hi /\ a[b.index].lo \in Tlb!Lo
  BY <1>1 DEF Tlb!Tlb, Tlb!Regs
<1> USE DEF Tlb!Does
<1>4. CASE Tlb!Misses(e)
  <2>1. Tlb!WriteBack = [b EXCEPT !.hi.vpn = e.i.vpn] /\ e.i.op = "load"
    BY <1>4 DEF Tlb!WriteBack, Tlb!Misses
  <2> QED BY <1>1, <1>2, <1>4, <2>1 DEF Tlb!Regs, Tlb!Hi
<1>5. CASE ~ Tlb!Misses(e) /\ Tlb!Does(e, {"entryHi"})
  <2>1. Tlb!WriteBack = [b EXCEPT !.hi = e.i.hi]
    BY <1>5 DEF Tlb!WriteBack
  <2> QED BY <1>1, <1>2, <1>5, <2>1 DEF Tlb!Regs
<1>6. CASE ~ Tlb!Misses(e) /\ Tlb!Does(e, {"entryLo"})
  <2>1. Tlb!WriteBack = [b EXCEPT !.lo = e.i.lo]
    BY <1>6 DEF Tlb!WriteBack
  <2> QED BY <1>1, <1>2, <1>6, <2>1 DEF Tlb!Regs
<1>7. CASE ~ Tlb!Misses(e) /\ Tlb!Does(e, {"index"})
  <2>1. Tlb!WriteBack = [b EXCEPT !.index = e.i.index]
    BY <1>7 DEF Tlb!WriteBack
  <2> QED BY <1>1, <1>2, <1>7, <2>1 DEF Tlb!Regs
<1>8. CASE ~ Tlb!Misses(e) /\ Tlb!Does(e, {"tlbr"})
  <2>1. Tlb!WriteBack = [b EXCEPT !.hi = a[b.index].hi, !.lo = a[b.index].lo]
    BY <1>8 DEF Tlb!WriteBack
  <2> QED BY <1>1, <1>3, <1>8, <2>1 DEF Tlb!Regs
<1>9. CASE ~ Tlb!Misses(e) /\ ~ Tlb!Does(e, {"entryHi", "entryLo", "index", "tlbr"})
  <2>1. Tlb!WriteBack = b
    BY <1>9 DEF Tlb!WriteBack
  <2> QED BY <1>1, <1>9, <2>1
<1> QED BY <1>4, <1>5, <1>6, <1>7, <1>8, <1>9

\* What a cycle makes of the TLB and the registers.
LEMMA TlbRegisters ==
    ASSUME NEW allow, NEW id, TlbCycle(allow, id)
    PROVE  a' \in Tlb!Tlb /\ b' \in Tlb!Regs /\ b'.hi = Tlb!WriteBack.hi
<1> USE DEF TlbCycle
<1>1. a \in Tlb!Tlb /\ b \in Tlb!Regs /\ Tlb!WriteBack \in Tlb!Regs
  BY TlbWriteBack DEF Tlb!TranslateInv
<1>2. a' \in Tlb!Tlb
  BY <1>1 DEF Tlb!Cycle, Tlb!Filled, Tlb!Tlb, Tlb!Regs
<1>3. PICK found : found \in Tlb!Found /\ b' = Tlb!Probed(found)
  <2>1. Tlb!NotFound \in Tlb!Found /\ Tlb!SearchPort(a, Tlb!Page(c), b.hi.asid) \in Tlb!Found
    BY <1>1, PortFinds DEF Tlb!Found
  <2> QED BY <2>1 DEF Tlb!Cycle
<1>4. (IF found.found THEN found.at ELSE 0) \in Tlb!Entry
  <2>1. 0 \in Tlb!Entry
    BY DatapathAssumption DEF Tlb!TranslateAssumption, Tlb!Entry
  <2>2. CASE found = Tlb!NotFound
    BY <2>1, <2>2 DEF Tlb!NotFound
  <2>3. CASE found \in [found : {TRUE}, at : Tlb!Entry, frames : 0 .. NumLo - 1]
    BY <2>1, <2>3
  <2> QED BY <1>3, <2>2, <2>3 DEF Tlb!Found
<1>5. PICK x \in Tlb!Entry : b' = Tlb!WriteBack \/ b' = [Tlb!WriteBack EXCEPT !.index = x]
  BY <1>3, <1>4 DEF Tlb!Probed
<1>6. b' \in Tlb!Regs /\ b'.hi = Tlb!WriteBack.hi
  BY <1>1, <1>5 DEF Tlb!Regs
<1> QED BY <1>2, <1>6

\* What the stages hold after a cycle.
LEMMA TlbMove ==
    ASSUME NEW allow, NEW id, TlbCycle(allow, id)
    PROVE  /\ c' \in Tlb!Stage /\ d' \in Tlb!Stage /\ e' \in Tlb!Stage
           /\ Tlb!Flush(id) => ~ c'.v /\ ~ d'.v
           /\ \/ ~ d'.v
              \/ /\ ~ Tlb!Flush(id) /\ c.v /\ allow
                 /\ d'.i = c.i
                 /\ c.i.op \in Tlb!Lookups => d'.got = Tlb!SearchPort(a, Tlb!Page(c), b.hi.asid)
                 /\ d'.early = (c.i.op \in Tlb!Lookups /\ (Tlb!WroteHi(d) \/ Tlb!WroteHi(e)))
              \/ ~ Tlb!Flush(id) /\ ~ allow /\ d' = d
           /\ \/ ~ Tlb!Flush(id) /\ allow /\ d.v /\ e' = d
              \/ /\ ~ e'.v /\ (~ allow \/ ~ d.v \/ Tlb!Flush(id))
                 /\ Tlb!Misses(e') /\ ~ Tlb!Flush(id) => Tlb!Misses(e) /\ e'.i = e.i
<1> USE DEF TlbCycle
<1> DEFINE found == IF c.i.op \in Tlb!Lookups THEN Tlb!SearchPort(a, Tlb!Page(c), b.hi.asid) ELSE Tlb!NotFound
           early == c.i.op \in Tlb!Lookups /\ (Tlb!WroteHi(d) \/ Tlb!WroteHi(e))
           leaves == c.v /\ Tlb!EsReady /\ allow
<1>1. c \in Tlb!Stage /\ d \in Tlb!Stage /\ e \in Tlb!Stage /\ a \in Tlb!Tlb
  BY DEF Tlb!TranslateInv
<1>2. id \in Tlb!Stage
  BY TlbNop
<1>3. c' \in Tlb!Stage /\ (Tlb!Flush(id) => ~ c'.v)
  BY <1>1, <1>2, TlbNop DEF Tlb!Cycle
<1>4. d' = IF Tlb!Flush(id) THEN Tlb!Nop
           ELSE IF leaves THEN [c EXCEPT !.got = found, !.early = early]
           ELSE IF allow THEN Tlb!Nop ELSE d
  BY DEF Tlb!Cycle
<1>5. found \in Tlb!Found /\ early \in BOOLEAN
  BY <1>1, PortFinds DEF Tlb!Found
<1> HIDE DEF found, early
<1>6. [c EXCEPT !.got = found, !.early = early] \in Tlb!Stage
      /\ [c EXCEPT !.got = found, !.early = early].i = c.i
      /\ [c EXCEPT !.got = found, !.early = early].got = found
      /\ [c EXCEPT !.got = found, !.early = early].early = early
  BY <1>1, <1>5 DEF Tlb!Stage
<1>7. d' \in Tlb!Stage
  BY <1>1, <1>4, <1>6, TlbNop
<1>8. \A s \in Tlb!Stage : /\ Tlb!Left(s) \in Tlb!Stage /\ ~ Tlb!Left(s).v
                           /\ Tlb!Misses(Tlb!Left(s)) => Tlb!Misses(s) /\ Tlb!Left(s).i = s.i
  <2>1. ASSUME NEW s \in Tlb!Stage
        PROVE  /\ [s EXCEPT !.v = FALSE] \in Tlb!Stage /\ ~ [s EXCEPT !.v = FALSE].v
               /\ [s EXCEPT !.v = FALSE].i = s.i
    BY DEF Tlb!Stage
  <2> QED BY <2>1, TlbNop DEF Tlb!Left
<1>9. e' = IF allow /\ d.v /\ ~ Tlb!Flush(id) THEN d ELSE Tlb!Left(IF allow /\ d.v THEN d ELSE e)
  BY DEF Tlb!Cycle
<1>10. e' \in Tlb!Stage
  BY <1>1, <1>8, <1>9
<1>11. \/ ~ Tlb!Flush(id) /\ allow /\ d.v /\ e' = d
       \/ /\ ~ e'.v /\ (~ allow \/ ~ d.v \/ Tlb!Flush(id))
          /\ Tlb!Misses(e') /\ ~ Tlb!Flush(id) => Tlb!Misses(e) /\ e'.i = e.i
  BY <1>1, <1>8, <1>9
<1>12. CASE Tlb!Flush(id)
  BY <1>3, <1>4, <1>7, <1>10, <1>11, <1>12, TlbNop
<1>13. CASE ~ Tlb!Flush(id) /\ leaves
  <2>1. d'.i = c.i /\ d'.got = found /\ d'.early = early
    BY <1>4, <1>6, <1>13
  <2> QED BY <1>3, <1>7, <1>10, <1>11, <1>13, <2>1 DEF found, early
<1>14. CASE ~ Tlb!Flush(id) /\ ~ leaves
  BY <1>3, <1>4, <1>7, <1>10, <1>11, <1>14, TlbNop
<1> QED BY <1>12, <1>13, <1>14

\* While something is behind WB that is not flushed, and no MTC0 to EntryHi is in WB,
\* the TLB and EntryHi stay.
LEMMA TlbQuiet ==
    ASSUME NEW allow, NEW id, TlbCycle(allow, id),
           c.v \/ d.v, ~ Tlb!Flush(id), ~ Tlb!WroteHi(e)
    PROVE  a' = a /\ b'.hi = b.hi
<1> USE DEF TlbCycle
<1>1. b'.hi = Tlb!WriteBack.hi
  BY TlbRegisters
<1>2. ~ Tlb!Does(e, Tlb!Whole)
  BY DEF Tlb!Flush, Tlb!Refetch, Tlb!Does
<1>3. ~ Tlb!Does(e, {"tlbwi", "tlbr", "entryHi"})
  BY <1>2 DEF Tlb!Does, Tlb!Whole, Tlb!WroteHi
<1>4. a' = a
  BY <1>3 DEF Tlb!Cycle, Tlb!Filled, Tlb!Does
<1>5. Tlb!Misses(e) => b.hi.vpn = e.i.vpn
  BY DEF Tlb!TranslateInv, Tlb!Flush, Tlb!Raises
<1>6. Tlb!WriteBack.hi = b.hi
  BY <1>3, <1>5, TlbWriteBack DEF Tlb!Does
<1> QED BY <1>1, <1>4, <1>6

LEMMA TlbStep ==
    ASSUME Tlb!TranslateInv, Tlb!Next PROVE Tlb!TranslateInv'
<1>1. PICK allow \in BOOLEAN, id \in Tlb!InId : TlbCycle(allow, id)
  BY DEF Tlb!Next, TlbCycle
<1>2. /\ a' \in Tlb!Tlb /\ b' \in Tlb!Regs /\ b'.hi = Tlb!WriteBack.hi
  BY <1>1, TlbRegisters
<1>3. /\ c' \in Tlb!Stage /\ d' \in Tlb!Stage /\ e' \in Tlb!Stage
      /\ Tlb!Flush(id) => ~ c'.v /\ ~ d'.v
      /\ \/ ~ d'.v
         \/ /\ ~ Tlb!Flush(id) /\ c.v /\ allow
            /\ d'.i = c.i
            /\ c.i.op \in Tlb!Lookups => d'.got = Tlb!SearchPort(a, Tlb!Page(c), b.hi.asid)
            /\ d'.early = (c.i.op \in Tlb!Lookups /\ (Tlb!WroteHi(d) \/ Tlb!WroteHi(e)))
         \/ ~ Tlb!Flush(id) /\ ~ allow /\ d' = d
      /\ \/ ~ Tlb!Flush(id) /\ allow /\ d.v /\ e' = d
         \/ /\ ~ e'.v /\ (~ allow \/ ~ d.v \/ Tlb!Flush(id))
            /\ Tlb!Misses(e') /\ ~ Tlb!Flush(id) => Tlb!Misses(e) /\ e'.i = e.i
  BY <1>1, TlbMove
<1>4. /\ Tlb!HasFound(d) /\ Tlb!HasFound(e)
      /\ Tlb!Does(d, Tlb!Lookups) /\ ~ d.early => ~ Tlb!WroteHi(e)
  BY DEF Tlb!TranslateInv
<1>5. ASSUME Tlb!Does(d', Tlb!Lookups), ~ d'.early
      PROVE  /\ ~ Tlb!WroteHi(e')
             /\ d'.got = Tlb!SearchPort(a', IF d'.i.op = "load" THEN d'.i.vpn ELSE b'.hi.vpn, b'.hi.asid)
  <2>1. d'.v /\ d'.i.op \in Tlb!Lookups
    BY <1>5 DEF Tlb!Does
  <2>2. CASE ~ Tlb!Flush(id) /\ c.v /\ allow /\ d'.i = c.i
             /\ (c.i.op \in Tlb!Lookups => d'.got = Tlb!SearchPort(a, Tlb!Page(c), b.hi.asid))
             /\ d'.early = (c.i.op \in Tlb!Lookups /\ (Tlb!WroteHi(d) \/ Tlb!WroteHi(e)))
    <3>1. ~ Tlb!WroteHi(d) /\ ~ Tlb!WroteHi(e)
      BY <1>5, <2>1, <2>2
    <3>2. a' = a /\ b'.hi = b.hi
      BY <1>1, <2>2, <3>1, TlbQuiet
    <3>3. ~ Tlb!WroteHi(e')
      BY <1>3, <3>1 DEF Tlb!WroteHi, Tlb!Does
    <3> QED BY <2>1, <2>2, <3>2, <3>3 DEF Tlb!Page
  <2>3. CASE ~ Tlb!Flush(id) /\ ~ allow /\ d' = d
    <3>1. Tlb!Does(d, Tlb!Lookups) /\ ~ d.early
      BY <1>5, <2>3
    <3>2. a' = a /\ b'.hi = b.hi
      BY <1>1, <1>4, <2>3, <3>1, TlbQuiet DEF Tlb!Does
    <3>3. ~ Tlb!WroteHi(e')
      BY <1>3, <2>3 DEF Tlb!WroteHi, Tlb!Does
    <3>4. d.got = Tlb!SearchPort(a, Tlb!Page(d), b.hi.asid)
      BY <1>4, <3>1 DEF Tlb!HasFound
    <3> QED BY <2>3, <3>2, <3>3, <3>4 DEF Tlb!Page
  <2> QED BY <1>3, <2>1, <2>2, <2>3
<1>6. ASSUME Tlb!Does(e', Tlb!Lookups), ~ e'.early
      PROVE  e'.got = Tlb!SearchPort(a', IF e'.i.op = "load" THEN e'.i.vpn ELSE b'.hi.vpn, b'.hi.asid)
  <2>1. ~ Tlb!Flush(id) /\ allow /\ d.v /\ e' = d
    BY <1>3, <1>6 DEF Tlb!Does
  <2>2. Tlb!Does(d, Tlb!Lookups) /\ ~ d.early
    BY <1>6, <2>1
  <2>3. a' = a /\ b'.hi = b.hi
    BY <1>1, <1>4, <2>1, <2>2, TlbQuiet
  <2>4. d.got = Tlb!SearchPort(a, Tlb!Page(d), b.hi.asid)
    BY <1>4, <2>2 DEF Tlb!HasFound
  <2> QED BY <2>1, <2>3, <2>4 DEF Tlb!Page
<1>7. ASSUME ~ e'.v, Tlb!Misses(e')
      PROVE  b'.hi.vpn = e'.i.vpn \/ (~ c'.v /\ ~ d'.v)
  <2>1. CASE Tlb!Flush(id)
    BY <1>3, <2>1
  <2>2. CASE ~ Tlb!Flush(id)
    <3>1. Tlb!Misses(e) /\ e'.i = e.i
      BY <1>3, <1>7, <2>2
    <3>2. Tlb!WriteBack.hi.vpn = e.i.vpn
      BY <3>1, TlbWriteBack
    <3> QED BY <1>2, <3>1, <3>2
  <2> QED BY <2>1, <2>2
<1>8. Tlb!HasFound(d)' /\ Tlb!HasFound(e)'
  BY <1>5, <1>6 DEF Tlb!HasFound, Tlb!Page, Tlb!Does
<1>9. (Tlb!Does(d, Tlb!Lookups) /\ ~ d.early => ~ Tlb!WroteHi(e))'
  BY <1>5 DEF Tlb!Does, Tlb!WroteHi
<1>10. (~ e.v /\ Tlb!Misses(e) => b.hi.vpn = e.i.vpn \/ (~ c.v /\ ~ d.v))'
  BY <1>7 DEF Tlb!Misses
<1> QED
  BY <1>2, <1>3, <1>8, <1>9, <1>10 DEF Tlb!TranslateInv

LEMMA TlbInit ==
    ASSUME Tlb!Init PROVE Tlb!TranslateInv
<1>1. a \in Tlb!Tlb /\ c = Tlb!Nop /\ d = Tlb!Nop /\ e = Tlb!Nop
  BY DEF Tlb!Init
<1>2. b \in Tlb!Regs
  BY DatapathAssumption DEF Tlb!Init, Tlb!Regs, Tlb!Hi, Tlb!TranslateAssumption, Tlb!Entry
<1> QED
  BY <1>1, <1>2, TlbNop DEF Tlb!TranslateInv, Tlb!HasFound, Tlb!Does

\* A load or a TLBP that comes to WB has found the one entry that matches now, whatever
\* is around it in the pipeline and whatever is flushed, for a TLB of any contents; but
\* for a search with MTC0 to EntryHi in MEM or WB.
THEOREM TlbRightAlways == Spec => []TlbRight
<1> DEFINE Inv == part = "translate" => Tlb!TranslateInv
<1>1. Init => Inv
  BY TlbInit DEF Init
<1>2. Inv /\ [Next]_vars => Inv'
  <2>1. SUFFICES ASSUME Inv, [Next]_vars, part' = "translate" PROVE Tlb!TranslateInv'
    OBVIOUS
  <2>2. part = "translate" /\ (Tlb!Next \/ UNCHANGED vars)
    BY <2>1 DEF Next, InBus, vars
  <2>3. CASE Tlb!Next
    BY <2>1, <2>2, <2>3, TlbStep
  <2>4. CASE UNCHANGED vars
    <3>1. a' = a /\ b' = b /\ c' = c /\ d' = d /\ e' = e
      BY <2>4 DEF vars, fromE
    <3> QED
      BY <2>1, <2>2, <3>1 DEF Tlb!TranslateInv, Tlb!HasFound, Tlb!Does, Tlb!WroteHi, Tlb!Misses, Tlb!Page
  <2> QED BY <2>2, <2>3, <2>4
<1>3. Inv => TlbRight
  <2>1. SUFFICES ASSUME Tlb!TranslateInv PROVE Tlb!SearchRight
    BY DEF TlbRight
  <2>2. a \in Tlb!Tlb /\ Tlb!HasFound(e)
    BY <2>1 DEF Tlb!TranslateInv
  <2> QED BY <2>2, PortFinds DEF Tlb!SearchRight, Tlb!HasFound
<1> QED
  BY <1>1, <1>2, <1>3, PTL DEF Spec

----------------------------------------------------------------------------
(* The bridge to the bus.  Its variables have the names of Datapath: a to  *)
(* d are read, ar, rready and kept; e to h are wbusy, aw, w and bready; i  *)
(* and j are the ports inst and data; k is the slave, l and m are r and b, *)
(* n ideal.                                                                *)

\* What the processor and the slave see to.
BusKept == {"steady", "held", "late"} \subseteq BusPromises

\* A cycle from a state in which the invariant holds.
BusCycle(p) ==
    /\ BusKept /\ Bus!BridgeInv /\ Bus!Cycle(p)
    /\ p.ar \in BOOLEAN /\ p.aw \in BOOLEAN /\ p.w \in BOOLEAN
    /\ (p.ar => b.v) /\ (p.aw => f.v) /\ (p.w => g.v)

BusInst == [at : {"idle", "asks", "waits"}, addr : Bus!Addr \cup {Bus!NoAddr}]
BusData ==
    [at : {"idle", "asks", "waits"}, wr : BOOLEAN, addr : Bus!Addr \cup {Bus!NoAddr},
     val : Bus!Value \cup {Bus!NoVal}]

\* The ports.  A fetch that waits to be accepted keeps its address.
LEMMA InstPort ==
    ASSUME NEW p, BusCycle(p)
    PROVE  /\ i' \in BusInst /\ (i'.at # "idle" => i'.addr \in Bus!Addr)
           /\ i.at = "idle" => i'.at \in {"idle", "asks"}
           /\ i.at = "asks" /\ ~ Bus!InstAddrOk(p) => i' = i
           /\ i.at = "asks" /\ Bus!InstAddrOk(p) => i'.at = "waits" /\ i'.addr = i.addr
           /\ i.at = "waits" /\ ~ Bus!InstDataOk => i' = i
           /\ i.at = "waits" /\ Bus!InstDataOk => i'.at \in {"idle", "asks"}
<1> DEFINE asks == {[at |-> "asks", addr |-> x] : x \in Bus!Addr}
<1>1. i \in BusInst /\ (i.at # "idle" => i.addr \in Bus!Addr)
  BY DEF BusCycle, Bus!BridgeInv, Bus!Typed, Bus!TypeOK, BusInst
<1>2. \/ i.at = "idle" /\ i' \in {Bus!NoInst} \cup asks
      \/ i.at = "asks" /\ ~ Bus!InstAddrOk(p) /\ i' \in IF "steady" \in BusPromises THEN {i} ELSE asks
      \/ i.at = "asks" /\ Bus!InstAddrOk(p) /\ i' = [i EXCEPT !.at = "waits"]
      \/ i.at = "waits" /\ ~ Bus!InstDataOk /\ i' = i
      \/ i.at = "waits" /\ Bus!InstDataOk /\ i' \in {Bus!NoInst} \cup asks
  BY DEF BusCycle, Bus!Cycle, Bus!Fetching
<1>3. \A x \in asks : x \in BusInst /\ x.at = "asks" /\ x.addr \in Bus!Addr
  BY DEF BusInst
<1>4. Bus!NoInst \in BusInst /\ Bus!NoInst.at = "idle"
  BY DEF Bus!NoInst, BusInst
<1>5. "steady" \in BusPromises
  BY DEF BusCycle, BusKept
<1>6. [i EXCEPT !.at = "waits"] \in BusInst /\ [i EXCEPT !.at = "waits"].at = "waits" /\ [i EXCEPT !.at = "waits"].addr = i.addr
  BY <1>1 DEF BusInst
<1> HIDE DEF asks
<1> QED
  BY <1>1, <1>2, <1>3, <1>4, <1>5, <1>6

\* A load or store that waits to be accepted is not withdrawn; a store that is done is
\* in the memory as it should be.
LEMMA DataPort ==
    ASSUME NEW p, BusCycle(p)
    PROVE  /\ j' \in BusData
           /\ j'.at # "idle" => j'.addr \in Bus!Addr /\ (j'.wr => j'.val \in Bus!Value)
           /\ j.at = "idle" => j'.at \in {"idle", "asks"}
           /\ j.at = "asks" /\ ~ Bus!DataAddrOk(p) => j' = j
           /\ j.at = "asks" /\ Bus!DataAddrOk(p) =>
                j'.at = "waits" /\ j'.addr = j.addr /\ j'.wr = j.wr /\ j'.val = j.val
           /\ j.at = "waits" /\ ~ Bus!DataOk => j' = j
           /\ j.at = "waits" /\ Bus!DataOk => j'.at \in {"idle", "asks"}
           /\ n' = IF j.at = "waits" /\ j.wr /\ Bus!DataOk THEN [n EXCEPT ![j.addr] = j.val] ELSE n
<1> DEFINE asks == {[at |-> "asks", wr |-> FALSE, addr |-> x, val |-> Bus!NoVal] : x \in Bus!Addr}
                   \cup {[at |-> "asks", wr |-> TRUE, addr |-> x, val |-> v] : x \in Bus!Addr, v \in Bus!Value}
<1>1. j \in BusData /\ (j.at # "idle" => j.addr \in Bus!Addr /\ (j.wr => j.val \in Bus!Value))
  BY DEF BusCycle, Bus!BridgeInv, Bus!Typed, Bus!TypeOK, BusData
<1>2. \/ j.at = "idle" /\ j' \in {Bus!NoData} \cup asks
      \/ j.at = "asks" /\ ~ Bus!DataAddrOk(p) /\ j' \in {j} \cup IF "held" \in BusPromises THEN {} ELSE {Bus!NoData}
      \/ j.at = "asks" /\ Bus!DataAddrOk(p) /\ j' = [j EXCEPT !.at = "waits"]
      \/ j.at = "waits" /\ ~ Bus!DataOk /\ j' = j
      \/ j.at = "waits" /\ Bus!DataOk /\ j' \in {Bus!NoData} \cup asks
  BY DEF BusCycle, Bus!Cycle, Bus!LoadingOrStoring
<1>3. n' = IF j.at = "waits" /\ j.wr /\ Bus!DataOk THEN [n EXCEPT ![j.addr] = j.val] ELSE n
  BY DEF BusCycle, Bus!Cycle, Bus!LoadingOrStoring
<1>4. \A x \in asks : x \in BusData /\ x.at = "asks" /\ x.addr \in Bus!Addr /\ (x.wr => x.val \in Bus!Value)
  <2>1. ASSUME NEW x, NEW y \in Bus!Addr, x = [at |-> "asks", wr |-> FALSE, addr |-> y, val |-> Bus!NoVal]
        PROVE  x \in BusData /\ x.at = "asks" /\ x.addr \in Bus!Addr /\ ~ x.wr
    BY <2>1 DEF BusData
  <2>2. ASSUME NEW x, NEW y \in Bus!Addr, NEW v \in Bus!Value,
               x = [at |-> "asks", wr |-> TRUE, addr |-> y, val |-> v]
        PROVE  x \in BusData /\ x.at = "asks" /\ x.addr \in Bus!Addr /\ x.val \in Bus!Value
    BY <2>2 DEF BusData
  <2> QED BY <2>1, <2>2
<1>5. Bus!NoData \in BusData /\ Bus!NoData.at = "idle"
  BY DEF Bus!NoData, BusData
<1>6. "held" \in BusPromises
  BY DEF BusCycle, BusKept
<1> DEFINE kept == [j EXCEPT !.at = "waits"]
<1>7. kept \in BusData /\ kept.at = "waits" /\ kept.addr = j.addr /\ kept.wr = j.wr /\ kept.val = j.val
  BY <1>1 DEF BusData
<1> HIDE DEF asks, kept
<1>8. j.at = "asks" /\ Bus!DataAddrOk(p) => j' = kept
  BY <1>2 DEF kept
<1> QED
  BY <1>1, <1>2, <1>3, <1>4, <1>5, <1>6, <1>7, <1>8

\* The reads in the slave with the one that is accepted in this cycle.
BusReads(p) ==
    k.reads \cup IF b.v /\ p.ar THEN {[id |-> IF a.data THEN Bus!Load ELSE Bus!Fetch, addr |-> b.addr]} ELSE {}

BusAddrs(p) == IF f.v /\ p.aw THEN Append(k.aw, f.addr) ELSE k.aw
BusVals(p)  == IF g.v /\ p.w THEN Append(k.w, g.val) ELSE k.w

LEMMA SlaveStep ==
    ASSUME NEW p, BusCycle(p)
    PROVE  /\ l.v /\ ~ c => l' = l /\ k'.reads = BusReads(p)
           /\ ~ (l.v /\ ~ c) =>
                \/ l' = Bus!NoRead /\ k'.reads = BusReads(p)
                \/ \E q \in BusReads(p) :
                     /\ l' = [v |-> TRUE, id |-> q.id, word |-> <<q.addr, k.memory[q.addr]>>]
                     /\ k'.reads = BusReads(p) \ {q}
           /\ k' = [reads |-> k'.reads, aw |-> k'.aw, w |-> k'.w, memory |-> k'.memory]
           /\ \/ /\ m' = (m /\ ~ h)
                 /\ k'.aw = BusAddrs(p) /\ k'.w = BusVals(p) /\ k'.memory = k.memory
              \/ /\ BusAddrs(p) # <<>> /\ BusVals(p) # <<>> /\ ~ (m /\ ~ h) /\ m' = TRUE
                 /\ k'.aw = Tail(BusAddrs(p)) /\ k'.w = Tail(BusVals(p))
                 /\ k'.memory = [k.memory EXCEPT ![Head(BusAddrs(p))] = Head(BusVals(p))]
<1>1. PICK answer \in {{}} \cup {{q} : q \in BusReads(p)},
           writes \in {FALSE} \cup {BusAddrs(p) # <<>> /\ BusVals(p) # <<>>} :
        /\ l.v /\ ~ c => answer = {}
        /\ m /\ ~ h => ~ writes
        /\ l' = IF l.v /\ ~ c THEN l
                ELSE IF answer = {} THEN Bus!NoRead
                ELSE LET q == CHOOSE x \in answer : TRUE
                     IN [v |-> TRUE, id |-> q.id, word |-> <<q.addr, k.memory[q.addr]>>]
        /\ m' = (writes \/ (m /\ ~ h))
        /\ k' = [reads  |-> BusReads(p) \ answer,
                 aw     |-> IF writes THEN Tail(BusAddrs(p)) ELSE BusAddrs(p),
                 w      |-> IF writes THEN Tail(BusVals(p)) ELSE BusVals(p),
                 memory |-> IF writes THEN [k.memory EXCEPT ![Head(BusAddrs(p))] = Head(BusVals(p))]
                            ELSE k.memory]
  BY DEF BusCycle, Bus!Cycle, Bus!Slave, BusReads, BusAddrs, BusVals
<1>2. /\ k'.reads = BusReads(p) \ answer
      /\ k'.aw = IF writes THEN Tail(BusAddrs(p)) ELSE BusAddrs(p)
      /\ k'.w = IF writes THEN Tail(BusVals(p)) ELSE BusVals(p)
      /\ k'.memory = IF writes THEN [k.memory EXCEPT ![Head(BusAddrs(p))] = Head(BusVals(p))] ELSE k.memory
      /\ k' = [reads |-> k'.reads, aw |-> k'.aw, w |-> k'.w, memory |-> k'.memory]
  BY <1>1
<1>3. l.v /\ ~ c => l' = l /\ k'.reads = BusReads(p)
  BY <1>1, <1>2
<1>4. ASSUME ~ (l.v /\ ~ c)
      PROVE  \/ l' = Bus!NoRead /\ k'.reads = BusReads(p)
             \/ \E q \in BusReads(p) :
                  /\ l' = [v |-> TRUE, id |-> q.id, word |-> <<q.addr, k.memory[q.addr]>>]
                  /\ k'.reads = BusReads(p) \ {q}
  <2>1. CASE answer = {}
    BY <1>1, <1>2, <1>4, <2>1
  <2>2. CASE answer # {}
    <3>1. PICK q \in BusReads(p) : answer = {q}
      BY <1>1, <2>2
    <3>2. (CHOOSE x \in answer : TRUE) = q
      BY <3>1
    <3> QED BY <1>1, <1>2, <1>4, <2>2, <3>1, <3>2
  <2> QED BY <2>1, <2>2
<1>5. CASE writes
  BY <1>1, <1>2, <1>3, <1>4, <1>5
<1>6. CASE ~ writes
  BY <1>1, <1>2, <1>3, <1>4, <1>6
<1> QED BY <1>5, <1>6

LEMMA ReadRegisters ==
    ASSUME NEW p, BusCycle(p)
    PROVE  /\ a' \in [data : BOOLEAN, req : BOOLEAN, rps : BOOLEAN, busy : BOOLEAN]
           /\ c' \in BOOLEAN
           /\ a'.data <=> ~ p.ar /\ ~ (~ a.data /\ a.busy) /\ (a.data \/ (Bus!DataRead /\ ~ a.req))
           /\ a'.req <=> IF a.req /\ p.ar THEN FALSE ELSE a.req \/ ((a.data \/ Bus!InstReq) /\ ~ p.ar)
           /\ a'.rps <=> p.ar \/ (a.rps /\ ~ l.v)
           /\ b' = Bus!ReadAddress(p)
           /\ c' <=> a.rps \/ (c /\ ~ l.v)
           /\ d'.v <=> (l.v /\ ~ c) \/ (d.v /\ ~ a.req)
           /\ d'.word = IF l.v THEN l.word ELSE IF a.req THEN Bus!NoWord ELSE d.word
           /\ d' = [v |-> d'.v, word |-> d'.word] /\ d'.v \in BOOLEAN
<1>1. /\ a \in [data : BOOLEAN, req : BOOLEAN, rps : BOOLEAN, busy : BOOLEAN]
      /\ d.v \in BOOLEAN /\ l.v \in BOOLEAN /\ c \in BOOLEAN
      /\ p.ar \in BOOLEAN
  BY DEF BusCycle, Bus!BridgeInv, Bus!Typed, Bus!TypeOK
<1>2. /\ a' = Bus!ReadControl(p) /\ b' = Bus!ReadAddress(p) /\ c' = (a.rps \/ (c /\ ~ l.v))
      /\ d' = [v    |-> (l.v /\ ~ c) \/ (d.v /\ ~ a.req),
               word |-> IF l.v THEN l.word ELSE IF a.req THEN Bus!NoWord ELSE d.word]
  BY DEF BusCycle, Bus!Cycle, Bus!Registers
<1>3. /\ a' \in [data : BOOLEAN, req : BOOLEAN, rps : BOOLEAN, busy : BOOLEAN]
      /\ a'.data <=> ~ p.ar /\ ~ (~ a.data /\ a.busy) /\ (a.data \/ (Bus!DataRead /\ ~ a.req))
      /\ a'.req <=> IF a.req /\ p.ar THEN FALSE ELSE a.req \/ ((a.data \/ Bus!InstReq) /\ ~ p.ar)
      /\ a'.rps <=> p.ar \/ (a.rps /\ ~ l.v)
  BY <1>1, <1>2 DEF Bus!ReadControl, Bus!InstReq, Bus!DataRead
<1>4. /\ d'.v <=> (l.v /\ ~ c) \/ (d.v /\ ~ a.req)
      /\ d'.word = IF l.v THEN l.word ELSE IF a.req THEN Bus!NoWord ELSE d.word
      /\ d' = [v |-> d'.v, word |-> d'.word] /\ d'.v \in BOOLEAN
  BY <1>1, <1>2
<1>5. c' \in BOOLEAN /\ (c' <=> a.rps \/ (c /\ ~ l.v))
  BY <1>1, <1>2
<1> QED BY <1>2, <1>3, <1>4, <1>5

\* What the read address channel offers is what a port asks, and it goes on asking.
LEMMA AskedStep ==
    ASSUME NEW p, BusCycle(p) PROVE Bus!Asked'
<1>1. /\ a.data => j.at = "asks" /\ ~ j.wr
      /\ a.req /\ ~ a.data => i.at = "asks"
      /\ b.v => a.req /\ b.addr = IF a.data THEN j.addr ELSE i.addr
      /\ p.ar => b.v
  BY DEF BusCycle, Bus!BridgeInv, Bus!Asked
<1>2. /\ a'.data <=> ~ p.ar /\ ~ (~ a.data /\ a.busy) /\ (a.data \/ (Bus!DataRead /\ ~ a.req))
      /\ a'.req <=> IF a.req /\ p.ar THEN FALSE ELSE a.req \/ ((a.data \/ Bus!InstReq) /\ ~ p.ar)
      /\ b' = Bus!ReadAddress(p)
  BY ReadRegisters
<1>3. (Bus!InstAddrOk(p) <=> ~ a.data /\ p.ar) /\ (~ Bus!WriteReq => (Bus!DataAddrOk(p) <=> a.data /\ p.ar))
  BY DEF Bus!InstAddrOk, Bus!DataAddrOk
<1>4. CASE p.ar
  <2>1. ~ a'.data /\ ~ a'.req
    BY <1>1, <1>2, <1>4
  <2>2. ~ b'.v
    BY <1>2, <1>4 DEF Bus!ReadAddress
  <2> QED BY <2>1, <2>2 DEF Bus!Asked
<1>5. CASE ~ p.ar
  <2>1. i.at = "asks" => i' = i
    BY <1>3, <1>5, InstPort
  <2>2. j.at = "asks" /\ ~ j.wr => j' = j
    BY <1>3, <1>5, DataPort DEF Bus!WriteReq
  <2>3. a'.data => j.at = "asks" /\ ~ j.wr
    BY <1>1, <1>2, <1>5 DEF Bus!DataRead
  <2>4. a.data => a'.data
    BY <1>2, <1>5
  <2>5. a'.req /\ ~ a'.data => i.at = "asks"
    BY <1>1, <1>2, <1>5, <2>4 DEF Bus!InstReq
  <2>6. a.req => a'.req /\ (a'.data <=> a.data)
    BY <1>2, <1>5, <2>4
  <2>7. b'.v => a.req /\ b'.addr = IF a.data THEN j.addr ELSE i.addr
    BY <1>1, <1>2, <1>5 DEF Bus!ReadAddress
  <2>8. b'.v => a'.req /\ b'.addr = IF a'.data THEN j'.addr ELSE i'.addr
    <3>1. SUFFICES ASSUME b'.v PROVE a'.req /\ b'.addr = IF a'.data THEN j'.addr ELSE i'.addr
      OBVIOUS
    <3>2. a.req /\ b'.addr = IF a.data THEN j.addr ELSE i.addr
      BY <2>7, <3>1
    <3>3. CASE a.data
      BY <1>1, <2>2, <2>6, <3>2, <3>3
    <3>4. CASE ~ a.data
      BY <1>1, <2>1, <2>6, <3>2, <3>4
    <3> QED BY <3>3, <3>4
  <2> QED BY <2>1, <2>2, <2>3, <2>5, <2>8 DEF Bus!Asked
<1> QED BY <1>4, <1>5

\* A read that is accepted is of the port that asks.
LEMMA NewRead ==
    ASSUME NEW p, BusCycle(p), NEW q \in BusReads(p)
    PROVE  \/ q \in k.reads /\ Bus!Waited(q.id, q.addr)
           \/ /\ p.ar /\ b.v /\ q.id = (IF a.data THEN Bus!Load ELSE Bus!Fetch)
              /\ IF a.data THEN Bus!DataAddrOk(p) /\ j.at = "asks" /\ ~ j.wr /\ q.addr = j.addr
                 ELSE Bus!InstAddrOk(p) /\ i.at = "asks" /\ q.addr = i.addr
<1>1. /\ a.data => j.at = "asks" /\ ~ j.wr
      /\ a.req /\ ~ a.data => i.at = "asks"
      /\ b.v => a.req /\ b.addr = IF a.data THEN j.addr ELSE i.addr
      /\ \A x \in k.reads : Bus!Waited(x.id, x.addr)
  BY DEF BusCycle, Bus!BridgeInv, Bus!Asked, Bus!Owned
<1>2. CASE q \in k.reads
  BY <1>1, <1>2
<1>3. CASE q \notin k.reads
  <2>1. b.v /\ p.ar /\ q = [id |-> IF a.data THEN Bus!Load ELSE Bus!Fetch, addr |-> b.addr]
    BY <1>3 DEF BusReads
  <2>2. q.id = (IF a.data THEN Bus!Load ELSE Bus!Fetch) /\ q.addr = b.addr
    BY <2>1
  <2> QED BY <1>1, <2>1, <2>2 DEF Bus!InstAddrOk, Bus!DataAddrOk, Bus!WriteReq
<1> QED BY <1>2, <1>3


\* The port inst, or data, waits for what is read from addr.
Waits(id, addr, inst, data) ==
    IF id = Bus!Fetch THEN inst.at = "waits" /\ addr = inst.addr
    ELSE data.at = "waits" /\ ~ data.wr /\ addr = data.addr

\* Whoever waits goes on waiting until its answer is taken, and memory stays while a
\* load waits.
LEMMA StillWaits ==
    ASSUME NEW p, BusCycle(p), NEW id, NEW addr, Waits(id, addr, i, j), ~ (l.v /\ c /\ l.id = id),
           id \in {Bus!Fetch, Bus!Load}
    PROVE  Waits(id, addr, i', j') /\ (id = Bus!Load => j' = j /\ n' = n /\ k.memory = n)
<1> USE DEF Bus!Fetch, Bus!Load
<1>1. CASE id = Bus!Fetch
  <2>1. i.at = "waits" /\ addr = i.addr
    BY <1>1 DEF Waits
  <2>2. ~ Bus!InstDataOk
    BY <1>1 DEF Bus!InstDataOk
  <2>3. i' = i
    BY <2>1, <2>2, InstPort
  <2> QED BY <1>1, <2>1, <2>3 DEF Waits
<1>2. CASE id = Bus!Load
  <2>1. j.at = "waits" /\ ~ j.wr /\ addr = j.addr
    BY <1>2 DEF Waits
  <2>2. ~ e /\ k.memory = n
    BY <2>1 DEF BusCycle, Bus!BridgeInv, Bus!Stored, Bus!NoStore
  <2>3. ~ Bus!DataOk
    BY <1>2, <2>2 DEF Bus!DataOk
  <2>4. j' = j /\ n' = n
    BY <2>1, <2>3, DataPort
  <2> QED BY <1>2, <2>1, <2>2, <2>4 DEF Waits
<1> QED BY <1>1, <1>2

\* A read in the slave after the cycle is of a port that waits for it, and of no answer
\* at hand.
LEMMA ReadWaits ==
    ASSUME NEW p, BusCycle(p), NEW q \in BusReads(p)
    PROVE  /\ Waits(q.id, q.addr, i', j') /\ q.id \in {Bus!Fetch, Bus!Load} /\ q.addr \in Bus!Addr
           /\ l.v => q.id # l.id
           /\ q.id = Bus!Load => n' = n /\ k.memory = n
           /\ \A x \in BusReads(p) : x.id = q.id => x = q
<1> USE DEF Bus!Fetch, Bus!Load
<1>1. /\ \A x \in k.reads : x.id \in {Bus!Fetch, Bus!Load} /\ x.addr \in Bus!Addr /\ x = [id |-> x.id, addr |-> x.addr]
      /\ i.at # "idle" => i.addr \in Bus!Addr
      /\ j.at # "idle" => j.addr \in Bus!Addr
  <2>1. k.reads \in SUBSET [id : {Bus!Fetch, Bus!Load}, addr : Bus!Addr]
    BY DEF BusCycle, Bus!BridgeInv, Bus!Typed
  <2>2. (i.at # "idle" => i.addr \in Bus!Addr) /\ (j.at # "idle" => j.addr \in Bus!Addr)
    BY DEF BusCycle, Bus!BridgeInv, Bus!Typed
  <2> QED BY <2>1, <2>2
<1>2. \A x \in k.reads : Waits(x.id, x.addr, i, j) /\ (l.v => x.id # l.id)
  BY DEF BusCycle, Bus!BridgeInv, Bus!Owned, Bus!Waited, Waits
<1>3. l.v => Waits(l.id, l.word[1], i, j) /\ l.id \in {Bus!Fetch, Bus!Load}
  BY DEF BusCycle, Bus!BridgeInv, Bus!Owned, Bus!Waited, Waits, Bus!Typed, Bus!TypeOK
<1>4. \A x \in BusReads(p) : x = [id |-> x.id, addr |-> x.addr]
  BY <1>1 DEF BusReads
<1>5. \A x \in BusReads(p) : x.id = q.id => x.addr = q.addr
  <2>1. SUFFICES ASSUME NEW x \in BusReads(p), x.id = q.id PROVE x.addr = q.addr
    OBVIOUS
  <2>2. CASE x \in k.reads /\ q \in k.reads
    BY <1>2, <2>1, <2>2 DEF Waits
  <2>3. CASE x \notin k.reads \/ q \notin k.reads
    <3>1. PICK y \in {x, q} : y \notin k.reads
      BY <2>3
    <3>2. y.id = q.id /\ IF y.id = Bus!Fetch THEN i.at = "asks" ELSE j.at = "asks"
      BY <2>1, <3>1, NewRead
    <3>3. \A z \in {x, q} : ~ Waits(z.id, z.addr, i, j)
      BY <2>1, <3>2 DEF Waits
    <3>4. x \notin k.reads /\ q \notin k.reads
      BY <1>2, <3>3
    <3> QED BY <3>4 DEF BusReads
  <2> QED BY <2>2, <2>3
<1>6. \A x \in BusReads(p) : x.id = q.id => x = q
  BY <1>4, <1>5
<1>7. CASE q \in k.reads
  <2>1. Waits(q.id, q.addr, i, j) /\ (l.v => q.id # l.id) /\ q.id \in {Bus!Fetch, Bus!Load}
    BY <1>1, <1>2, <1>7
  <2> QED BY <1>1, <1>6, <1>7, <2>1, StillWaits
<1>8. CASE q \notin k.reads
  <2>1. /\ p.ar /\ b.v /\ q.id = (IF a.data THEN Bus!Load ELSE Bus!Fetch)
        /\ IF a.data THEN Bus!DataAddrOk(p) /\ j.at = "asks" /\ ~ j.wr /\ q.addr = j.addr
           ELSE Bus!InstAddrOk(p) /\ i.at = "asks" /\ q.addr = i.addr
    BY <1>8, NewRead
  <2>2. CASE a.data
    <3>1. j'.at = "waits" /\ j'.addr = j.addr /\ j'.wr = j.wr /\ n' = n
      BY <2>1, <2>2, DataPort
    <3>2. l.v => q.id # l.id
      BY <1>3, <2>1, <2>2 DEF Waits
    <3>3. k.memory = n
      BY <2>1, <2>2 DEF BusCycle, Bus!BridgeInv, Bus!Stored, Bus!NoStore
    <3> QED BY <1>1, <1>6, <2>1, <2>2, <3>1, <3>2, <3>3 DEF Waits
  <2>3. CASE ~ a.data
    <3>1. i'.at = "waits" /\ i'.addr = i.addr
      BY <2>1, <2>3, InstPort
    <3>2. l.v => q.id # l.id
      BY <1>3, <2>1, <2>3 DEF Waits
    <3> QED BY <1>1, <1>6, <2>1, <2>3, <3>1, <3>2 DEF Waits
  <2> QED BY <2>2, <2>3
<1> QED BY <1>7, <1>8

LEMMA OwnedStep ==
    ASSUME NEW p, BusCycle(p) PROVE Bus!Owned'
<1> USE DEF Bus!Fetch, Bus!Load
<1>1. SUFFICES /\ \A q \in k'.reads : Waits(q.id, q.addr, i', j') /\ (l'.v => q.id # l'.id)
               /\ l'.v => /\ Waits(l'.id, l'.word[1], i', j')
                          /\ l'.id = Bus!Load => l'.word = <<j'.addr, n'[j'.addr]>>
  BY DEF Bus!Owned, Bus!Waited, Waits
<1>2. k'.reads \subseteq BusReads(p)
  BY SlaveStep
<1>3. \A q \in k'.reads : Waits(q.id, q.addr, i', j')
  BY <1>2, ReadWaits
<1>4. CASE l.v /\ ~ c
  <2>1. l' = l
    BY <1>4, SlaveStep
  <2>2. /\ Waits(l.id, l.word[1], i, j) /\ l.id \in {Bus!Fetch, Bus!Load}
        /\ l.id = Bus!Load => l.word = <<j.addr, n[j.addr]>>
    BY <1>4 DEF BusCycle, Bus!BridgeInv, Bus!Owned, Bus!Waited, Waits, Bus!Typed, Bus!TypeOK
  <2>3. PICK id, addr : id = l.id /\ addr = l.word[1]
    OBVIOUS
  <2>4. Waits(id, addr, i', j') /\ (id = Bus!Load => j' = j /\ n' = n)
    BY <1>4, <2>2, <2>3, StillWaits
  <2>5. \A q \in k'.reads : q.id # l'.id
    BY <1>2, <1>4, <2>1, ReadWaits
  <2> QED BY <1>3, <2>1, <2>2, <2>3, <2>4, <2>5
<1>5. CASE ~ (l.v /\ ~ c)
  <2>1. CASE l' = Bus!NoRead /\ k'.reads = BusReads(p)
    BY <1>3, <2>1 DEF Bus!NoRead
  <2>2. ASSUME NEW q \in BusReads(p),
               l' = [v |-> TRUE, id |-> q.id, word |-> <<q.addr, k.memory[q.addr]>>],
               k'.reads = BusReads(p) \ {q}
        PROVE  /\ \A x \in k'.reads : l'.v => x.id # l'.id
               /\ l'.v => /\ Waits(l'.id, l'.word[1], i', j')
                          /\ l'.id = Bus!Load => l'.word = <<j'.addr, n'[j'.addr]>>
    <3>1. l'.v = TRUE /\ l'.id = q.id /\ l'.word[1] = q.addr /\ l'.word = <<q.addr, k.memory[q.addr]>>
      BY <2>2
    <3>2. /\ Waits(q.id, q.addr, i', j') /\ (q.id = Bus!Load => n' = n /\ k.memory = n)
          /\ \A x \in BusReads(p) : x.id = q.id => x = q
      BY <2>2, ReadWaits
    <3>3. q.id = Bus!Load => q.addr = j'.addr
      BY <3>2 DEF Waits
    <3> QED BY <2>2, <3>1, <3>2, <3>3
  <2> QED BY <1>3, <1>5, <2>1, <2>2, SlaveStep
<1> QED BY <1>4, <1>5


LEMMA AwaitedStep ==
    ASSUME NEW p, BusCycle(p) PROVE Bus!Awaited'
<1>1. /\ k.reads # {} /\ ~ a.rps => c
      /\ Bus!Two => a.rps /\ c
      /\ l.v /\ ~ c => a.rps /\ ~ a.req /\ k.reads = {}
      /\ d.v => k.reads = {} /\ (l.v => d.word = l.word)
      /\ p.ar => a.req
  BY DEF BusCycle, Bus!BridgeInv, Bus!Awaited, Bus!Asked
<1>2. /\ a'.req <=> IF a.req /\ p.ar THEN FALSE ELSE a.req \/ ((a.data \/ Bus!InstReq) /\ ~ p.ar)
      /\ a'.rps <=> p.ar \/ (a.rps /\ ~ l.v)
      /\ c' <=> a.rps \/ (c /\ ~ l.v)
      /\ d'.v <=> (l.v /\ ~ c) \/ (d.v /\ ~ a.req)
      /\ d'.word = IF l.v THEN l.word ELSE IF a.req THEN Bus!NoWord ELSE d.word
  BY ReadRegisters
<1>3. k'.reads \subseteq BusReads(p) /\ (~ p.ar => BusReads(p) = k.reads)
  BY SlaveStep DEF BusReads
<1>4. \/ l.v /\ ~ c /\ l' = l /\ k'.reads = BusReads(p)
      \/ ~ (l.v /\ ~ c) /\ ~ l'.v /\ k'.reads = BusReads(p)
      \/ ~ (l.v /\ ~ c) /\ \E q \in BusReads(p) : k'.reads = BusReads(p) \ {q}
  <2>1. ~ Bus!NoRead.v
    BY DEF Bus!NoRead
  <2> QED BY <2>1, SlaveStep
<1>5. l.v /\ ~ c => ~ p.ar /\ k'.reads = {} /\ l' = l
  BY <1>1, <1>3, <1>4
\* Two reads in the slave leave no third port for the answer.
<1>6. ASSUME NEW x \in k.reads, NEW y \in k.reads, x # y PROVE ~ l.v /\ a.rps /\ c
  <2>1. x \in BusReads(p) /\ y \in BusReads(p)
    BY DEF BusReads
  <2>2. x.id # y.id /\ x.id \in {Bus!Fetch, Bus!Load} /\ y.id \in {Bus!Fetch, Bus!Load}
    BY <1>6, <2>1, ReadWaits
  <2>3. l.v => x.id # l.id /\ y.id # l.id
    BY <2>1, ReadWaits
  <2>4. l.id \in {Bus!Fetch, Bus!Load}
    BY DEF BusCycle, Bus!BridgeInv, Bus!Typed, Bus!TypeOK
  <2> QED BY <1>1, <1>6, <2>2, <2>3, <2>4 DEF Bus!Two
<1>7. k.reads # {} /\ l.v => a.rps
  BY <1>1 DEF Bus!Two
<1>8. k'.reads # {} /\ ~ a'.rps => c'
  BY <1>1, <1>2, <1>3, <1>7
<1>9. Bus!Two' => a'.rps /\ c'
  <2>1. SUFFICES ASSUME Bus!Two' PROVE a'.rps /\ c'
    OBVIOUS
  <2>2. PICK x \in BusReads(p), y \in BusReads(p) : x # y
    BY <1>3, <1>4, <1>5, <2>1 DEF Bus!Two
  <2>3. CASE ~ p.ar
    BY <1>2, <1>3, <1>6, <2>2, <2>3
  <2>4. CASE p.ar
    <3>1. k.reads # {}
      BY <2>2 DEF BusReads
    <3> QED BY <1>1, <1>2, <1>7, <2>4, <3>1
  <2> QED BY <2>3, <2>4
<1>10. l'.v /\ ~ c' => a'.rps /\ ~ a'.req /\ k'.reads = {}
  <2>1. SUFFICES ASSUME l'.v, ~ c' PROVE a'.rps /\ ~ a'.req /\ k'.reads = {}
    OBVIOUS
  <2>2. ~ (l.v /\ ~ c) /\ k.reads = {}
    BY <1>1, <1>2, <1>7, <2>1
  <2>3. PICK q \in BusReads(p) : k'.reads = BusReads(p) \ {q}
    BY <1>4, <2>1, <2>2
  <2>4. p.ar
    BY <1>3, <2>2, <2>3
  <2>5. k'.reads = {}
    BY <2>2, <2>3 DEF BusReads
  <2> QED BY <1>1, <1>2, <2>4, <2>5
<1>11. d'.v => k'.reads = {} /\ (l'.v => d'.word = l'.word)
  <2>1. CASE l.v /\ ~ c
    BY <1>2, <1>5, <2>1
  <2>2. CASE ~ (l.v /\ ~ c)
    <3>1. SUFFICES ASSUME d'.v PROVE k'.reads = {} /\ ~ l'.v
      OBVIOUS
    <3>2. d.v /\ ~ a.req /\ ~ p.ar /\ k.reads = {}
      BY <1>1, <1>2, <2>2, <3>1
    <3> QED BY <1>3, <1>4, <2>2, <3>2
  <2> QED BY <2>1, <2>2
<1> QED
  BY <1>8, <1>9, <1>10, <1>11 DEF Bus!Awaited


\* The write channels and the registers of the answer.
LEMMA WriteRegisters ==
    ASSUME NEW p, BusCycle(p)
    PROVE  LET A == Bus!AwReadyBuf(p)
               W == Bus!WReadyBuf(p)
           IN /\ A => ~ f'.v /\ (f'.done <=> ~ W)
              /\ ~ A /\ Bus!WriteReq => f'.v /\ f'.addr = j.addr /\ ~ f'.done
              /\ ~ A /\ ~ Bus!WriteReq => (f'.v <=> f.v) /\ ~ f'.done
              /\ W => ~ g'.v /\ (g'.done <=> ~ A)
              /\ ~ W /\ Bus!WriteReq => g'.v /\ g'.val = j.val /\ ~ g'.done
              /\ ~ W /\ ~ Bus!WriteReq => (g'.v <=> g.v) /\ ~ g'.done
              /\ e' <=> Bus!WriteReq \/ (e /\ ~ (m /\ h))
              /\ h' <=> ~ m /\ (Bus!WriteReq \/ h)
              /\ f' \in [v : BOOLEAN, addr : Bus!Addr \cup {Bus!NoAddr}, done : BOOLEAN]
              /\ g' \in [v : BOOLEAN, val : Bus!Value \cup {Bus!NoVal}, done : BOOLEAN]
              /\ e' \in BOOLEAN /\ h' \in BOOLEAN
<1> DEFINE A == Bus!AwReadyBuf(p)
           W == Bus!WReadyBuf(p)
<1>1. /\ f \in [v : BOOLEAN, addr : Bus!Addr \cup {Bus!NoAddr}, done : BOOLEAN]
      /\ g \in [v : BOOLEAN, val : Bus!Value \cup {Bus!NoVal}, done : BOOLEAN]
      /\ e \in BOOLEAN /\ h \in BOOLEAN /\ m \in BOOLEAN
      /\ j.addr \in Bus!Addr \cup {Bus!NoAddr} /\ j.val \in Bus!Value \cup {Bus!NoVal}
  BY DEF BusCycle, Bus!BridgeInv, Bus!Typed, Bus!TypeOK
<1>2. A \in BOOLEAN /\ W \in BOOLEAN /\ Bus!WriteReq \in BOOLEAN
  BY DEF Bus!AwReadyBuf, Bus!WReadyBuf, Bus!WriteReq
<1>3. /\ f' = [(IF A THEN [v |-> FALSE, addr |-> Bus!NoAddr, done |-> FALSE]
                ELSE IF Bus!WriteReq THEN [v |-> TRUE, addr |-> j.addr, done |-> FALSE]
                ELSE f) EXCEPT !.done = A /\ ~ (A /\ W)]
      /\ g' = [(IF W THEN [v |-> FALSE, val |-> Bus!NoVal, done |-> FALSE]
                ELSE IF Bus!WriteReq THEN [v |-> TRUE, val |-> j.val, done |-> FALSE]
                ELSE g) EXCEPT !.done = W /\ ~ (A /\ W)]
      /\ e' = (Bus!WriteReq \/ (e /\ ~ (m /\ h)))
      /\ h' = (~ m /\ (Bus!WriteReq \/ h))
  BY DEF BusCycle, Bus!Cycle, Bus!Registers, Bus!WriteChannels, Bus!Channel
<1> HIDE DEF A, W
<1>4. /\ A => ~ f'.v /\ (f'.done <=> ~ W)
      /\ ~ A /\ Bus!WriteReq => f'.v /\ f'.addr = j.addr /\ ~ f'.done
      /\ ~ A /\ ~ Bus!WriteReq => (f'.v <=> f.v) /\ ~ f'.done
      /\ f' \in [v : BOOLEAN, addr : Bus!Addr \cup {Bus!NoAddr}, done : BOOLEAN]
  BY <1>1, <1>2, <1>3
<1>5. /\ W => ~ g'.v /\ (g'.done <=> ~ A)
      /\ ~ W /\ Bus!WriteReq => g'.v /\ g'.val = j.val /\ ~ g'.done
      /\ ~ W /\ ~ Bus!WriteReq => (g'.v <=> g.v) /\ ~ g'.done
      /\ g' \in [v : BOOLEAN, val : Bus!Value \cup {Bus!NoVal}, done : BOOLEAN]
  BY <1>1, <1>2, <1>3
<1>6. /\ e' <=> Bus!WriteReq \/ (e /\ ~ (m /\ h))
      /\ h' <=> ~ m /\ (Bus!WriteReq \/ h)
      /\ e' \in BOOLEAN /\ h' \in BOOLEAN
  BY <1>1, <1>2, <1>3
<1> QED BY <1>4, <1>5, <1>6 DEF A, W

LEMMA SingleElement ==
    ASSUME NEW x
    PROVE  Append(<<>>, x) = <<x>> /\ Head(<<x>>) = x /\ Tail(<<x>>) = <<>> /\ <<x>> # <<>>
<1>1. Append(<<>>, x) = <<x>>
  OBVIOUS
<1>2. Tail(<<x>>) = <<>>
  OBVIOUS
<1> QED BY <1>1, <1>2

\* With both halves of a store the slave writes it, or keeps them.
LEMMA LandsStep ==
    ASSUME NEW p, BusCycle(p), ~ m, BusAddrs(p) = <<j.addr>>, BusVals(p) = <<j.val>>
    PROVE  \/ ~ m' /\ k'.aw = <<j.addr>> /\ k'.w = <<j.val>> /\ k'.memory = k.memory
           \/ m' /\ k'.aw = <<>> /\ k'.w = <<>> /\ k'.memory = [k.memory EXCEPT ![j.addr] = j.val]
<1>1. CASE m' = (m /\ ~ h) /\ k'.aw = BusAddrs(p) /\ k'.w = BusVals(p) /\ k'.memory = k.memory
  BY <1>1
<1>2. CASE /\ m' = TRUE
           /\ k'.aw = Tail(BusAddrs(p)) /\ k'.w = Tail(BusVals(p))
           /\ k'.memory = [k.memory EXCEPT ![Head(BusAddrs(p))] = Head(BusVals(p))]
  <2>1. Tail(BusAddrs(p)) = <<>> /\ Head(BusAddrs(p)) = j.addr
    BY SingleElement
  <2>2. Tail(BusVals(p)) = <<>> /\ Head(BusVals(p)) = j.val
    BY SingleElement
  <2> QED BY <1>2, <2>1, <2>2
<1> QED BY <1>1, <1>2, SlaveStep

\* While a store asks, a half that was taken is in the slave and no more.
LEMMA HalvesStep ==
    ASSUME NEW p, BusCycle(p), j.at = "asks", j.wr PROVE Bus!Stored'
<1> DEFINE A == Bus!AwReadyBuf(p)
           W == Bus!WReadyBuf(p)
<1>1. /\ f.v => ~ f.done /\ f.addr = j.addr
      /\ g.v => ~ g.done /\ g.val = j.val
      /\ k.aw = IF f.done THEN <<j.addr>> ELSE <<>>
      /\ k.w = IF g.done THEN <<j.val>> ELSE <<>>
      /\ ~ m /\ k.memory = n
      /\ (p.aw => f.v) /\ (p.w => g.v)
  BY DEF BusCycle, Bus!BridgeInv, Bus!Stored, Bus!Halves
<1>2. (A <=> f.done \/ p.aw) /\ (W <=> g.done \/ p.w) /\ Bus!WriteReq
  BY DEF Bus!AwReadyBuf, Bus!WReadyBuf, Bus!WriteReq
<1>3. Bus!DataAddrOk(p) <=> A /\ W
  BY <1>2 DEF Bus!DataAddrOk
<1>4. BusAddrs(p) = IF A THEN <<j.addr>> ELSE <<>>
  BY <1>1, <1>2, SingleElement DEF BusAddrs
<1>5. BusVals(p) = IF W THEN <<j.val>> ELSE <<>>
  BY <1>1, <1>2, SingleElement DEF BusVals
<1>6. /\ A => ~ f'.v /\ (f'.done <=> ~ W)
      /\ ~ A => f'.v /\ f'.addr = j.addr /\ ~ f'.done
      /\ W => ~ g'.v /\ (g'.done <=> ~ A)
      /\ ~ W => g'.v /\ g'.val = j.val /\ ~ g'.done
      /\ e' /\ h'
  BY <1>1, <1>2, WriteRegisters
<1>7. n' = n
  BY DataPort
<1> HIDE DEF A, W
<1>8. CASE A /\ W
  <2>1. j'.at = "waits" /\ j'.addr = j.addr /\ j'.wr = j.wr /\ j'.val = j.val
    BY <1>3, <1>8, DataPort
  <2>2. \/ ~ m' /\ k'.aw = <<j.addr>> /\ k'.w = <<j.val>> /\ k'.memory = k.memory
        \/ m' /\ k'.aw = <<>> /\ k'.w = <<>> /\ k'.memory = [k.memory EXCEPT ![j.addr] = j.val]
    <3>1. BusAddrs(p) = <<j.addr>> /\ BusVals(p) = <<j.val>>
      BY <1>4, <1>5, <1>8
    <3> QED BY <1>1, <3>1, LandsStep
  <2>3. Bus!Meeting'
    BY <1>1, <1>6, <1>7, <1>8, <2>1, <2>2 DEF Bus!Meeting
  <2> QED BY <2>1, <2>3 DEF Bus!Stored
<1>9. CASE ~ (A /\ W)
  <2>1. j' = j
    BY <1>3, <1>9, DataPort
  <2>2. ~ m' /\ k'.aw = BusAddrs(p) /\ k'.w = BusVals(p) /\ k'.memory = k.memory
    BY <1>1, <1>4, <1>5, <1>9, SlaveStep
  <2>3. Bus!Halves'
    BY <1>1, <1>4, <1>5, <1>6, <1>7, <1>9, <2>1, <2>2 DEF Bus!Halves
  <2> QED BY <2>1, <2>3 DEF Bus!Stored
<1> QED BY <1>8, <1>9

\* No channel offers anything, so none is ready, and nothing new comes to the slave.
LEMMA Quiet ==
    ASSUME NEW p, BusCycle(p), ~ Bus!WriteReq, ~ f.v, ~ f.done, ~ g.v, ~ g.done
    PROVE  /\ ~ f'.v /\ ~ f'.done /\ ~ g'.v /\ ~ g'.done
           /\ BusAddrs(p) = k.aw /\ BusVals(p) = k.w
           /\ e' <=> (e /\ ~ (m /\ h))
           /\ h' <=> (~ m /\ h)
<1>1. ~ p.aw /\ ~ p.w
  BY DEF BusCycle
<1>2. ~ Bus!AwReadyBuf(p) /\ ~ Bus!WReadyBuf(p)
  BY <1>1 DEF Bus!AwReadyBuf, Bus!WReadyBuf
<1> QED BY <1>2, WriteRegisters DEF BusAddrs, BusVals

LEMMA MeetingStep ==
    ASSUME NEW p, BusCycle(p), j.at = "waits", j.wr PROVE Bus!Stored'
<1>1. /\ ~ f.v /\ ~ f.done /\ ~ g.v /\ ~ g.done /\ e /\ h
      /\ IF m THEN k.aw = <<>> /\ k.w = <<>> /\ k.memory = [n EXCEPT ![j.addr] = j.val]
         ELSE k.aw = <<j.addr>> /\ k.w = <<j.val>> /\ k.memory = n
      /\ m \in BOOLEAN
  BY DEF BusCycle, Bus!BridgeInv, Bus!Stored, Bus!Meeting, Bus!Typed, Bus!TypeOK
<1>2. ~ Bus!WriteReq
  BY DEF Bus!WriteReq
<1>3. /\ ~ f'.v /\ ~ f'.done /\ ~ g'.v /\ ~ g'.done
      /\ BusAddrs(p) = k.aw /\ BusVals(p) = k.w
      /\ e' <=> (e /\ ~ (m /\ h))
      /\ h' <=> (~ m /\ h)
  BY <1>1, <1>2, Quiet
<1>4. Bus!DataOk <=> m
  BY <1>1 DEF Bus!DataOk
<1>5. CASE m
  <2>1. j'.at \in {"idle", "asks"} /\ n' = k.memory
    BY <1>1, <1>4, <1>5, DataPort
  <2>2. ~ m' /\ k'.aw = <<>> /\ k'.w = <<>> /\ k'.memory = k.memory
    BY <1>1, <1>3, <1>5, SlaveStep
  <2> QED BY <1>1, <1>3, <1>5, <2>1, <2>2 DEF Bus!Stored, Bus!Halves, Bus!NoStore
<1>6. CASE ~ m
  <2>1. j' = j /\ n' = n
    BY <1>4, <1>6, DataPort
  <2>2. \/ ~ m' /\ k'.aw = <<j.addr>> /\ k'.w = <<j.val>> /\ k'.memory = k.memory
        \/ m' /\ k'.aw = <<>> /\ k'.w = <<>> /\ k'.memory = [k.memory EXCEPT ![j.addr] = j.val]
    <3>1. BusAddrs(p) = <<j.addr>> /\ BusVals(p) = <<j.val>>
      BY <1>1, <1>3, <1>6
    <3> QED BY <1>6, <3>1, LandsStep
  <2>3. Bus!Meeting'
    BY <1>1, <1>3, <1>6, <2>1, <2>2 DEF Bus!Meeting
  <2> QED BY <2>1, <2>3 DEF Bus!Stored
<1> QED BY <1>5, <1>6

LEMMA NoStoreStep ==
    ASSUME NEW p, BusCycle(p), ~ (j.wr /\ j.at \in {"asks", "waits"}) PROVE Bus!Stored'
<1>1. /\ ~ f.v /\ ~ f.done /\ ~ g.v /\ ~ g.done /\ ~ e
      /\ k.aw = <<>> /\ k.w = <<>> /\ ~ m /\ k.memory = n
  BY DEF BusCycle, Bus!BridgeInv, Bus!Stored, Bus!NoStore
<1>2. ~ Bus!WriteReq
  BY DEF Bus!WriteReq
<1>3. /\ ~ f'.v /\ ~ f'.done /\ ~ g'.v /\ ~ g'.done /\ ~ e'
      /\ BusAddrs(p) = k.aw /\ BusVals(p) = k.w
  BY <1>1, <1>2, Quiet
<1>4. ~ m' /\ k'.aw = <<>> /\ k'.w = <<>> /\ k'.memory = k.memory
  BY <1>1, <1>3, SlaveStep
<1>5. n' = n
  BY DataPort
<1>6. ~ (j'.at = "waits" /\ j'.wr)
  <2>1. j \in BusData
    BY DEF BusCycle, Bus!BridgeInv, Bus!Typed, Bus!TypeOK, BusData
  <2>2. j.at \in {"idle", "asks", "waits"}
    BY <2>1 DEF BusData
  <2>3. CASE j.at = "idle"
    BY <2>3, DataPort
  <2>4. CASE j.at = "asks"
    BY <2>4, DataPort
  <2>5. CASE j.at = "waits"
    BY <2>5, DataPort
  <2> QED BY <2>2, <2>3, <2>4, <2>5
<1> QED BY <1>1, <1>3, <1>4, <1>5, <1>6 DEF Bus!Stored, Bus!Halves, Bus!NoStore

LEMMA StoredStep ==
    ASSUME NEW p, BusCycle(p) PROVE Bus!Stored'
BY HalvesStep, MeetingStep, NoStoreStep

\* Of what the slave holds of a store.
LEMMA SlaveTyped ==
    ASSUME NEW p, BusCycle(p), Bus!Stored'
    PROVE  /\ n' \in [Bus!Addr -> Bus!Value]
           /\ k' \in [reads : SUBSET [id : {Bus!Fetch, Bus!Load}, addr : Bus!Addr], aw : Seq(Bus!Addr),
                      w : Seq(Bus!Value), memory : [Bus!Addr -> Bus!Value]]
<1>1. n \in [Bus!Addr -> Bus!Value] /\ (j.at # "idle" => j.addr \in Bus!Addr /\ (j.wr => j.val \in Bus!Value))
  BY DEF BusCycle, Bus!BridgeInv, Bus!Typed, Bus!TypeOK
<1>2. n' \in [Bus!Addr -> Bus!Value]
  BY <1>1, DataPort
<1>3. j'.at # "idle" => j'.addr \in Bus!Addr /\ (j'.wr => j'.val \in Bus!Value)
  BY DataPort
<1>4. /\ k'.aw = <<>> \/ (k'.aw = <<j'.addr>> /\ j'.at # "idle")
      /\ k'.w = <<>> \/ (k'.w = <<j'.val>> /\ j'.at # "idle" /\ j'.wr)
      /\ k'.memory = n' \/ (k'.memory = [n' EXCEPT ![j'.addr] = j'.val] /\ j'.at # "idle" /\ j'.wr)
  <2>1. CASE j'.at = "asks" /\ j'.wr
    BY <2>1 DEF Bus!Stored, Bus!Halves
  <2>2. CASE j'.at = "waits" /\ j'.wr
    <3>1. Bus!Meeting'
      BY <2>2 DEF Bus!Stored
    <3> QED BY <2>2, <3>1 DEF Bus!Meeting
  <2>3. CASE ~ (j'.at \in {"asks", "waits"} /\ j'.wr)
    BY <2>3 DEF Bus!Stored, Bus!NoStore
  <2> QED BY <2>1, <2>2, <2>3
<1>5. k'.aw \in Seq(Bus!Addr)
  <2>1. k'.aw = <<>> => k'.aw \in Seq(Bus!Addr)
    OBVIOUS
  <2>2. \A x \in Bus!Addr : <<x>> \in Seq(Bus!Addr)
    OBVIOUS
  <2> QED BY <1>3, <1>4, <2>1, <2>2
<1>6. k'.w \in Seq(Bus!Value)
  <2>1. k'.w = <<>> => k'.w \in Seq(Bus!Value)
    OBVIOUS
  <2>2. \A x \in Bus!Value : <<x>> \in Seq(Bus!Value)
    OBVIOUS
  <2> QED BY <1>3, <1>4, <2>1, <2>2
<1>7. k'.memory \in [Bus!Addr -> Bus!Value]
  BY <1>2, <1>3, <1>4
<1>8. k'.reads \in SUBSET [id : {Bus!Fetch, Bus!Load}, addr : Bus!Addr]
  <2>1. \A q \in k.reads : q \in [id : {Bus!Fetch, Bus!Load}, addr : Bus!Addr]
    BY DEF BusCycle, Bus!BridgeInv, Bus!Typed
  <2>2. \A q \in BusReads(p) : q \in [id : {Bus!Fetch, Bus!Load}, addr : Bus!Addr]
    <3>1. SUFFICES ASSUME NEW q \in BusReads(p), q \notin k.reads
                   PROVE  q \in [id : {Bus!Fetch, Bus!Load}, addr : Bus!Addr]
      BY <2>1
    <3>2. q = [id |-> IF a.data THEN Bus!Load ELSE Bus!Fetch, addr |-> b.addr]
      BY <3>1 DEF BusReads
    <3>3. q.addr \in Bus!Addr
      BY ReadWaits
    <3> QED BY <3>2, <3>3
  <2> QED BY <2>2, SlaveStep
<1>9. k' = [reads |-> k'.reads, aw |-> k'.aw, w |-> k'.w, memory |-> k'.memory]
  BY SlaveStep
<1> QED BY <1>2, <1>5, <1>6, <1>7, <1>8, <1>9

LEMMA TypedStep ==
    ASSUME NEW p, BusCycle(p), Bus!Stored' PROVE Bus!Typed'
<1>1. /\ i.addr \in Bus!Addr \cup {Bus!NoAddr} /\ j.addr \in Bus!Addr \cup {Bus!NoAddr}
      /\ b \in [v : BOOLEAN, addr : Bus!Addr \cup {Bus!NoAddr}]
      /\ d.word \in Bus!Word \cup {Bus!NoWord}
      /\ l \in [v : BOOLEAN, id : {Bus!Fetch, Bus!Load}, word : Bus!Word \cup {Bus!NoWord}]
      /\ m \in BOOLEAN
      /\ k.memory \in [Bus!Addr -> Bus!Value]
  BY DEF BusCycle, Bus!BridgeInv, Bus!Typed, Bus!TypeOK
<1>2. b' \in [v : BOOLEAN, addr : Bus!Addr \cup {Bus!NoAddr}]
  <2>1. b' = Bus!ReadAddress(p)
    BY ReadRegisters
  <2>2. a.data \in BOOLEAN
    BY DEF BusCycle, Bus!BridgeInv, Bus!Typed, Bus!TypeOK
  <2> QED BY <1>1, <2>1, <2>2 DEF Bus!ReadAddress
<1>3. d' \in [v : BOOLEAN, word : Bus!Word \cup {Bus!NoWord}]
  <2>1. d'.word \in Bus!Word \cup {Bus!NoWord}
    BY <1>1, ReadRegisters
  <2> QED BY <2>1, ReadRegisters
<1>4. l' \in [v : BOOLEAN, id : {Bus!Fetch, Bus!Load}, word : Bus!Word \cup {Bus!NoWord}]
  <2>1. Bus!NoRead \in [v : BOOLEAN, id : {Bus!Fetch, Bus!Load}, word : Bus!Word \cup {Bus!NoWord}]
    BY DEF Bus!NoRead
  <2>2. ASSUME NEW q \in BusReads(p), l' = [v |-> TRUE, id |-> q.id, word |-> <<q.addr, k.memory[q.addr]>>]
        PROVE  l' \in [v : BOOLEAN, id : {Bus!Fetch, Bus!Load}, word : Bus!Word \cup {Bus!NoWord}]
    <3>1. q.id \in {Bus!Fetch, Bus!Load} /\ q.addr \in Bus!Addr
      BY ReadWaits
    <3>2. <<q.addr, k.memory[q.addr]>> \in Bus!Word
      BY <1>1, <3>1 DEF Bus!Word
    <3> QED BY <2>2, <3>1, <3>2
  <2> QED BY <1>1, <2>1, <2>2, SlaveStep
<1>5. m' \in BOOLEAN
  BY <1>1, SlaveStep
<1>6. i' \in BusInst /\ j' \in BusData
  BY InstPort, DataPort
<1>7. k'.memory \in [Bus!Addr -> Bus!Value] /\ n' \in [Bus!Addr -> Bus!Value]
  BY SlaveTyped
<1>8. Bus!TypeOK'
  BY <1>2, <1>3, <1>4, <1>5, <1>6, <1>7, ReadRegisters, WriteRegisters DEF Bus!TypeOK, BusInst, BusData
<1> QED
  BY <1>8, InstPort, DataPort, SlaveTyped DEF Bus!Typed

LEMMA BridgeStep ==
    ASSUME BusKept, Bus!BridgeInv, Bus!Next PROVE Bus!BridgeInv'
<1>1. PICK x \in Bus!Ready(b.v), y \in Bus!Ready(f.v), z \in Bus!Ready(g.v) :
        Bus!Cycle([ar |-> x, aw |-> y, w |-> z])
  BY DEF Bus!Next
<1>2. \A v \in BOOLEAN : \A x2 \in Bus!Ready(v) : x2 \in BOOLEAN /\ (x2 => v)
  BY DEF Bus!Ready, BusKept
<1>3. b.v \in BOOLEAN /\ f.v \in BOOLEAN /\ g.v \in BOOLEAN
  BY DEF Bus!BridgeInv, Bus!Typed, Bus!TypeOK
<1>4. PICK p : p = [ar |-> x, aw |-> y, w |-> z]
  OBVIOUS
<1>5. BusCycle(p)
  BY <1>1, <1>2, <1>3, <1>4 DEF BusCycle
<1> QED
  BY <1>5, AskedStep, OwnedStep, AwaitedStep, StoredStep, TypedStep DEF Bus!BridgeInv

LEMMA BridgeInit ==
    ASSUME Bus!Init PROVE Bus!BridgeInv
<1>1. /\ a = [data |-> FALSE, req |-> FALSE, rps |-> FALSE, busy |-> FALSE]
      /\ b = [v |-> FALSE, addr |-> Bus!NoAddr] /\ c = FALSE
      /\ d = [v |-> FALSE, word |-> Bus!NoWord]
      /\ e = FALSE /\ h = FALSE
      /\ f = [v |-> FALSE, addr |-> Bus!NoAddr, done |-> FALSE]
      /\ g = [v |-> FALSE, val |-> Bus!NoVal, done |-> FALSE]
      /\ i = Bus!NoInst /\ j = Bus!NoData /\ l = Bus!NoRead /\ m = FALSE
      /\ n \in [Bus!Addr -> Bus!Value]
      /\ k = [reads |-> {}, aw |-> <<>>, w |-> <<>>, memory |-> n]
  BY DEF Bus!Init
<1>2. Bus!TypeOK
  BY <1>1 DEF Bus!TypeOK, Bus!NoInst, Bus!NoData, Bus!NoRead
<1>3. Bus!Typed
  <2>1. k.reads = {} /\ k.aw = <<>> /\ k.w = <<>> /\ k.memory = n
    BY <1>1
  <2>2. k \in [reads : SUBSET [id : {Bus!Fetch, Bus!Load}, addr : Bus!Addr], aw : Seq(Bus!Addr),
               w : Seq(Bus!Value), memory : [Bus!Addr -> Bus!Value]]
    BY <1>1
  <2>3. i.at = "idle" /\ j.at = "idle"
    BY <1>1 DEF Bus!NoInst, Bus!NoData
  <2> QED BY <1>2, <2>2, <2>3 DEF Bus!Typed
<1>4. Bus!Asked
  BY <1>1 DEF Bus!Asked
<1>5. ~ l.v /\ k.reads = {} /\ ~ d.v
  BY <1>1 DEF Bus!NoRead
<1>6. Bus!Owned /\ Bus!Awaited
  BY <1>5 DEF Bus!Owned, Bus!Awaited, Bus!Two
<1>7. Bus!Stored
  BY <1>1 DEF Bus!Stored, Bus!NoStore, Bus!NoData
<1> QED BY <1>3, <1>4, <1>6, <1>7 DEF Bus!BridgeInv

LEMMA BridgeSafe ==
    ASSUME Bus!BridgeInv PROVE Bus!Paired /\ Bus!ReadsRight /\ Bus!StoresLand
<1> USE DEF Bus!Fetch, Bus!Load
<1>1. /\ l.v => Bus!Waited(l.id, l.word[1]) /\ (l.id = Bus!Load => l.word = <<j.addr, n[j.addr]>>)
      /\ d.v => (l.v => d.word = l.word)
      /\ j.at \in {"idle", "asks", "waits"} /\ m \in BOOLEAN
  BY DEF Bus!BridgeInv, Bus!Owned, Bus!Awaited, Bus!Typed, Bus!TypeOK
<1>2. l.v => Bus!RdataBuf = l.word
  BY <1>1 DEF Bus!RdataBuf
<1>3. Bus!DataOk => j.at = "waits" /\ (j.wr <=> m) /\ (~ j.wr => l.v /\ l.id = Bus!Load)
  <2>1. CASE j.at = "asks" /\ j.wr
    BY <1>1, <2>1 DEF Bus!BridgeInv, Bus!Stored, Bus!Halves, Bus!DataOk, Bus!Waited
  <2>2. CASE j.at = "waits" /\ j.wr
    BY <1>1, <2>2 DEF Bus!BridgeInv, Bus!Stored, Bus!Meeting, Bus!DataOk, Bus!Waited
  <2>3. CASE ~ (j.at \in {"asks", "waits"} /\ j.wr)
    BY <1>1, <2>3 DEF Bus!BridgeInv, Bus!Stored, Bus!NoStore, Bus!DataOk, Bus!Waited
  <2> QED BY <2>1, <2>2, <2>3
<1>4. Bus!Paired
  BY <1>1, <1>3 DEF Bus!Paired, Bus!InstDataOk, Bus!Waited
<1>5. Bus!ReadsRight
  BY <1>1, <1>2, <1>3 DEF Bus!ReadsRight, Bus!InstDataOk, Bus!Waited
<1>6. Bus!StoresLand
  <2>1. CASE j.at = "asks" /\ j.wr
    BY <2>1 DEF Bus!BridgeInv, Bus!Stored, Bus!Halves, Bus!StoresLand
  <2>2. CASE j.at = "waits" /\ j.wr
    BY <2>2 DEF Bus!BridgeInv, Bus!Stored, Bus!Meeting, Bus!StoresLand
  <2>3. CASE ~ (j.at \in {"asks", "waits"} /\ j.wr)
    BY <2>3 DEF Bus!BridgeInv, Bus!Stored, Bus!NoStore, Bus!StoresLand
  <2> QED BY <2>1, <2>2, <2>3
<1> QED BY <1>4, <1>5, <1>6

\* Every answer of the bus goes to the port that asked and is from its address, a load
\* reads the last store, and a store is written once and with its own data, in whatever
\* order the slave takes and answers what it is offered.
THEOREM BusRightAlways == BusKept => (Spec => []BusRight)
<1> DEFINE Inv == part = "bridge" => Bus!BridgeInv
<1>1. Init => Inv
  BY BridgeInit DEF Init
<1>2. ASSUME BusKept PROVE Inv /\ [Next]_vars => Inv'
  <2>1. SUFFICES ASSUME Inv, [Next]_vars, part' = "bridge" PROVE Bus!BridgeInv'
    OBVIOUS
  <2>2. part = "bridge" /\ (Bus!Next \/ UNCHANGED vars)
    BY <2>1 DEF Next, InBus, vars
  <2>3. CASE Bus!Next
    BY <1>2, <2>1, <2>2, <2>3, BridgeStep
  <2>4. CASE UNCHANGED vars
    BY <2>1, <2>2, <2>4 DEF vars, fromE, fromG, fromJ, Bus!BridgeInv, Bus!Typed, Bus!TypeOK, Bus!Asked,
       Bus!Owned, Bus!Waited, Bus!Awaited, Bus!Two, Bus!Stored, Bus!Halves, Bus!Meeting, Bus!NoStore
  <2> QED BY <2>2, <2>3, <2>4
<1>3. Inv => BusRight
  BY BridgeSafe DEF BusRight
<1>4. ASSUME BusKept PROVE Spec => []BusRight
  BY <1>1, <1>2, <1>3, <1>4, PTL DEF Spec
<1> QED
  BY <1>4

----------------------------------------------------------------------------
(* Execute: words of any width.  The powers of two are counted, as subsets. *)

\* The subsets of a set of w elements are 2 to the w.
LEMMA PowerCounts ==
    ASSUME NEW x \in Int, NEW y \in Int, NEW w \in Nat, y = x + w - 1
    PROVE  IsFiniteSet(SUBSET (x .. y)) /\ Cardinality(SUBSET (x .. y)) = 2 ^ w
<1>1. IsFiniteSet(x .. y) /\ Cardinality(x .. y) = IF x > y THEN 0 ELSE y - x + 1
  BY FS_Interval
<1>2. Cardinality(x .. y) = w
  BY <1>1
<1> QED BY <1>1, <1>2, FS_SUBSET

LEMMA PowerCountsUp ==
    ASSUME NEW w \in Nat
    PROVE  IsFiniteSet(SUBSET (1 .. w)) /\ Cardinality(SUBSET (1 .. w)) = 2 ^ w
<1>1. PICK one : one = 1
  OBVIOUS
<1>2. one \in Int /\ w \in Int /\ w = one + w - 1
  BY <1>1
<1>3. IsFiniteSet(SUBSET (one .. w)) /\ Cardinality(SUBSET (one .. w)) = 2 ^ w
  BY <1>2, PowerCounts
<1> QED BY <1>1, <1>3

LEMMA PowerOfNothing == 2 ^ 0 = 1
OBVIOUS

\* A subset of the first w + v is one of the first w with one of the v others.
LEMMA PowerOfSum ==
    ASSUME NEW w \in Nat, NEW v \in Nat
    PROVE  2 ^ (w + v) = 2 ^ w * 2 ^ v
<1> DEFINE Lo == 1 .. w
           Hi == w + 1 .. w + v
           All == 1 .. w + v
           F == [A \in SUBSET All |-> <<A \cap Lo, A \cap Hi>>]
<1>1. /\ IsFiniteSet(SUBSET Lo) /\ Cardinality(SUBSET Lo) = 2 ^ w
      /\ IsFiniteSet(SUBSET Hi) /\ Cardinality(SUBSET Hi) = 2 ^ v
      /\ IsFiniteSet(SUBSET All) /\ Cardinality(SUBSET All) = 2 ^ (w + v)
  <2>1. PICK x, y : x = w + 1 /\ y = w + v
    OBVIOUS
  <2>2. x \in Int /\ y \in Nat /\ y \in Int /\ v \in Nat /\ y = x + v - 1
    BY <2>1
  <2>3. IsFiniteSet(SUBSET Lo) /\ Cardinality(SUBSET Lo) = 2 ^ w
    BY PowerCountsUp
  <2>4. IsFiniteSet(SUBSET (x .. y)) /\ Cardinality(SUBSET (x .. y)) = 2 ^ v
    BY <2>2, PowerCounts
  <2>5. IsFiniteSet(SUBSET (1 .. y)) /\ Cardinality(SUBSET (1 .. y)) = 2 ^ y
    BY <2>2, PowerCountsUp
  <2> QED BY <2>1, <2>3, <2>4, <2>5
<1>2. Lo \cup Hi = All /\ Lo \cap Hi = {}
  OBVIOUS
<1> HIDE DEF Lo, Hi, All
<1>3. PICK L, H, From, Two : L = SUBSET Lo /\ H = SUBSET Hi /\ From = SUBSET All /\ Two = L \X H
  OBVIOUS
<1>4. F \in [From -> Two]
  <2>1. \A A \in From : A \cap Lo \in L /\ A \cap Hi \in H
    BY <1>3
  <2>2. \A A \in From : <<A \cap Lo, A \cap Hi>> \in L \X H
    BY <2>1
  <2>3. \A A \in From : <<A \cap Lo, A \cap Hi>> \in Two
    BY <1>3, <2>2
  <2>4. F = [A \in From |-> <<A \cap Lo, A \cap Hi>>]
    BY <1>3
  <2> QED BY <2>3, <2>4
<1>5. \A A, B \in From : F[A] = F[B] => A = B
  <2>1. SUFFICES ASSUME NEW A \in SUBSET All, NEW B \in SUBSET All, F[A] = F[B] PROVE A = B
    BY <1>3
  <2>2. A \cap Lo = B \cap Lo /\ A \cap Hi = B \cap Hi
    BY <2>1
  <2> QED BY <1>2, <2>2
<1>6. \A z \in Two : \E A \in From : F[A] = z
  <2>1. SUFFICES ASSUME NEW z \in L \X H PROVE \E A \in From : F[A] = z
    BY <1>3
  <2>2. PICK C \in L, D \in H : z = <<C, D>>
    OBVIOUS
  <2>3. C \cup D \in From /\ (C \cup D) \cap Lo = C /\ (C \cup D) \cap Hi = D
    BY <1>2, <1>3
  <2>4. F[C \cup D] = <<(C \cup D) \cap Lo, (C \cup D) \cap Hi>>
    BY <1>3, <2>3
  <2> QED BY <2>2, <2>3, <2>4
<1> HIDE DEF F
<1>7. ExistsBijection(From, Two)
  <2>1. F \in Injection(From, Two)
    BY <1>4, <1>5 DEF Injection, IsInjective
  <2>2. F \in Surjection(From, Two)
    BY <1>4, <1>6 DEF Surjection
  <2>3. F \in Bijection(From, Two)
    BY <2>1, <2>2 DEF Bijection
  <2> QED BY <2>3 DEF ExistsBijection
<1>8. /\ IsFiniteSet(L) /\ Cardinality(L) = 2 ^ w
      /\ IsFiniteSet(H) /\ Cardinality(H) = 2 ^ v
      /\ IsFiniteSet(From) /\ Cardinality(From) = 2 ^ (w + v)
  BY <1>1, <1>3
<1>9. Cardinality(Two) = Cardinality(From)
  BY <1>7, <1>8, FS_Bijection
<1>10. Cardinality(L \X H) = Cardinality(L) * Cardinality(H)
  BY <1>8, FS_Product
<1> QED BY <1>3, <1>8, <1>9, <1>10

LEMMA PowerPositive ==
    ASSUME NEW w \in Nat
    PROVE  2 ^ w \in Nat /\ 2 ^ w > 0
<1>1. IsFiniteSet(SUBSET (1 .. w)) /\ Cardinality(SUBSET (1 .. w)) = 2 ^ w
  BY PowerCountsUp
<1>2. SUBSET (1 .. w) # {}
  <2>1. {} \in SUBSET (1 .. w)
    OBVIOUS
  <2> QED BY <2>1
<1>3. Cardinality(SUBSET (1 .. w)) \in Nat
  BY <1>1, FS_CardinalityType
<1>4. Cardinality(SUBSET (1 .. w)) # 0
  BY <1>1, <1>2, FS_EmptySet
<1>5. \A x \in Nat : x # 0 => x > 0
  OBVIOUS
<1> QED BY <1>1, <1>3, <1>4, <1>5

\* Of any number, negative ones too.
LEMMA Division ==
    ASSUME NEW p \in Int, NEW s \in Nat, s > 0
    PROVE  /\ p \div s \in Int /\ p % s \in Int /\ 0 <= p % s /\ p % s < s
           /\ p = s * (p \div s) + (p % s)
<1>2. p = s * (p \div s) + (p % s)
  BY SMTT(30)
<1>3. p \div s \in Int /\ p % s \in Int /\ 0 <= p % s /\ p % s < s
  OBVIOUS
<1>4. QED  BY <1>2, <1>3

LEMMA Order ==
    ASSUME NEW x \in Int, NEW y \in Int, NEW s \in Nat, x <= y
    PROVE  s * x <= s * y /\ s * x \in Int
OBVIOUS

\* Quotient and remainder are the only ones.
LEMMA QuotientIs ==
    ASSUME NEW q \in Int, NEW s \in Nat, s > 0, NEW r \in Int, 0 <= r, r < s
    PROVE  (s * q + r) \div s = q /\ (s * q + r) % s = r
<1> DEFINE p == s * q + r  u == p \div s  z == p % s
<1>1. p \in Int
  OBVIOUS
<1>2. u \in Int /\ z \in Int /\ 0 <= z /\ z < s /\ p = s * u + z
  BY <1>1, Division
<1> HIDE DEF u, z
<1>3. ~ (u < q)
  <2>1. SUFFICES ASSUME u + 1 <= q PROVE FALSE
    BY <1>2
  <2>2. s * (u + 1) <= s * q
    BY <1>2, <2>1, Order
  <2>3. s * (u + 1) = s * u + s
    BY <1>2
  <2>4. QED  BY <1>2, <2>2, <2>3
<1>4. ~ (q < u)
  <2>1. SUFFICES ASSUME q + 1 <= u PROVE FALSE
    BY <1>2
  <2>2. s * (q + 1) <= s * u
    BY <1>2, <2>1, Order
  <2>3. s * (q + 1) = s * q + s
    OBVIOUS
  <2>4. QED  BY <1>2, <2>2, <2>3
<1>5. u = q
  BY <1>2, <1>3, <1>4
<1>6. z = r
  BY <1>2, <1>5
<1>7. QED  BY <1>5, <1>6 DEF u, z

\* The same, told of any number.
LEMMA DivisionIs ==
    ASSUME NEW p \in Int, NEW q \in Int, NEW s \in Nat, s > 0, NEW r \in Int, 0 <= r, r < s, p = s * q + r
    PROVE  p \div s = q /\ p % s = r
BY QuotientIs

----------------------------------------------------------------------------
(* Execute: the adder, the shifter and the multiplier                      *)

\* Half the numbers that a word holds.
Half == 2 ^ (NumBits - 1)
Words == {x \in Int : 0 <= x /\ x < 2 * Half}

LEMMA PowerOfOne == 2 ^ 1 = 2
OBVIOUS

LEMMA HalfOfModulus ==
    /\ Half \in Nat /\ Half > 0
    /\ Exe!Modulus = 2 * Half /\ Exe!Modulus \div 2 = Half
    /\ Exe!Bits = Words
<1>1. NumBits \in Nat /\ NumBits # 0
  BY DatapathAssumption DEF Exe!ExecuteAssumption
<1>2. PICK w : w = NumBits - 1
  OBVIOUS
<1>3. w \in Nat /\ 1 \in Nat /\ w + 1 = NumBits
  BY <1>1, <1>2
<1>4. 2 ^ w \in Nat /\ 2 ^ w > 0
  BY <1>3, PowerPositive
<1>5. 2 ^ (w + 1) = 2 ^ w * 2 ^ 1
  BY <1>3, PowerOfSum
<1>6. Half = 2 ^ w /\ Exe!Modulus = 2 ^ (w + 1)
  BY <1>2, <1>3 DEF Half, Exe!Modulus
<1>7. Exe!Modulus = Half * 2
  BY <1>5, <1>6, PowerOfOne
<1>8. Half \in Nat /\ Half > 0
  BY <1>4, <1>6
<1>9. Exe!Modulus = 2 * Half /\ Exe!Modulus \div 2 = Half
  BY <1>7, <1>8
<1>10. Exe!Bits = Words
  BY <1>8, <1>9 DEF Exe!Bits, Words
<1> QED BY <1>8, <1>9, <1>10

\* A word as the carry of the adder leaves it.
LEMMA Wrapped ==
    ASSUME NEW p \in Int, 0 <= p, p < 4 * Half
    PROVE  p % Exe!Modulus = IF p < 2 * Half THEN p ELSE p - 2 * Half
<1>1. Half \in Nat /\ Half > 0 /\ Exe!Modulus = 2 * Half
  BY HalfOfModulus
<1>2. PICK s : s = 2 * Half
  OBVIOUS
<1>3. s \in Nat /\ s > 0 /\ p < 2 * s
  BY <1>1, <1>2
<1>4. CASE p < s
  <2>1. 0 \in Int /\ p = s * 0 + p
    BY <1>3
  <2>2. p % s = p
    BY <1>3, <1>4, <2>1, DivisionIs
  <2> QED BY <1>1, <1>2, <1>4, <2>2
<1>5. CASE ~ p < s
  <2>1. PICK r : r = p - s
    OBVIOUS
  <2>2. r \in Int /\ 0 <= r /\ r < s /\ 1 \in Int /\ p = s * 1 + r
    BY <1>3, <1>5, <2>1
  <2>3. p % s = r
    BY <1>3, <2>2, DivisionIs
  <2> QED BY <1>1, <1>2, <1>5, <2>1, <2>3
<1> QED BY <1>4, <1>5

\* The same of a difference.
LEMMA WrappedBelow ==
    ASSUME NEW p \in Int, - 2 * Half <= p, p < 2 * Half
    PROVE  p % Exe!Modulus = IF p < 0 THEN p + 2 * Half ELSE p
<1>1. Half \in Nat /\ Half > 0 /\ Exe!Modulus = 2 * Half
  BY HalfOfModulus
<1>2. PICK s : s = 2 * Half
  OBVIOUS
<1>3. s \in Nat /\ s > 0 /\ p < s /\ - s <= p
  BY <1>1, <1>2
<1>4. CASE ~ p < 0
  <2>1. 0 \in Int /\ p = s * 0 + p /\ 0 <= p
    BY <1>3, <1>4
  <2>2. p % s = p
    BY <1>3, <1>4, <2>1, DivisionIs
  <2> QED BY <1>1, <1>2, <1>4, <2>2
<1>5. CASE p < 0
  <2>1. PICK r, q : r = p + s /\ q = -1
    OBVIOUS
  <2>2. r \in Int /\ 0 <= r /\ r < s /\ q \in Int /\ p = s * q + r
    BY <1>3, <1>5, <2>1
  <2>3. p % s = r
    BY <1>3, <2>2, DivisionIs
  <2> QED BY <1>1, <1>2, <1>5, <2>1, <2>3
<1> QED BY <1>4, <1>5

\* The sum of two words, and when it is not one.
LEMMA AddRight ==
    ASSUME NEW x \in Words, NEW y \in Words
    PROVE  /\ Exe!AdderResult("add", x, y) = Exe!Wrap(x + y)
           /\ Exe!Overflow("add", x, y) <=> ~ Exe!InRange(Exe!Signed(x) + Exe!Signed(y))
<1>1. /\ Half \in Nat /\ Half > 0 /\ Exe!Modulus = 2 * Half /\ Exe!Modulus \div 2 = Half
      /\ x \in Int /\ 0 <= x /\ x < 2 * Half /\ y \in Int /\ 0 <= y /\ y < 2 * Half
  BY HalfOfModulus DEF Words
<1>2. Exe!AdderResult("add", x, y) = (x + y) % Exe!Modulus
  BY DEF Exe!AdderResult, Exe!Adder
<1>3. PICK p : p = x + y
  OBVIOUS
<1>4. PICK r : r = Exe!AdderResult("add", x, y)
  OBVIOUS
<1>5. r = IF x + y < 2 * Half THEN x + y ELSE x + y - 2 * Half
  <2>1. p \in Int /\ 0 <= p /\ p < 4 * Half
    BY <1>1, <1>3
  <2>2. p % Exe!Modulus = IF p < 2 * Half THEN p ELSE p - 2 * Half
    BY <2>1, Wrapped
  <2>3. p % Exe!Modulus = r
    BY <1>2, <1>3, <1>4
  <2> QED BY <1>1, <1>3, <2>1, <2>2, <2>3
<1>6. Exe!Overflow("add", x, y) <=> \/ x >= Half /\ y >= Half /\ ~ r >= Half
                                    \/ ~ x >= Half /\ ~ y >= Half /\ r >= Half
  BY <1>1, <1>4 DEF Exe!Overflow, Exe!Top
<1>7. /\ Exe!Signed(x) = IF x >= Half THEN x - 2 * Half ELSE x
      /\ Exe!Signed(y) = IF y >= Half THEN y - 2 * Half ELSE y
  BY <1>1 DEF Exe!Signed, Exe!Top
<1>8. PICK u, v : u = Exe!Signed(x) /\ v = Exe!Signed(y)
  OBVIOUS
<1>9. u = (IF x >= Half THEN x - 2 * Half ELSE x) /\ v = (IF y >= Half THEN y - 2 * Half ELSE y)
  BY <1>7, <1>8
<1>10. Exe!InRange(u + v) <=> u + v >= - Half /\ u + v < Half
  BY <1>1 DEF Exe!InRange
<1>11. (\/ x >= Half /\ y >= Half /\ ~ r >= Half
        \/ ~ x >= Half /\ ~ y >= Half /\ r >= Half) <=> ~ (u + v >= - Half /\ u + v < Half)
  BY <1>1, <1>5, <1>9
<1> QED BY <1>2, <1>6, <1>8, <1>10, <1>11 DEF Exe!Wrap

\* Their difference.
LEMMA Subtracted ==
    ASSUME NEW x \in Words, NEW y \in Words, NEW op \in {"sub", "slt", "sltu"}
    PROVE  /\ Exe!AdderResult(op, x, y) = IF x < y THEN x - y + 2 * Half ELSE x - y
           /\ Exe!AdderCout(op, x, y) <=> y <= x
<1>1. /\ Half \in Nat /\ Half > 0 /\ Exe!Modulus = 2 * Half
      /\ x \in Int /\ 0 <= x /\ x < 2 * Half /\ y \in Int /\ 0 <= y /\ y < 2 * Half
  BY HalfOfModulus DEF Words
<1>2. PICK p : p = Exe!Adder(op, x, y)
  OBVIOUS
<1>3. p = x + (Exe!Modulus - 1 - y) + 1
  BY <1>2 DEF Exe!Adder, Exe!NotBit
<1>4. p = x - y + 2 * Half
  BY <1>1, <1>3
<1>5. p \in Int /\ 0 <= p /\ p < 4 * Half
  BY <1>1, <1>4
<1>6. p % Exe!Modulus = IF p < 2 * Half THEN p ELSE p - 2 * Half
  BY <1>5, Wrapped
<1>7. p % Exe!Modulus = IF x < y THEN x - y + 2 * Half ELSE x - y
  BY <1>1, <1>4, <1>6
<1>8. p >= Exe!Modulus <=> y <= x
  BY <1>1, <1>4
<1> QED BY <1>2, <1>7, <1>8 DEF Exe!AdderResult, Exe!AdderCout

LEMMA SubRight ==
    ASSUME NEW x \in Words, NEW y \in Words
    PROVE  /\ Exe!AdderResult("sub", x, y) = Exe!Wrap(x - y)
           /\ Exe!Overflow("sub", x, y) <=> ~ Exe!InRange(Exe!Signed(x) - Exe!Signed(y))
<1>1. /\ Half \in Nat /\ Half > 0 /\ Exe!Modulus = 2 * Half /\ Exe!Modulus \div 2 = Half
      /\ x \in Int /\ 0 <= x /\ x < 2 * Half /\ y \in Int /\ 0 <= y /\ y < 2 * Half
  BY HalfOfModulus DEF Words
<1>2. PICK r : r = Exe!AdderResult("sub", x, y)
  OBVIOUS
<1>3. r = IF x < y THEN x - y + 2 * Half ELSE x - y
  BY <1>2, Subtracted
<1>4. r = (x - y) % Exe!Modulus
  <2>1. PICK p : p = x - y
    OBVIOUS
  <2>2. p \in Int /\ - 2 * Half <= p /\ p < 2 * Half
    BY <1>1, <2>1
  <2>3. p % Exe!Modulus = IF p < 0 THEN p + 2 * Half ELSE p
    BY <2>2, WrappedBelow
  <2>4. p % Exe!Modulus = r
    BY <1>1, <1>3, <2>1, <2>3
  <2> QED BY <2>1, <2>4
<1>5. Exe!Overflow("sub", x, y) <=> \/ x >= Half /\ ~ y >= Half /\ ~ r >= Half
                                    \/ ~ x >= Half /\ y >= Half /\ r >= Half
  BY <1>1, <1>2 DEF Exe!Overflow, Exe!Top
<1>6. PICK u, v : u = Exe!Signed(x) /\ v = Exe!Signed(y)
  OBVIOUS
<1>7. u = (IF x >= Half THEN x - 2 * Half ELSE x) /\ v = (IF y >= Half THEN y - 2 * Half ELSE y)
  BY <1>1, <1>6 DEF Exe!Signed, Exe!Top
<1>8. Exe!InRange(u - v) <=> u - v >= - Half /\ u - v < Half
  BY <1>1 DEF Exe!InRange
<1>9. (\/ x >= Half /\ ~ y >= Half /\ ~ r >= Half
       \/ ~ x >= Half /\ y >= Half /\ r >= Half) <=> ~ (u - v >= - Half /\ u - v < Half)
  BY <1>1, <1>3, <1>7
<1> QED BY <1>2, <1>4, <1>5, <1>6, <1>8, <1>9 DEF Exe!Wrap

\* The comparison of signed words, where the sign of the difference may be wrong.
LEMMA LessRight ==
    ASSUME NEW x \in Words, NEW y \in Words
    PROVE  /\ Exe!AluResult("slt", x, y) = 1 <=> Exe!Signed(x) < Exe!Signed(y)
           /\ Exe!AluResult("sltu", x, y) = 1 <=> x < y
<1>1. /\ Half \in Nat /\ Half > 0 /\ Exe!Modulus = 2 * Half /\ Exe!Modulus \div 2 = Half
      /\ x \in Int /\ 0 <= x /\ x < 2 * Half /\ y \in Int /\ 0 <= y /\ y < 2 * Half
  BY HalfOfModulus DEF Words
<1>2. PICK r : r = Exe!AdderResult("slt", x, y)
  OBVIOUS
<1>3. r = IF x < y THEN x - y + 2 * Half ELSE x - y
  BY <1>2, Subtracted
<1>4. Exe!AluResult("slt", x, y) = 1 <=>
        \/ x >= Half /\ ~ y >= Half
        \/ (x >= Half <=> y >= Half) /\ r >= Half
  BY <1>1, <1>2 DEF Exe!AluResult, Exe!Bit, Exe!Top
<1>5. PICK u, v : u = Exe!Signed(x) /\ v = Exe!Signed(y)
  OBVIOUS
<1>6. u = (IF x >= Half THEN x - 2 * Half ELSE x) /\ v = (IF y >= Half THEN y - 2 * Half ELSE y)
  BY <1>1, <1>5 DEF Exe!Signed, Exe!Top
<1>7. (\/ x >= Half /\ ~ y >= Half
       \/ (x >= Half <=> y >= Half) /\ r >= Half) <=> u < v
  BY <1>1, <1>3, <1>6
<1>8. Exe!AluResult("sltu", x, y) = 1 <=> ~ Exe!AdderCout("sltu", x, y)
  BY DEF Exe!AluResult, Exe!Bit
<1>9. Exe!AluResult("sltu", x, y) = 1 <=> x < y
  BY <1>1, <1>8, Subtracted
<1> QED BY <1>4, <1>5, <1>7, <1>9

\* A shift by fewer bits than a word has divides its upper half evenly.
LEMMA ShiftParts ==
    ASSUME NEW x \in Words
    PROVE  \E t, v \in Nat : /\ 2 ^ (x % NumBits) = t /\ t > 0 /\ v > 0 /\ t * v = Half
<1>1. NumBits \in Nat /\ NumBits > 0 /\ x \in Int
  BY DatapathAssumption DEF Exe!ExecuteAssumption, Words
<1>2. PICK s : s = x % NumBits
  OBVIOUS
<1>3. s \in Int /\ 0 <= s /\ s < NumBits
  BY <1>1, <1>2, Division
<1>4. PICK u : u = NumBits - 1 - s
  OBVIOUS
<1>5. s \in Nat /\ u \in Nat /\ s + u = NumBits - 1
  BY <1>1, <1>3, <1>4
<1>6. 2 ^ s \in Nat /\ 2 ^ s > 0 /\ 2 ^ u \in Nat /\ 2 ^ u > 0
  BY <1>5, PowerPositive
<1>7. 2 ^ (s + u) = 2 ^ s * 2 ^ u
  BY <1>5, PowerOfSum
<1>8. 2 ^ s * 2 ^ u = Half
  BY <1>5, <1>7 DEF Half
<1> QED BY <1>2, <1>6, <1>8

LEMMA ShiftedSmall ==
    ASSUME NEW y \in Nat, NEW t \in Nat, t > 0
    PROVE  y \div t \in Nat /\ y \div t <= y
<1>1. PICK q, r : q = y \div t /\ r = y % t
  OBVIOUS
<1>2. q \in Int /\ r \in Int /\ 0 <= r /\ r < t /\ y = t * q + r
  BY <1>1, Division
<1>3. ~ q < 0
  <2>1. SUFFICES ASSUME q + 1 <= 0 PROVE FALSE
    BY <1>2
  <2>2. t * (q + 1) <= t * 0
    BY <1>2, <2>1, Order
  <2>3. t * (q + 1) = t * q + t
    BY <1>2
  <2> QED BY <1>2, <2>2, <2>3
<1>4. q \in Nat
  BY <1>2, <1>3
<1>5. q * 1 <= q * t
  BY <1>4, Order
<1>6. q <= y
  BY <1>2, <1>4, <1>5
<1> QED BY <1>1, <1>4, <1>6

\* Of a word with the top bit, the quotient has it where the shift has moved it.
LEMMA ShiftedTop ==
    ASSUME NEW y \in Nat, NEW t \in Nat, t > 0, NEW v \in Nat, NEW z \in Nat, z = t * v, z <= y, y < 2 * z
    PROVE  v <= y \div t /\ y \div t < 2 * v
<1>1. PICK q, r : q = y \div t /\ r = y % t
  OBVIOUS
<1>2. q \in Int /\ r \in Int /\ 0 <= r /\ r < t /\ y = t * q + r
  BY <1>1, Division
<1>3. ~ q < v
  <2>1. SUFFICES ASSUME q + 1 <= v PROVE FALSE
    BY <1>2
  <2>2. t * (q + 1) <= t * v
    BY <1>2, <2>1, Order
  <2>3. t * (q + 1) = t * q + t
    BY <1>2
  <2> QED BY <1>2, <2>2, <2>3
<1>4. ~ 2 * v <= q
  <2>1. SUFFICES ASSUME 2 * v <= q PROVE FALSE
    BY <1>2
  <2>2. t * (2 * v) <= t * q
    BY <1>2, <2>1, Order
  <2>3. t * (2 * v) = 2 * z
    OBVIOUS
  <2> QED BY <1>2, <2>2, <2>3
<1> QED BY <1>1, <1>2, <1>3, <1>4

\* The arithmetic shift is the quotient of the signed word, rounded down.
LEMMA SraRight ==
    ASSUME NEW x \in Words, NEW y \in Words
    PROVE  Exe!Signed(Exe!AluResult("sra", x, y)) = Exe!Signed(y) \div 2 ^ (x % NumBits)
<1>1. /\ Half \in Nat /\ Half > 0 /\ Exe!Modulus = 2 * Half /\ Exe!Modulus \div 2 = Half
      /\ y \in Nat /\ y < 2 * Half
  BY HalfOfModulus DEF Words
<1>2. PICK t \in Nat, v \in Nat : 2 ^ (x % NumBits) = t /\ t > 0 /\ v > 0 /\ t * v = Half
  BY ShiftParts
<1>3. PICK r : r = Exe!AluResult("sra", x, y)
  OBVIOUS
<1>4. r = (Exe!Extended(y) \div t) % Exe!Modulus
  BY <1>2, <1>3 DEF Exe!AluResult, Exe!ShiftBy
<1>5. CASE y < Half
  <2>1. Exe!Extended(y) = y /\ Exe!Signed(y) = y
    BY <1>1, <1>5 DEF Exe!Extended, Exe!Signed, Exe!Top
  <2>2. PICK q : q = y \div t
    OBVIOUS
  <2>3. q \in Nat /\ q <= y
    BY <1>1, <1>2, <2>2, ShiftedSmall
  <2>4. q \in Int /\ 0 <= q /\ q < 4 * Half /\ q < Half /\ q < 2 * Half
    BY <1>1, <1>5, <2>3
  <2>5. q % Exe!Modulus = q
    BY <2>4, Wrapped
  <2>6. r = q
    BY <1>4, <2>1, <2>2, <2>5
  <2>7. Exe!Signed(q) = q
    BY <1>1, <2>4 DEF Exe!Signed, Exe!Top
  <2> QED BY <1>2, <1>3, <2>1, <2>2, <2>6, <2>7
<1>6. CASE ~ y < Half
  <2>1. Exe!Extended(y) = y + Exe!Modulus * (Exe!Modulus - 1) /\ Exe!Signed(y) = y - Exe!Modulus
    BY <1>1, <1>6 DEF Exe!Extended, Exe!Signed, Exe!Top
  <2>2. PICK q, z : q = y \div t /\ z = y % t
    OBVIOUS
  <2>3. q \in Int /\ z \in Int /\ 0 <= z /\ z < t /\ y = t * q + z
    BY <1>1, <1>2, <2>2, Division
  <2>4. v <= q /\ q < 2 * v
    BY <1>1, <1>2, <1>6, <2>2, ShiftedTop
  <2>5. v <= Half
    <3>1. v * 1 <= v * t
      BY <1>2, Order
    <3> QED BY <1>2, <3>1
  <2>6. PICK w, p : w = 2 * Half - 1 /\ p = q + 2 * v * w
    OBVIOUS
  <2>7. w \in Int /\ p \in Int
    BY <1>1, <1>2, <2>3, <2>6
  \* The word with its sign in the upper half, divided.
  <2>8. Exe!Extended(y) = t * p + z
    <3>1. Exe!Extended(y) = y + 2 * Half * w
      BY <1>1, <2>1, <2>6
    <3>2. t * p = t * q + 2 * (t * v) * w
      BY <1>2, <2>3, <2>6, <2>7
    <3>3. t * p = t * q + 2 * Half * w
      BY <1>2, <3>2
    <3> QED BY <1>1, <1>2, <2>3, <2>7, <3>1, <3>3
  <2>9. Exe!Extended(y) \div t = p
    BY <1>2, <2>3, <2>7, <2>8, QuotientIs
  <2>10. PICK u, s : u = 2 * v - 1 /\ s = q - 2 * v + 2 * Half
    OBVIOUS
  <2>11. u \in Int /\ s \in Int /\ 0 <= s /\ Half <= s /\ s < 2 * Half
    BY <1>1, <1>2, <2>3, <2>4, <2>5, <2>10
  <2>12. p = Exe!Modulus * u + s
    <3>1. Exe!Modulus * u = 2 * Half * (2 * v) - 2 * Half
      BY <1>1, <1>2, <2>10
    <3>2. 2 * v * w = 2 * v * (2 * Half) - 2 * v
      BY <1>1, <1>2, <2>6
    <3>3. 2 * v * (2 * Half) = 2 * Half * (2 * v)
      BY <1>1, <1>2
    <3>4. PICK o : o = 2 * Half * (2 * v)
      OBVIOUS
    <3>5. o \in Int /\ Exe!Modulus * u = o - 2 * Half /\ 2 * v * w = o - 2 * v
      BY <1>1, <1>2, <3>1, <3>2, <3>3, <3>4
    <3> QED BY <1>1, <1>2, <2>3, <2>6, <2>10, <3>5
  <2>13. Exe!Modulus \in Nat /\ Exe!Modulus > 0 /\ s < Exe!Modulus
    BY <1>1, <2>11
  <2>14. p % Exe!Modulus = s
    BY <2>11, <2>12, <2>13, QuotientIs
  <2>15. Exe!Signed(s) = q - 2 * v
    BY <1>1, <1>2, <2>3, <2>10, <2>11 DEF Exe!Signed, Exe!Top
  <2>16. (y - Exe!Modulus) \div t = q - 2 * v
    <3>1. PICK o : o = q - 2 * v
      OBVIOUS
    <3>2. o \in Int
      BY <1>2, <2>3, <3>1
    <3>3. t * o = t * q - 2 * (t * v)
      BY <1>2, <2>3, <3>1
    <3>4. y - Exe!Modulus = t * o + z
      BY <1>1, <1>2, <2>3, <3>2, <3>3
    <3>5. (t * o + z) \div t = o
      BY <1>2, <2>3, <3>2, QuotientIs
    <3> QED BY <3>1, <3>4, <3>5
  <2>17. r = s
    BY <1>4, <2>9, <2>14
  <2> QED BY <1>2, <1>3, <2>1, <2>15, <2>16, <2>17
<1> QED BY <1>5, <1>6

\* The product of unsigned words has two of them.
LEMMA ProductFits ==
    ASSUME NEW x \in Words, NEW y \in Words
    PROVE  (x * y) % (Exe!Modulus * Exe!Modulus) = x * y
<1>1. PICK z : z = Exe!Modulus
  OBVIOUS
<1>2. z \in Nat /\ z > 0 /\ x \in Nat /\ y \in Nat /\ x < z /\ y < z
  BY <1>1, HalfOfModulus DEF Words
<1>3. PICK o, s : o = x * y /\ s = z * z
  OBVIOUS
<1>4. o \in Nat /\ s \in Nat
  BY <1>2, <1>3
<1>5. o < s
  <2>1. x * y <= x * z
    BY <1>2, Order
  <2>2. z * (x + 1) <= z * z
    BY <1>2, Order
  <2>3. z * (x + 1) = x * z + z
    BY <1>2
  <2>4. x * z \in Nat
    BY <1>2
  <2> QED BY <1>2, <1>3, <1>4, <2>1, <2>2, <2>3, <2>4
<1>6. 0 \in Int /\ o = s * 0 + o /\ 0 <= o /\ s > 0 /\ o \in Int
  BY <1>4, <1>5
<1>7. o % s = o
  BY <1>4, <1>5, <1>6, DivisionIs
<1> QED BY <1>1, <1>3, <1>7

LEMMA AluRight ==
    ASSUME a \in [op : Exe!AluOps, a : Exe!Bits, b : Exe!Bits]
    PROVE  Exe!ResultsRight
<1>1. PICK x, y, o : x = a.a /\ y = a.b /\ o = a.op
  OBVIOUS
<1>2. x \in Words /\ y \in Words /\ o \in Exe!AluOps
  BY <1>1, HalfOfModulus
<1>3. Exe!AluResult("add", x, y) = Exe!AdderResult("add", x, y) /\ Exe!AluResult("sub", x, y) = Exe!AdderResult("sub", x, y)
  BY DEF Exe!AluResult
<1>4. CASE o = "add"
  BY <1>1, <1>2, <1>3, <1>4, AddRight DEF Exe!ResultsRight
<1>5. CASE o = "sub"
  BY <1>1, <1>2, <1>3, <1>5, SubRight DEF Exe!ResultsRight
<1>6. CASE o = "slt"
  BY <1>1, <1>2, <1>6, LessRight DEF Exe!ResultsRight
<1>7. CASE o = "sltu"
  BY <1>1, <1>2, <1>7, LessRight DEF Exe!ResultsRight
<1>8. CASE o = "sll"
  BY <1>1, <1>8 DEF Exe!ResultsRight, Exe!AluResult, Exe!ShiftBy, Exe!Wrap
<1>9. CASE o = "srl"
  BY <1>1, <1>9 DEF Exe!ResultsRight, Exe!AluResult, Exe!ShiftBy
<1>10. CASE o = "sra"
  BY <1>1, <1>2, <1>10, SraRight DEF Exe!ResultsRight
<1>11. CASE o = "mult"
  BY <1>1, <1>11 DEF Exe!ResultsRight, Exe!ResMul, Exe!MdSrc, Exe!Signed
<1>12. CASE o = "multu"
  BY <1>1, <1>2, <1>12, ProductFits DEF Exe!ResultsRight, Exe!ResMul, Exe!MdSrc
<1> QED
  BY <1>2, <1>4, <1>5, <1>6, <1>7, <1>8, <1>9, <1>10, <1>11, <1>12 DEF Exe!AluOps

----------------------------------------------------------------------------
(* Execute: loads and stores.  a is alu, b memory, c the register rt and d done. *)

\* What the load or store of a record leaves, for the memory and the register it found.
Moves(r, m2, rt2) ==
    /\ r.op \in Exe!Loads \cup Exe!Stores /\ r.at \in Exe!Address
    /\ ~ Exe!Misaligned(r.op, r.at % 4)
    /\ r.op \in Exe!Loads =>
         /\ m2 = r.memory
         /\ rt2 = [y \in Exe!Lane |->
                     IF y \in Exe!LoadWen(r.op, r.at % 4)
                     THEN Exe!MemResult(r.op, r.at % 4, [z \in Exe!Lane |-> r.memory[4 * (r.at \div 4) + z]])[y]
                     ELSE r.rt[y]]
    /\ r.op \in Exe!Stores =>
         /\ rt2 = r.rt
         /\ m2 = [y \in Exe!Address |->
                     IF y - 4 * (r.at \div 4) \in Exe!StoreWen(r.op, r.at % 4)
                     THEN Exe!Wdata(r.op, r.at % 4, r.rt)[y - 4 * (r.at \div 4)]
                     ELSE r.memory[y]]

\* The memory and the register are what the last of the history left, and what it
\* found is what the one before it left.
Moved ==
    /\ \E S : d \in Seq(S)
    /\ d # <<>> => Moves(d[Len(d)], b, c)
    /\ Len(d) >= 2 => Moves(d[Len(d) - 1], d[Len(d)].memory, d[Len(d)].rt)

ExecuteInv == a \in [op : Exe!AluOps, a : Exe!Bits, b : Exe!Bits] /\ Moved

LEMMA ByteOfWord ==
    ASSUME NEW x \in Exe!Address
    PROVE  /\ x \in Int /\ x % 4 \in 0 .. 3 /\ x \div 4 \in Int
           /\ 4 * (x \div 4) + (x % 4) = x
BY DEF Exe!Address

\* lwl from the last of four bytes, in the lanes it writes.
LEMMA LwlLanes ==
    ASSUME NEW x \in Exe!Address, x + 3 \in Exe!Address, NEW r, NEW m2, NEW rt2, Moves(r, m2, rt2),
           r.op = "lwl", r.at = x + 3
    PROVE  /\ m2 = r.memory
           /\ rt2 = [y \in Exe!Lane |-> IF y >= 3 - ((x + 3) % 4) THEN m2[x + y] ELSE r.rt[y]]
<1>1. PICK s, w : s = (x + 3) % 4 /\ w = 4 * ((x + 3) \div 4)
  OBVIOUS
<1>2. x \in Int /\ s \in 0 .. 3 /\ w \in Int /\ w + s = x + 3
  <2>1. PICK z : z = x + 3
    OBVIOUS
  <2>2. z % 4 \in 0 .. 3 /\ z \div 4 \in Int /\ 4 * (z \div 4) + (z % 4) = z
    BY <2>1, ByteOfWord
  <2> QED BY <1>1, <2>1, <2>2 DEF Exe!Address
<1>3. m2 = r.memory /\ rt2 = [y \in Exe!Lane |->
                     IF y \in Exe!LoadWen("lwl", s)
                     THEN Exe!MemResult("lwl", s, [z \in Exe!Lane |-> m2[w + z]])[y]
                     ELSE r.rt[y]]
  BY <1>1 DEF Moves, Exe!Loads
<1>4. Exe!LoadWen("lwl", s) = 3 - s .. 3
  BY DEF Exe!LoadWen
<1>5. ASSUME NEW y \in Exe!Lane, y >= 3 - s
      PROVE  Exe!MemResult("lwl", s, [z \in Exe!Lane |-> m2[w + z]])[y] = m2[x + y]
  <2>1. y \in 3 - s .. 3 /\ y - (3 - s) \in Exe!Lane /\ w + (y - (3 - s)) = x + y
    BY <1>2, <1>5 DEF Exe!Lane
  <2>2. PICK u : u = [z \in Exe!Lane |-> m2[w + z]]
    OBVIOUS
  <2>3. Exe!MemResult("lwl", s, u)[y] = u[y - (3 - s)]
    BY <1>4, <2>1 DEF Exe!MemResult
  <2>4. u[y - (3 - s)] = m2[w + (y - (3 - s))]
    BY <2>1, <2>2
  <2> QED BY <2>1, <2>2, <2>3, <2>4
<1>6. \A y \in Exe!Lane : y \in Exe!LoadWen("lwl", s) <=> y >= 3 - s
  BY <1>2, <1>4 DEF Exe!Lane
<1> QED BY <1>1, <1>3, <1>5, <1>6

LEMMA LwrLanes ==
    ASSUME NEW x \in Exe!Address, NEW r, NEW m2, NEW rt2, Moves(r, m2, rt2), r.op = "lwr", r.at = x
    PROVE  /\ m2 = r.memory
           /\ rt2 = [y \in Exe!Lane |-> IF y <= 3 - (x % 4) THEN m2[x + y] ELSE r.rt[y]]
<1>1. PICK s, w : s = x % 4 /\ w = 4 * (x \div 4)
  OBVIOUS
<1>2. x \in Int /\ s \in 0 .. 3 /\ w \in Int /\ w + s = x
  BY <1>1, ByteOfWord
<1>3. m2 = r.memory /\ rt2 = [y \in Exe!Lane |->
                     IF y \in Exe!LoadWen("lwr", s)
                     THEN Exe!MemResult("lwr", s, [z \in Exe!Lane |-> m2[w + z]])[y]
                     ELSE r.rt[y]]
  BY <1>1 DEF Moves, Exe!Loads
<1>4. Exe!LoadWen("lwr", s) = 0 .. 3 - s
  BY DEF Exe!LoadWen
<1>5. ASSUME NEW y \in Exe!Lane, y <= 3 - s
      PROVE  Exe!MemResult("lwr", s, [z \in Exe!Lane |-> m2[w + z]])[y] = m2[x + y]
  <2>1. y \in 0 .. 3 - s /\ y + s \in Exe!Lane /\ w + (y + s) = x + y
    BY <1>2, <1>5 DEF Exe!Lane
  <2>2. PICK u : u = [z \in Exe!Lane |-> m2[w + z]]
    OBVIOUS
  <2>3. Exe!MemResult("lwr", s, u)[y] = u[y + s]
    BY <1>4, <2>1 DEF Exe!MemResult
  <2>4. u[y + s] = m2[w + (y + s)]
    BY <2>1, <2>2
  <2> QED BY <2>1, <2>2, <2>3, <2>4
<1>6. \A y \in Exe!Lane : y \in Exe!LoadWen("lwr", s) <=> y <= 3 - s
  BY <1>2, <1>4 DEF Exe!Lane
<1> QED BY <1>1, <1>3, <1>5, <1>6

\* swl to the last of four bytes writes those from the start of its word.
LEMMA SwlBytes ==
    ASSUME NEW x \in Exe!Address, x + 3 \in Exe!Address, NEW r, NEW m2, NEW rt2, Moves(r, m2, rt2),
           r.op = "swl", r.at = x + 3
    PROVE  /\ rt2 = r.rt
           /\ m2 = [y \in Exe!Address |->
                     IF 4 * ((x + 3) \div 4) <= y /\ y <= x + 3 THEN rt2[y - x] ELSE r.memory[y]]
<1>1. PICK s, w : s = (x + 3) % 4 /\ w = 4 * ((x + 3) \div 4)
  OBVIOUS
<1>2. x \in Int /\ s \in 0 .. 3 /\ w \in Int /\ w + s = x + 3
  <2>1. PICK z : z = x + 3
    OBVIOUS
  <2>2. z % 4 \in 0 .. 3 /\ z \div 4 \in Int /\ 4 * (z \div 4) + (z % 4) = z
    BY <2>1, ByteOfWord
  <2> QED BY <1>1, <2>1, <2>2 DEF Exe!Address
<1>3. rt2 = r.rt /\ m2 = [y \in Exe!Address |->
                     IF y - w \in Exe!StoreWen("swl", s) THEN Exe!Wdata("swl", s, rt2)[y - w] ELSE r.memory[y]]
  BY <1>1 DEF Moves, Exe!Stores
<1>4. Exe!StoreWen("swl", s) = 0 .. s
  BY DEF Exe!StoreWen
<1>5. \A y \in Exe!Address : y - w \in Exe!StoreWen("swl", s) <=> w <= y /\ y <= x + 3
  BY <1>2, <1>4 DEF Exe!Address
<1>6. ASSUME NEW y \in Exe!Address, w <= y, y <= x + 3
      PROVE  Exe!Wdata("swl", s, rt2)[y - w] = rt2[y - x]
  <2>1. PICK z : z = y - w
    OBVIOUS
  <2>2. z \in 0 .. s /\ z + (3 - s) = y - x
    BY <1>2, <1>6, <2>1 DEF Exe!Address
  <2>3. Exe!Wdata("swl", s, rt2)[z] = rt2[z + (3 - s)]
    BY <1>4, <2>2 DEF Exe!Wdata
  <2> QED BY <2>1, <2>2, <2>3
<1> QED BY <1>1, <1>3, <1>5, <1>6

LEMMA SwrBytes ==
    ASSUME NEW x \in Exe!Address, NEW r, NEW m2, NEW rt2, Moves(r, m2, rt2), r.op = "swr", r.at = x
    PROVE  /\ rt2 = r.rt
           /\ m2 = [y \in Exe!Address |->
                     IF x <= y /\ y <= 4 * (x \div 4) + 3 THEN rt2[y - x] ELSE r.memory[y]]
<1>1. PICK s, w : s = x % 4 /\ w = 4 * (x \div 4)
  OBVIOUS
<1>2. x \in Int /\ s \in 0 .. 3 /\ w \in Int /\ w + s = x
  BY <1>1, ByteOfWord
<1>3. rt2 = r.rt /\ m2 = [y \in Exe!Address |->
                     IF y - w \in Exe!StoreWen("swr", s) THEN Exe!Wdata("swr", s, rt2)[y - w] ELSE r.memory[y]]
  BY <1>1 DEF Moves, Exe!Stores
<1>4. Exe!StoreWen("swr", s) = s .. 3
  BY DEF Exe!StoreWen
<1>5. \A y \in Exe!Address : y - w \in Exe!StoreWen("swr", s) <=> x <= y /\ y <= w + 3
  BY <1>2, <1>4 DEF Exe!Address
<1>6. ASSUME NEW y \in Exe!Address, x <= y, y <= w + 3
      PROVE  Exe!Wdata("swr", s, rt2)[y - w] = rt2[y - x]
  <2>1. PICK z : z = y - w
    OBVIOUS
  <2>2. z \in s .. 3 /\ z - s = y - x
    BY <1>2, <1>6, <2>1 DEF Exe!Address
  <2>3. Exe!Wdata("swr", s, rt2)[z] = rt2[z - s]
    BY <1>4, <2>2 DEF Exe!Wdata
  <2> QED BY <2>1, <2>2, <2>3
<1> QED BY <1>1, <1>3, <1>5, <1>6

\* The lanes of the two loads, and the bytes of the two stores, are all four.
LEMMA TogetherFour ==
    ASSUME NEW x \in Exe!Address, x + 3 \in Exe!Address
    PROVE  /\ \A y \in Exe!Lane : y >= 3 - ((x + 3) % 4) \/ y <= 3 - (x % 4)
           /\ \A y \in Exe!Address :
                (4 * ((x + 3) \div 4) <= y /\ y <= x + 3) \/ (x <= y /\ y <= 4 * (x \div 4) + 3)
                  <=> y - x \in Exe!Lane
<1>1. x \in Int /\ 0 <= x /\ x < 5
  BY DEF Exe!Address
<1>2. x = 0 \/ x = 1 \/ x = 2 \/ x = 3 \/ x = 4
  BY <1>1
<1>3. CASE x = 0
  BY <1>3 DEF Exe!Lane, Exe!Address
<1>4. CASE x = 1
  BY <1>4 DEF Exe!Lane, Exe!Address
<1>5. CASE x = 2
  BY <1>5 DEF Exe!Lane, Exe!Address
<1>6. CASE x = 3
  BY <1>6 DEF Exe!Lane, Exe!Address
<1>7. CASE x = 4
  BY <1>7 DEF Exe!Lane, Exe!Address
<1> QED BY <1>2, <1>3, <1>4, <1>5, <1>6, <1>7

LEMMA PairsRight ==
    ASSUME Moved PROVE Exe!UnalignedPairs
<1>1. SUFFICES ASSUME NEW x \in Exe!Address
               PROVE  /\ Exe!Pair("lwl", "lwr", x) => c = [y \in Exe!Lane |-> b[x + y]]
                      /\ Exe!Pair("swl", "swr", x) =>
                           b = [y \in Exe!Address |-> IF y - x \in Exe!Lane THEN c[y - x] ELSE d[Len(d) - 1].memory[y]]
  BY DEF Exe!UnalignedPairs
<1>2. PICK p, q : p = d[Len(d) - 1] /\ q = d[Len(d)]
  OBVIOUS
<1>3. Len(d) >= 2 => Moves(p, q.memory, q.rt) /\ Moves(q, b, c)
  <2>1. PICK S : d \in Seq(S)
    BY DEF Moved
  <2>2. Len(d) >= 2 => d # <<>>
    BY <2>1
  <2> QED BY <1>2, <2>2 DEF Moved
<1>4. /\ \A y \in Exe!Lane : y >= 3 - ((x + 3) % 4) \/ y <= 3 - (x % 4) \/ x + 3 \notin Exe!Address
      /\ x + 3 \in Exe!Address => \A y \in Exe!Address :
           (4 * ((x + 3) \div 4) <= y /\ y <= x + 3) \/ (x <= y /\ y <= 4 * (x \div 4) + 3) <=> y - x \in Exe!Lane
  BY TogetherFour
<1>5. ASSUME Exe!Pair("lwl", "lwr", x) PROVE c = [y \in Exe!Lane |-> b[x + y]]
  <2>1. /\ x + 3 \in Exe!Address /\ Len(d) >= 2
        /\ \/ p.op = "lwl" /\ p.at = x + 3 /\ q.op = "lwr" /\ q.at = x
           \/ p.op = "lwr" /\ p.at = x /\ q.op = "lwl" /\ q.at = x + 3
    BY <1>2, <1>5 DEF Exe!Pair
  <2>2. CASE p.op = "lwl" /\ p.at = x + 3 /\ q.op = "lwr" /\ q.at = x
    <3>1. q.rt = [y \in Exe!Lane |-> IF y >= 3 - ((x + 3) % 4) THEN q.memory[x + y] ELSE p.rt[y]]
      BY <1>3, <2>1, <2>2, LwlLanes
    <3>2. b = q.memory /\ c = [y \in Exe!Lane |-> IF y <= 3 - (x % 4) THEN b[x + y] ELSE q.rt[y]]
      BY <1>3, <2>1, <2>2, LwrLanes
    <3> QED BY <1>4, <2>1, <3>1, <3>2
  <2>3. CASE p.op = "lwr" /\ p.at = x /\ q.op = "lwl" /\ q.at = x + 3
    <3>1. q.rt = [y \in Exe!Lane |-> IF y <= 3 - (x % 4) THEN q.memory[x + y] ELSE p.rt[y]]
      BY <1>3, <2>1, <2>3, LwrLanes
    <3>2. b = q.memory /\ c = [y \in Exe!Lane |-> IF y >= 3 - ((x + 3) % 4) THEN b[x + y] ELSE q.rt[y]]
      BY <1>3, <2>1, <2>3, LwlLanes
    <3> QED BY <1>4, <2>1, <3>1, <3>2
  <2> QED BY <2>1, <2>2, <2>3
<1>6. ASSUME Exe!Pair("swl", "swr", x)
      PROVE  b = [y \in Exe!Address |-> IF y - x \in Exe!Lane THEN c[y - x] ELSE d[Len(d) - 1].memory[y]]
  <2>1. /\ x + 3 \in Exe!Address /\ Len(d) >= 2
        /\ \/ p.op = "swl" /\ p.at = x + 3 /\ q.op = "swr" /\ q.at = x
           \/ p.op = "swr" /\ p.at = x /\ q.op = "swl" /\ q.at = x + 3
    BY <1>2, <1>6 DEF Exe!Pair
  <2>2. CASE p.op = "swl" /\ p.at = x + 3 /\ q.op = "swr" /\ q.at = x
    <3>1. /\ q.rt = p.rt
          /\ q.memory = [y \in Exe!Address |->
                IF 4 * ((x + 3) \div 4) <= y /\ y <= x + 3 THEN q.rt[y - x] ELSE p.memory[y]]
      BY <1>3, <2>1, <2>2, SwlBytes
    <3>2. /\ c = q.rt
          /\ b = [y \in Exe!Address |->
                IF x <= y /\ y <= 4 * (x \div 4) + 3 THEN c[y - x] ELSE q.memory[y]]
      BY <1>3, <2>1, <2>2, SwrBytes
    <3>3. b = [y \in Exe!Address |-> IF y - x \in Exe!Lane THEN c[y - x] ELSE p.memory[y]]
      BY <1>4, <2>1, <3>1, <3>2
    <3> QED BY <1>2, <3>3
  <2>3. CASE p.op = "swr" /\ p.at = x /\ q.op = "swl" /\ q.at = x + 3
    <3>1. /\ q.rt = p.rt
          /\ q.memory = [y \in Exe!Address |->
                IF x <= y /\ y <= 4 * (x \div 4) + 3 THEN q.rt[y - x] ELSE p.memory[y]]
      BY <1>3, <2>1, <2>3, SwrBytes
    <3>2. /\ c = q.rt
          /\ b = [y \in Exe!Address |->
                IF 4 * ((x + 3) \div 4) <= y /\ y <= x + 3 THEN c[y - x] ELSE q.memory[y]]
      BY <1>3, <2>1, <2>3, SwlBytes
    <3>3. b = [y \in Exe!Address |-> IF y - x \in Exe!Lane THEN c[y - x] ELSE p.memory[y]]
      BY <1>4, <2>1, <3>1, <3>2
    <3> QED BY <1>2, <3>3
  <2> QED BY <2>1, <2>2, <2>3
<1> QED BY <1>5, <1>6

LEMMA StoreCovered ==
    ASSUME NEW op \in Exe!Stores, NEW s \in 0 .. 3, ~ Exe!Misaligned(op, s)
    PROVE  Exe!StoreWen(op, s) \subseteq Exe!Moved(op, s)
<1>1. 2 ^ 0 = 1 /\ 2 ^ 1 = 2 /\ 2 ^ 2 = 4
  OBVIOUS
<1>2. PICK o : o = Exe!Offset(op, s)
  OBVIOUS
<1>3. PICK w : w = 2 ^ Exe!Size(op, s)
  OBVIOUS
<1>4. Exe!Moved(op, s) = o .. w * ((o \div w) + 1) - 1
  BY <1>2, <1>3 DEF Exe!Moved
<1>5. s = 0 \/ s = 1 \/ s = 2 \/ s = 3
  OBVIOUS
<1>6. CASE op = "sb"
  <2>1. w = 1 /\ o = s /\ Exe!StoreWen(op, s) = {s}
    BY <1>1, <1>2, <1>3, <1>6 DEF Exe!Size, Exe!Offset, Exe!StoreWen
  <2> QED BY <1>4, <2>1
<1>7. CASE op = "sh"
  <2>1. w = 2 /\ o = s /\ Exe!StoreWen(op, s) = {s, s + 1}
    BY <1>1, <1>2, <1>3, <1>7 DEF Exe!Size, Exe!Offset, Exe!StoreWen
  <2>2. s = 0 \/ s = 2
    BY <1>5, <1>7 DEF Exe!Misaligned
  <2> QED BY <1>4, <2>1, <2>2
<1>8. CASE op = "sw"
  <2>1. s = 0
    BY <1>8 DEF Exe!Misaligned
  <2>2. w = 4 /\ o = 0 /\ Exe!StoreWen(op, s) = 0 .. 3
    BY <1>1, <1>2, <1>3, <1>8, <2>1 DEF Exe!Size, Exe!Offset, Exe!StoreWen, Exe!Lane
  <2> QED BY <1>4, <2>2
<1>9. CASE op = "swl"
  <2>1. o = 0 /\ Exe!StoreWen(op, s) = 0 .. s
    BY <1>2, <1>9 DEF Exe!Offset, Exe!StoreWen
  <2>2. w = IF s >= 2 THEN 4 ELSE IF s = 1 THEN 2 ELSE 1
    BY <1>1, <1>3, <1>5, <1>9 DEF Exe!Size
  <2> QED BY <1>4, <1>5, <2>1, <2>2
<1>10. CASE op = "swr"
  <2>1. o = s /\ Exe!StoreWen(op, s) = s .. 3
    BY <1>2, <1>10 DEF Exe!Offset, Exe!StoreWen
  <2>2. w = IF s < 2 THEN 4 ELSE IF s = 2 THEN 2 ELSE 1
    BY <1>1, <1>3, <1>5, <1>10 DEF Exe!Size
  <2> QED BY <1>4, <1>5, <2>1, <2>2
<1> QED BY <1>6, <1>7, <1>8, <1>9, <1>10 DEF Exe!Stores

LEMMA SizesCover ==
    ASSUME Moved PROVE Exe!SizeCovers
<1>1. SUFFICES ASSUME d # <<>>, d[Len(d)].op \in Exe!Stores
               PROVE  Exe!StoreWen(d[Len(d)].op, d[Len(d)].at % 4) \subseteq Exe!Moved(d[Len(d)].op, d[Len(d)].at % 4)
  BY DEF Exe!SizeCovers
<1>2. PICK r : r = d[Len(d)]
  OBVIOUS
<1>3. r.op \in Exe!Stores /\ r.at \in Exe!Address /\ ~ Exe!Misaligned(r.op, r.at % 4)
  BY <1>1, <1>2 DEF Moved, Moves
<1>4. r.at % 4 \in 0 .. 3
  BY <1>3, ByteOfWord
<1>5. Exe!StoreWen(r.op, r.at % 4) \subseteq Exe!Moved(r.op, r.at % 4)
  BY <1>3, <1>4, StoreCovered
<1> QED BY <1>2, <1>5

LEMMA ExecuteInit ==
    ASSUME Exe!Init PROVE ExecuteInv
<1>1. a \in [op : Exe!AluOps, a : Exe!Bits, b : Exe!Bits] /\ d = <<>>
  BY DEF Exe!Init
<1>2. d \in Seq({})
  BY <1>1
<1>3. ~ Len(d) >= 2
  BY <1>1
<1> QED BY <1>1, <1>2, <1>3 DEF ExecuteInv, Moved

LEMMA ExecuteStep ==
    ASSUME ExecuteInv, Exe!Next PROVE ExecuteInv'
<1>1. PICK x \in Exe!Address, op \in Exe!Loads \cup Exe!Stores :
        /\ \/ op \in Exe!Loads /\ Exe!Load(op, x)
           \/ op \in Exe!Stores /\ Exe!Store(op, x)
        /\ d' = Append(d, [op |-> op, at |-> x, memory |-> b, rt |-> c])
  BY DEF Exe!Next
<1>2. PICK r : r = [op |-> op, at |-> x, memory |-> b, rt |-> c]
  OBVIOUS
<1>3. r.op = op /\ r.at = x /\ r.memory = b /\ r.rt = c
  BY <1>2
<1>4. PICK S : d \in Seq(S)
  BY DEF ExecuteInv, Moved
<1>5. d \in Seq(S \cup {r}) /\ r \in S \cup {r}
  BY <1>4
<1>6. /\ d' \in Seq(S \cup {r}) /\ Len(d') = Len(d) + 1 /\ d'[Len(d')] = r
      /\ Len(d) \in Nat /\ (Len(d) >= 1 => d'[Len(d') - 1] = d[Len(d)] /\ d # <<>>)
  BY <1>1, <1>2, <1>5
<1>7. Moves(r, b', c')
  <2>1. op \notin Exe!Loads \/ op \notin Exe!Stores
    BY DEF Exe!Loads, Exe!Stores
  <2>2. CASE op \in Exe!Loads /\ Exe!Load(op, x)
    <3>1. /\ ~ Exe!Misaligned(op, x % 4) /\ b' = b
          /\ c' = [y \in Exe!Lane |->
                     IF y \in Exe!LoadWen(op, x % 4)
                     THEN Exe!MemResult(op, x % 4, [z \in Exe!Lane |-> b[4 * (x \div 4) + z]])[y]
                     ELSE c[y]]
      BY <2>2 DEF Exe!Load, Exe!WordAt
    <3> QED BY <1>1, <1>3, <2>1, <2>2, <3>1 DEF Moves
  <2>3. CASE op \in Exe!Stores /\ Exe!Store(op, x)
    <3>1. /\ ~ Exe!Misaligned(op, x % 4) /\ c' = c
          /\ b' = [y \in Exe!Address |->
                     IF y - 4 * (x \div 4) \in Exe!StoreWen(op, x % 4)
                     THEN Exe!Wdata(op, x % 4, c)[y - 4 * (x \div 4)]
                     ELSE b[y]]
      BY <2>3 DEF Exe!Store
    <3> QED BY <1>1, <1>3, <2>1, <2>3, <3>1 DEF Moves
  <2> QED BY <1>1, <2>2, <2>3
<1>8. Len(d') >= 2 => Moves(d'[Len(d') - 1], d'[Len(d')].memory, d'[Len(d')].rt)
  BY <1>3, <1>6 DEF ExecuteInv, Moved
<1>9. Moved'
  BY <1>6, <1>7, <1>8 DEF Moved
<1>10. a' = a
  BY DEF Exe!Next
<1> QED BY <1>9, <1>10 DEF ExecuteInv

\* For words of any width, what the adder, the shifter and the multiplier compute is
\* the arithmetic of signed and unsigned numbers, and overflow is told exactly; lwl with
\* lwr, and swl with swr, move four bytes from and to any address, whatever was loaded
\* and stored before; and the bus moves every byte a store names.
THEOREM ComputesRightAlways == Spec => []ComputesRight
<1> DEFINE Inv == part = "execute" => ExecuteInv
<1>1. Init => Inv
  BY ExecuteInit DEF Init
<1>2. Inv /\ [Next]_vars => Inv'
  <2>1. SUFFICES ASSUME Inv, [Next]_vars, part' = "execute" PROVE ExecuteInv'
    OBVIOUS
  <2>2. part = "execute" /\ (Exe!Next \/ UNCHANGED vars)
    BY <2>1 DEF Next, InBus, vars
  <2>3. CASE Exe!Next
    BY <2>1, <2>2, <2>3, ExecuteStep
  <2>4. CASE UNCHANGED vars
    <3>1. a' = a /\ b' = b /\ c' = c /\ d' = d
      BY <2>4 DEF vars
    <3> QED BY <2>1, <2>2, <3>1 DEF ExecuteInv, Moved
  <2> QED BY <2>2, <2>3, <2>4
<1>3. Inv => ComputesRight
  BY AluRight, PairsRight, SizesCover DEF ComputesRight, ExecuteInv
<1> QED
  BY <1>1, <1>2, <1>3, PTL DEF Spec
=============================================================================
