------------------------------ MODULE Datapath ------------------------------
(***************************************************************************)
(* The parts of the processor that do not share state, side by side: a     *)
(* behaviour is one of Execute, Forwarding, Divider, Translate, Interrupts  *)
(* or Bridge.  The variables of the part are kept in a, b, c and so on.      *)
(***************************************************************************)
EXTENDS Integers, Sequences

CONSTANTS
    NumBits, NumSteps,                                          \* of Execute
    Register, Partial, Watched,                                 \* of Forwarding
    NumPairs,                                                   \* of Divider
    NumEntries, NumVpn, NumAsid, Global, NumLo,                 \* of Translate
    Masks, MaxSpecial,                                          \* of Interrupts
    NumAddr, NumValue, BusPromises                              \* of Bridge

VARIABLES part, a, b, c, d, e, f, g, h, i, j, k, l, m, n

fromJ == <<j, k, l, m, n>>
fromG == <<g, h, i, fromJ>>
fromE == <<e, f, fromG>>
vars  == <<part, a, b, c, d, fromE>>

Exe == INSTANCE Execute WITH alu <- a, memory <- b, rt <- c, done <- d
Fwd == INSTANCE Forwarding WITH es <- a, ms <- b, ws <- c, rf <- d, ideal <- e, taken <- f
Div == INSTANCE Divider WITH
          es <- a, asks <- b, success <- c, taken <- d, works <- e, dout <- f, hilo <- g, want <- h, haunted <- i
Tlb == INSTANCE Translate WITH tlb <- a, cp0 <- b, es <- c, ms <- d, ws <- e
Irq == INSTANCE Interrupts WITH
          cp0 <- a, ds <- b, es <- c, ms <- d, ws <- e, since <- f, fresh <- g, inside <- h, tick <- i
Bus == INSTANCE Bridge WITH
          Promises <- BusPromises, read <- a, ar <- b, rready <- c, kept <- d, wbusy <- e, aw <- f, w <- g,
          bready <- h, inst <- i, data <- j, slave <- k, r <- l, b <- m, ideal <- n

ASSUME DatapathAssumption ==
    Bus!BridgeAssumption /\ Irq!InterruptsAssumption /\ Fwd!ForwardingAssumption /\ Div!DividerAssumption
    /\ Tlb!TranslateAssumption /\ Exe!ExecuteAssumption

OffFromJ == j = "off" /\ k = "off" /\ l = "off" /\ m = "off" /\ n = "off"
OffFromG == g = "off" /\ h = "off" /\ i = "off" /\ OffFromJ

Init ==
    \/ part = "execute" /\ Exe!Init /\ e = "off" /\ f = "off" /\ OffFromG
    \/ part = "forwarding" /\ Fwd!Init /\ OffFromG
    \/ part = "divider" /\ Div!Init /\ OffFromJ
    \/ part = "translate" /\ Tlb!Init /\ f = "off" /\ OffFromG
    \/ part = "interrupts" /\ Irq!Init /\ OffFromJ
    \/ part = "bridge" /\ Bus!Init

\* A cycle of the bridge.
InBus(A) == part = "bridge" /\ A /\ UNCHANGED part

Next ==
    \/ part = "execute" /\ Exe!Next /\ UNCHANGED <<part, fromE>>
    \/ part = "forwarding" /\ Fwd!Next /\ UNCHANGED <<part, fromG>>
    \/ part = "divider" /\ Div!Next /\ UNCHANGED <<part, fromJ>>
    \/ part = "translate" /\ Tlb!Next /\ UNCHANGED <<part, f, fromG>>
    \/ part = "interrupts" /\ Irq!Next /\ UNCHANGED <<part, fromJ>>
    \/ InBus(Bus!Next)

\* The slave of the bus answers, and the bridge goes on with the clock.
Spec ==
    /\ Init /\ [][Next]_vars
    /\ WF_vars(InBus(Bus!Takes))
    /\ SF_vars(InBus(Bus!Answers(Bus!Fetch))) /\ SF_vars(InBus(Bus!Answers(Bus!Load)))

----------------------------------------------------------------------------

\* What alu.v and the multiplier compute is right for signed and unsigned words, with
\* overflow told when there is one; lwl with lwr loads four bytes from anywhere, swl
\* with swr stores them and no other; and the bus moves every byte a strobe names.
ComputesRight == part = "execute" => Exe!ResultsRight /\ Exe!UnalignedPairs /\ Exe!SizeCovers

\* The operands that leave ID are those the instructions before it have left.
OperandsRight == part = "forwarding" => Fwd!OperandsRight

\* LO and HI get the quotient of the operands in EXE, unless the divider was still busy
\* with operands it had taken of a bubble or of a flushed division.
QuotientsRight == part = "divider" => Div!QuotientsRight

\* What TLBP and a load find is what the TLB holds with the instructions before them
\* executed, a TLB write among them that was under way at the search; but for MTC0 to
\* EntryHi, which the hardware does not wait for long enough.
TlbRight == part = "translate" => Tlb!SearchRight

\* An interrupt is not taken in a handler; where software masks or withdraws one, at
\* most the three instructions behind are interrupted all the same; and after a handler
\* that writes Compare and returns, none is taken without a new tick.
InterruptsRight == part = "interrupts" => Irq!NoNesting /\ Irq!NotLate /\ Irq!ReturnsClean

\* An answer of the bus goes to the port that waits for it and is from the address asked
\* for, though two reads be under way; a load reads the last store, and a store is
\* written once, with its own data.
BusRight == part = "bridge" => Bus!Paired /\ Bus!ReadsRight /\ Bus!StoresLand

\* Whoever asks the bus is answered: a stream of fetches does not keep a load waiting,
\* nor the other way round.
BusAnswers ==
    \A id \in {0, 1} : (part = "bridge" /\ Bus!Asks(id)) ~> (part = "bridge" /\ Bus!Gets(id))

----------------------------------------------------------------------------
(* The instance that is checked.  Two of the loads of a part of a word: one that writes *)
(* lane 1 and one that does not.  What is written to Status: both lines and one with    *)
(* all masked.                                                                         *)

MCPartial == {<<"lwl", 1>>, <<"lwl", 2>>}
MCMasks == {[ie |-> TRUE, im |-> {"time", "soft"}], [ie |-> FALSE, im |-> {"time"}]}
=============================================================================
