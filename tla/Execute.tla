------------------------------ MODULE Execute ------------------------------
(***************************************************************************)
(* What EXE and MEM compute: the results and the overflow of the adder,    *)
(* the shifter and the multiplier for words of NumBits bits, and the bytes *)
(* that loads and stores move.  A step is a load or a store; the bytes of  *)
(* memory and of the register are names, so that one run stands for all    *)
(* contents.                                                               *)
(***************************************************************************)
EXTENDS Lanes

CONSTANTS
    NumBits,   \* width of a word, 32
    NumSteps   \* bound on the loads and stores in a row

ExecuteAssumption == NumBits \in Nat \ {0}

VARIABLES
    alu,     \* the operation and the operands the adder sees
    memory,  \* bytes of two words
    rt,      \* lanes of the one register
    done     \* history: the loads and stores, with memory and register before

vars == <<alu, memory, rt, done>>

Modulus == 2 ^ NumBits
Bits    == 0 .. Modulus - 1
Address == 0 .. 7
AluOps  == {"add", "sub", "slt", "sltu", "sll", "srl", "sra", "mult", "multu"}

Init ==
    /\ alu \in [op : AluOps, a : Bits, b : Bits]
    /\ memory = [i \in Address |-> <<"memory", i>>]
    /\ rt = [j \in Lane |-> <<"register", j>>]
    /\ done = <<>>

----------------------------------------------------------------------------
(* alu.v, and the multiplier of EXE_stage.v                                *)

Top(x)    == x >= Modulus \div 2
NotBit(x) == Modulus - 1 - x

\* Mutant: the operand that is taken away is not carried in.
NoCarry(op, a, b) == IF op = "add" THEN a + b ELSE a + NotBit(b)
Adder(op, a, b)   == IF op = "add" THEN a + b ELSE a + NotBit(b) + 1
AdderResult(op, a, b) == Adder(op, a, b) % Modulus
AdderCout(op, a, b)   == Adder(op, a, b) >= Modulus

Bit(x) == IF x THEN 1 ELSE 0
ShiftBy(a) == a % NumBits
Extended(x) == IF Top(x) THEN x + Modulus * (Modulus - 1) ELSE x   \* 64 bits of it

AluResult(op, a, b) ==
    CASE op \in {"add", "sub"} -> AdderResult(op, a, b)
      [] op = "slt"  -> Bit(\/ Top(a) /\ ~ Top(b)
                            \/ (Top(a) <=> Top(b)) /\ Top(AdderResult(op, a, b)))
      [] op = "sltu" -> Bit(~ AdderCout(op, a, b))
      [] op = "sll"  -> (b * 2 ^ ShiftBy(a)) % Modulus
      [] op = "srl"  -> b \div 2 ^ ShiftBy(a)
      [] op = "sra"  -> (Extended(b) \div 2 ^ ShiftBy(a)) % Modulus

\* overflow, of the instructions with ov_act
Overflow(op, a, b) ==
    LET r == AdderResult(op, a, b)
    IN \/ op = "add" /\ \/ Top(a) /\ Top(b) /\ ~ Top(r)
                        \/ ~ Top(a) /\ ~ Top(b) /\ Top(r)
       \/ op = "sub" /\ \/ Top(a) /\ ~ Top(b) /\ ~ Top(r)
                        \/ ~ Top(a) /\ Top(b) /\ Top(r)

\* mdsrc1 and mdsrc2 have one bit more, so that one signed multiplier does both.
MdSrc(op, x) == IF op = "mult" /\ Top(x) THEN x - Modulus ELSE x
ResMul(op, a, b) == (MdSrc(op, a) * MdSrc(op, b)) % (Modulus * Modulus)

----------------------------------------------------------------------------
(* Loads and stores                                                        *)

WordAt(a) == [j \in Lane |-> memory[4 * (a \div 4) + j]]

Load(op, a) ==
    LET sel == a % 4
        r   == MemResult(op, sel, WordAt(a))
    IN /\ ~ Misaligned(op, sel)
       /\ rt' = [j \in Lane |-> IF j \in LoadWen(op, sel) THEN r[j] ELSE rt[j]]
       /\ UNCHANGED memory

Store(op, a) ==
    LET sel  == a % 4
        base == 4 * (a \div 4)
        d    == Wdata(op, sel, rt)
    IN /\ ~ Misaligned(op, sel)
       /\ memory' = [i \in Address |-> IF i - base \in StoreWen(op, sel) THEN d[i - base] ELSE memory[i]]
       /\ UNCHANGED rt

\* With other operands in the adder nothing moves: the two are apart.
Next ==
    /\ Len(done) < NumSteps /\ alu = [op |-> "add", a |-> 0, b |-> 0]
    /\ \E a \in Address :
         \/ \E op \in Loads :
              Load(op, a) /\ done' = Append(done, [op |-> op, at |-> a, memory |-> memory, rt |-> rt])
         \/ \E op \in Stores :
              Store(op, a) /\ done' = Append(done, [op |-> op, at |-> a, memory |-> memory, rt |-> rt])
    /\ UNCHANGED alu

Spec == Init /\ [][Next]_vars

----------------------------------------------------------------------------
(* Properties                                                              *)

Signed(x) == IF Top(x) THEN x - Modulus ELSE x
Wrap(n)   == n % Modulus
InRange(n) == n >= - (Modulus \div 2) /\ n < Modulus \div 2

\* Results are those of arithmetic on signed and unsigned numbers, and overflow is
\* told exactly when a signed sum or difference has no word.
ResultsRight ==
    LET a == alu.a
        b == alu.b
        r == AluResult(alu.op, a, b)
    IN CASE alu.op = "add"  -> r = Wrap(a + b) /\ (Overflow("add", a, b) <=> ~ InRange(Signed(a) + Signed(b)))
         [] alu.op = "sub"  -> r = Wrap(a - b) /\ (Overflow("sub", a, b) <=> ~ InRange(Signed(a) - Signed(b)))
         [] alu.op = "slt"  -> r = 1 <=> Signed(a) < Signed(b)
         [] alu.op = "sltu" -> r = 1 <=> a < b
         [] alu.op = "sll"  -> r = Wrap(b * 2 ^ (a % NumBits))
         [] alu.op = "srl"  -> r = b \div 2 ^ (a % NumBits)
         [] alu.op = "sra"  -> Signed(r) = Signed(b) \div 2 ^ (a % NumBits)
         [] alu.op = "mult" -> ResMul("mult", a, b) = (Signed(a) * Signed(b)) % (Modulus * Modulus)
         [] alu.op = "multu" -> ResMul("multu", a, b) = a * b

\* The pair that ends the history, the instruction on the last byte and the one on the
\* first byte of four, in either order.
Pair(left, right, a) ==
    /\ Len(done) >= 2 /\ a + 3 \in Address
    /\ LET m == done[Len(done) - 1]
           n == done[Len(done)]
       IN \/ m.op = left /\ m.at = a + 3 /\ n.op = right /\ n.at = a
          \/ m.op = right /\ m.at = a /\ n.op = left /\ n.at = a + 3

\* lwl and lwr load any four bytes in a row, swl and swr store them and no other.
UnalignedPairs ==
    \A a \in Address :
        /\ Pair("lwl", "lwr", a) => rt = [j \in Lane |-> memory[a + j]]
        /\ Pair("swl", "swr", a) =>
              memory = [i \in Address |-> IF i - a \in Lane THEN rt[i - a] ELSE done[Len(done) - 1].memory[i]]

\* The bytes a store's strobe names are those the bus moves for its address and size.
Moved(op, sel) ==
    LET width == 2 ^ Size(op, sel)
        from  == Offset(op, sel)
    IN from .. width * (from \div width + 1) - 1
SizeCovers ==
    done # <<>> =>
        LET last == done[Len(done)]
        IN last.op \in Stores => StoreWen(last.op, last.at % 4) \subseteq Moved(last.op, last.at % 4)
=============================================================================
