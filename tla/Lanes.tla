------------------------------- MODULE Lanes -------------------------------
(***************************************************************************)
(* What loads and stores do with the four bytes of a word: the strobe and  *)
(* the data of a store (EXE_stage.v), the lanes of the register a load     *)
(* writes and what it writes there (MEM_stage.v).  A word is a function on *)
(* the lanes, lane 0 the least significant; sel is the address modulo 4.   *)
(***************************************************************************)
EXTENDS Integers, Sequences

Lane == 0 .. 3
Loads  == {"lb", "lbu", "lh", "lhu", "lw", "lwl", "lwr"}
Stores == {"sb", "sh", "sw", "swl", "swr"}

\* load_AdEL, store_AdES
Misaligned(op, sel) ==
    \/ op \in {"lh", "lhu", "sh"} /\ sel % 2 # 0
    \/ op \in {"lw", "sw"} /\ sel # 0

\* load_wen
LoadWen(op, sel) ==
    CASE op = "lwl" -> 3 - sel .. 3
      [] op = "lwr" -> 0 .. 3 - sel
      [] OTHER -> Lane

\* What extends a byte or a halfword whose last lane holds b.
Zero == <<"zero">>
Sign(b) == <<"sign">> \o b

\* mem_result, of the lanes the load writes
MemResult(op, sel, rdata) ==
    [j \in LoadWen(op, sel) |->
        CASE op = "lw"  -> rdata[j]
          [] op = "lwl" -> rdata[j - (3 - sel)]
          [] op = "lwr" -> rdata[j + sel]
          [] op = "lb"  -> IF j = 0 THEN rdata[sel] ELSE Sign(rdata[sel])
          [] op = "lbu" -> IF j = 0 THEN rdata[sel] ELSE Zero
          [] op = "lh"  -> IF j < 2 THEN rdata[sel + j] ELSE Sign(rdata[sel + 1])
          [] op = "lhu" -> IF j < 2 THEN rdata[sel + j] ELSE Zero]

\* store_wen
StoreWen(op, sel) ==
    CASE op = "sb"  -> {sel}
      [] op = "sh"  -> {sel, sel + 1}
      [] op = "sw"  -> Lane
      [] op = "swl" -> 0 .. sel
      [] op = "swr" -> sel .. 3

\* data_sram_wdata, of the lanes the store writes
Wdata(op, sel, rt) ==
    [j \in StoreWen(op, sel) |->
        CASE op = "swl" -> rt[j + (3 - sel)]
          [] op = "sw"  -> rt[j]
          [] OTHER      -> rt[j - sel]]

\* data_sram_size: 2 to the power of it is the number of bytes.
Size(op, sel) ==
    CASE op \in {"lw", "sw"} \/ (op \in {"lwl", "swl"} /\ sel >= 2) \/ (op \in {"lwr", "swr"} /\ sel < 2) -> 2
      [] op \in {"lh", "lhu", "sh"} \/ (op \in {"lwl", "swl"} /\ sel = 1) \/ (op \in {"lwr", "swr"} /\ sel = 2) -> 1
      [] OTHER -> 0

\* addr, its last two bits: swl and lwl go to the start of the word.
Offset(op, sel) == IF op \in {"lwl", "swl"} THEN 0 ELSE sel
=============================================================================
