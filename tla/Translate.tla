----------------------------- MODULE Translate -----------------------------
(***************************************************************************)
(* The TLB of myCPU (tlb.v) and the coprocessor registers that go with it  *)
(* (cp0.v), as the instructions in EXE, MEM and WB use them: TLBP and      *)
(* loads search in EXE, the others act in WB.  One step is one cycle; a    *)
(* store is a load.  An exception in WB, ERET, and a TLB write anywhere in *)
(* the pipeline empty the stages behind WB.                                *)
(***************************************************************************)
EXTENDS Naturals

CONSTANTS
    NumEntries,   \* TLBNUM, 16
    NumVpn,       \* values of the page number, VPN2
    NumAsid,
    Global,       \* values of the global bit in use
    NumLo         \* values of a pair of frames, with its valid and dirty bits

TranslateAssumption ==
    /\ NumEntries \in {1, 2, 4, 8, 16} /\ NumVpn \in Nat \ {0}   \* VPN2 has 19 bits
    /\ NumAsid \in Nat \ {0} /\ NumLo \in Nat \ {0}
    /\ Global \subseteq BOOLEAN /\ Global # {}

Entry == 0 .. NumEntries - 1
Hi    == [vpn : 0 .. NumVpn - 1, asid : 0 .. NumAsid - 1]
Lo    == [frames : 0 .. NumLo - 1, g : Global]
Tlb   == [Entry -> [hi : Hi, lo : Lo]]

VARIABLES
    tlb,         \* the entries
    cp0,         \* Index, EntryHi, EntryLo0 and EntryLo1
    es, ms, ws   \* EXE, MEM, WB: valid, the instruction, what a search found; history:
                 \*   whether MTC0 to EntryHi was under way before a search

vars == <<tlb, cp0, es, ms, ws>>

\* Instructions.  Any that has nothing to do with the TLB passes like a bubble, but for
\* ERET and those with an exception.
Insts ==
    [op : {"entryHi"}, hi : Hi] \cup [op : {"entryLo"}, lo : Lo] \cup [op : {"index"}, index : Entry]
    \cup [op : {"tlbwi", "tlbr", "tlbp", "eret", "raises"}] \cup [op : {"load"}, vpn : 0 .. NumVpn - 1]

Does(s, ops) == s.v /\ s.i.op \in ops
Lookups == {"tlbp", "load"}
Whole   == {"tlbwi", "tlbr"}

NotFound == [found |-> FALSE]
Nop == [v |-> FALSE, i |-> [op |-> "pass"], got |-> NotFound, early |-> FALSE]

\* A reset leaves the entries as they are.
Init ==
    /\ tlb \in Tlb
    /\ cp0 \in [index : {0}, hi : [vpn : {0}, asid : {0}], lo : Lo]
    /\ es = Nop /\ ms = Nop /\ ws = Nop

----------------------------------------------------------------------------
(* tlb.v                                                                   *)

Matches(t, vpn, asid) == {e \in DOMAIN t : t[e].hi.vpn = vpn /\ (t[e].hi.asid = asid \/ t[e].lo.g)}

\* The page does not match two entries.
OneMatch(t, vpn, asid) == \A x, y \in Matches(t, vpn, asid) : x = y

\* The two ports of tlb.v are alike: one for fetches, one for loads, stores and TLBP.
\* s0_index, s1_index: the bits of all indices that match are combined.
Combined(m) ==
    LET bit(weight) == IF \E e \in m : (e \div weight) % 2 = 1 THEN weight ELSE 0
    IN bit(1) + bit(2) + bit(4) + bit(8)
IgnoresAsid(t, vpn, asid) ==   \* Mutant: the ASID is not compared.
    LET m == {e \in DOMAIN t : t[e].hi.vpn = vpn}
    IN IF m = {} THEN NotFound ELSE [found |-> TRUE, at |-> Combined(m), frames |-> t[Combined(m)].lo.frames]
SearchPort(t, vpn, asid) ==
    LET m == Matches(t, vpn, asid)
    IN IF m = {} THEN NotFound ELSE [found |-> TRUE, at |-> Combined(m), frames |-> t[Combined(m)].lo.frames]

\* What a search should find: the entry that matches.
Search(t, vpn, asid) ==
    LET m == Matches(t, vpn, asid)
    IN IF m = {} THEN NotFound
       ELSE LET e == CHOOSE x \in m : \A y \in m : x <= y IN [found |-> TRUE, at |-> e, frames |-> t[e].lo.frames]

----------------------------------------------------------------------------
(* What an instruction does                                                *)

Misses(s) == s.i.op = "load" /\ ~ s.got.found

\* s1_vpn2: TLBP looks for the page in EntryHi.
Page(s) == IF s.i.op = "load" THEN s.i.vpn ELSE cp0.hi.vpn

\* What WB does to the registers, TLBP apart.  EntryHi of a page that misses is set by
\* tlb_ex, which does not look at ws_valid.
WriteBack ==
    CASE Misses(ws) -> [cp0 EXCEPT !.hi.vpn = ws.i.vpn]
      [] Does(ws, {"entryHi"}) -> [cp0 EXCEPT !.hi = ws.i.hi]
      [] Does(ws, {"entryLo"}) -> [cp0 EXCEPT !.lo = ws.i.lo]
      [] Does(ws, {"index"}) -> [cp0 EXCEPT !.index = ws.i.index]
      [] Does(ws, {"tlbr"}) -> [cp0 EXCEPT !.hi = tlb[cp0.index].hi, !.lo = tlb[cp0.index].lo]
      [] OTHER -> cp0

\* wb_ex, and with ERET ws_reflush.
Raises == ws.v /\ (Misses(ws) \/ ws.i.op = "raises")

\* tlbp_we, index: TLBP sets Index in every cycle that it is in EXE, but with TLBWI or
\* TLBR in WB; what a search that fails returns as index is 0.
Probed(f) ==
    IF Does(es, {"tlbp"}) /\ ~ Raises /\ ~ Does(ws, Whole \cup {"index"})
      THEN [WriteBack EXCEPT !.index = IF f.found THEN f.at ELSE 0]
      ELSE WriteBack

\* tlbwi
Filled == IF Does(ws, {"tlbwi"}) THEN [tlb EXCEPT ![cp0.index] = [hi |-> cp0.hi, lo |-> cp0.lo]] ELSE tlb

----------------------------------------------------------------------------
(* A cycle                                                                 *)

\* refetch: with an instruction in WB and a TLB write anywhere from ID on, what is
\* behind WB is fetched again.  Mutant: a TLB write in WB is forgotten.
SparesWb(id) == ws.v /\ \E s \in {id, es, ms} : Does(s, Whole)
Refetch(id)  == ws.v /\ \E s \in {id, es, ms, ws} : Does(s, Whole)

Flush(id) == Raises \/ Does(ws, {"eret"}) \/ Refetch(id)

\* es_ready_go: TLBP waits for EntryHi.
WroteHi(s) == Does(s, {"entryHi"})
EsReady == ~ (Does(es, {"tlbp"}) /\ WroteHi(ms))

\* What a stage holds while it is not valid shows nowhere, but for a load that missed.
Left(s) == IF Misses(s) THEN [s EXCEPT !.v = FALSE] ELSE Nop

\* What is in ID, an instruction or a bubble.
InId == {Nop} \cup [v : {TRUE}, i : Insts, got : {NotFound}, early : {FALSE}]

\* allow: MEM has room.
Cycle(allow, id) ==
    LET leaves == es.v /\ EsReady /\ allow
        found  == IF es.i.op \in Lookups THEN SearchPort(tlb, Page(es), cp0.hi.asid) ELSE NotFound
    IN /\ es' = IF Flush(id) THEN Nop ELSE IF leaves \/ ~ es.v THEN id ELSE es
       /\ ms' = IF Flush(id) THEN Nop
                ELSE IF leaves
                  THEN [es EXCEPT !.got = found, !.early = es.i.op \in Lookups /\ (WroteHi(ms) \/ WroteHi(ws))]
                ELSE IF allow THEN Nop ELSE ms
       /\ ws' = IF allow /\ ms.v /\ ~ Flush(id) THEN ms ELSE Left(IF allow /\ ms.v THEN ms ELSE ws)
       /\ cp0' = Probed(found)
       /\ tlb' = Filled

Next ==
    \E allow \in BOOLEAN, id \in InId :
        /\ ~ allow => Does(ms, {"load"}) /\ ~ Misses(ms)     \* only a load waits in MEM
        /\ Cycle(allow, id)

Spec == Init /\ [][Next]_vars

----------------------------------------------------------------------------

\* A load or a TLBP that comes to WB has found the one entry that matches now, with all
\* the instructions before it executed, wherever TLB writes, exceptions and misses were
\* around it in the pipeline; but for a search with MTC0 to EntryHi in MEM or WB, which
\* looks under the old EntryHi.
SearchRight ==
    Does(ws, Lookups) /\ ~ ws.early /\ OneMatch(tlb, Page(ws), cp0.hi.asid)
        => ws.got = Search(tlb, Page(ws), cp0.hi.asid)

----------------------------------------------------------------------------
(* The invariant it rests on                                               *)

Found == {NotFound} \cup [found : {TRUE}, at : Entry, frames : 0 .. NumLo - 1]
Stage == [v : BOOLEAN, i : Insts \cup {Nop.i}, got : Found, early : BOOLEAN]
Regs  == [index : Entry, hi : Hi, lo : Lo]

\* What was found on the way is what would be found now.
HasFound(s) == Does(s, Lookups) /\ ~ s.early => s.got = SearchPort(tlb, Page(s), cp0.hi.asid)

TranslateInv ==
    /\ tlb \in Tlb /\ cp0 \in Regs /\ es \in Stage /\ ms \in Stage /\ ws \in Stage
    /\ HasFound(ms) /\ HasFound(ws)
    /\ Does(ms, Lookups) /\ ~ ms.early => ~ WroteHi(ws)
    /\ ~ ws.v /\ Misses(ws) => cp0.hi.vpn = ws.i.vpn \/ (~ es.v /\ ~ ms.v)
=============================================================================
