------------------------------ MODULE Divider ------------------------------
(***************************************************************************)
(* How EXE_stage.v uses a divider: two channels that take the operands, an *)
(* answer some cycles later, and the registers LO and HI.  The signed and  *)
(* the unsigned divider are two copies of this.  The two operands of an    *)
(* instruction are a number, and a quotient is the two numbers it is of.   *)
(* Nothing here looks at es_valid but LO and HI: a division that has left  *)
(* EXE, or was flushed, starts the divider again until the next            *)
(* instruction comes.                                                      *)
(***************************************************************************)
EXTENDS Naturals, Sequences

CONSTANT NumPairs     \* operand pairs

DividerAssumption == NumPairs \in Nat \ {0}

Pairs == 1 .. NumPairs
None  == <<0, 0>>

VARIABLES
    es,      \* EXE: valid, inst_div, and the operands; kept when no longer valid
    asks,    \* divisor_tvalid and dividend_tvalid
    success, \* divisor_success and dividend_success
    taken,   \* external: operands the divider has taken on either channel
    works,   \* external: divisions under way, oldest first
    dout,    \* external: what is at the output in this cycle, if anything
    hilo,    \* LO and HI: whose quotient they are
    want,    \* history: whose they should be
    haunted  \* history: the divider has taken operands that no division in EXE is
             \*   waiting for, and has not been empty since

vars == <<es, asks, success, taken, works, dout, hilo, want, haunted>>

Channel == {"divisor", "dividend"}
Empty   == [c \in Channel |-> <<>>]

\* The divider has nothing: no operand, no division, no answer.
Idle == success = {} /\ taken = Empty /\ works = <<>> /\ dout = None

Init ==
    /\ es = [v |-> FALSE, div |-> FALSE, pair |-> 1]
    /\ asks = {} /\ success = {}
    /\ taken = Empty /\ works = <<>> /\ dout = None
    /\ hilo = None /\ want = None /\ haunted = FALSE

Divides == es.v /\ es.div

\* es_ready_go: a division waits for its answer.  Mutant: it does not.
NoWait   == TRUE
ReadyGo  == es.div => dout # None

\* The channels that ask next: a division asks once on each.
AsksNext(ready) ==
    {c \in Channel : IF es.div /\ c \notin success /\ c \notin asks THEN TRUE
                     ELSE c \in asks /\ c \notin ready}

\* A channel that was taken is not asked again before the answer.
SuccessNext(ready) ==
    {c \in Channel : IF c \in asks /\ c \in ready THEN TRUE ELSE c \in success /\ dout = None}

\* External: the divider works on a pair when both its halves are there.
Divide(ready, answers) ==
    LET now == [c \in Channel |-> IF c \in ready THEN Append(taken[c], es.pair) ELSE taken[c]]
        both == \A c \in Channel : now[c] # <<>>
    IN /\ taken' = IF both THEN [c \in Channel |-> Tail(now[c])] ELSE now
       /\ works' = (IF answers THEN Tail(works) ELSE works)
                     \o (IF both THEN <<<<Head(now["divisor"]), Head(now["dividend"])>>>> ELSE <<>>)
       /\ dout' = IF answers THEN Head(works) ELSE None

\* What EXE holds next: an instruction from ID or a bubble when there is room, and a
\* flush leaves the register but not the valid bit.
Comes == [v : {TRUE}, div : BOOLEAN, pair : Pairs]
Off(s) == [s EXCEPT !.v = FALSE]
Loads(leaves, flush) ==
    LET in == (IF leaves \/ ~ es.v THEN Comes \cup {Off(es)} ELSE {es})
    IN IF flush THEN {Off(s) : s \in in} ELSE in

\* allow: MEM has room; flush: ws_reflush or refetch; wen: exe_ex_wen.
Cycle(ready, answers, allow, flush, wen) ==
    LET leaves == es.v /\ ReadyGo /\ allow
    IN /\ asks' = AsksNext(ready) /\ success' = SuccessNext(ready)
       /\ Divide(ready, answers)
       /\ es' \in Loads(leaves, flush)
       /\ hilo' = IF Divides /\ wen /\ dout # None THEN dout ELSE hilo
       /\ want' = IF ~ (Divides /\ wen /\ (dout # None \/ leaves)) THEN want
                  ELSE IF haunted THEN hilo' ELSE <<es.pair, es.pair>>
       /\ haunted' = (~ Idle' /\ (haunted \/ (Divides /\ flush) \/ (~ Divides /\ ready # {})))

Next ==
    \E ready \in SUBSET asks, answers, allow, flush, wen \in BOOLEAN :
        /\ answers => works # <<>>
        /\ flush => ~ wen
        /\ Cycle(ready, answers, allow, flush, wen)

----------------------------------------------------------------------------

\* A division that leaves EXE leaves the quotient of its own operands in LO and HI, and not
\* that of a division before it, unless the divider was still busy with operands it had
\* taken of a bubble or of a division that was flushed.
QuotientsRight == hilo = want
----------------------------------------------------------------------------
(* The invariant that DatapathProofs shows to be inductive: unless it is   *)
(* haunted, whatever is on its way through the divider is of the division  *)
(* in EXE, and without one there is nothing.                               *)

DividerInv ==
    /\ hilo = want
    /\ asks \subseteq Channel
    /\ ~ haunted /\ ~ Divides => Idle
    /\ ~ haunted /\ Divides =>
        /\ success \subseteq Channel \ asks
        /\ taken \in [Channel -> {<<>>, <<es.pair>>}]
        /\ \A c \in Channel : taken[c] # <<>> => c \in success
        /\ works \in {<<>>, <<<<es.pair, es.pair>>>>} /\ dout \in {None, <<es.pair, es.pair>>}
        /\ works # <<>> \/ dout # None => success = Channel /\ taken = Empty
        /\ dout # None => works = <<>>
        /\ ~ \A c \in Channel : taken[c] # <<>>
=============================================================================
