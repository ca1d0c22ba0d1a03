------------------------------- MODULE Output -------------------------------
(***************************************************************************)
(* What the kernel and its tasks print: printk.c puts a format and its     *)
(* arguments into a buffer, screen.c keeps the screen twice, as it should  *)
(* be and as it was drawn, draws what differs and gives every task a       *)
(* cursor, which the scheduler saves.  Characters are their codes, a       *)
(* format is the list of its directives with their arguments.  The kernel  *)
(* is not interrupted, but a task may block in it.  An argument of %u or   *)
(* %x is unsigned; mini_itoa() divides by an unsigned radix, so that it    *)
(* prints all of it.  Tasks move their cursors and scroll on the screen    *)
(* only.                                                                   *)
(***************************************************************************)
EXTENDS Integers, Sequences, SequencesExt

CONSTANTS
    SCREEN_WIDTH, SCREEN_HEIGHT,
    BUFF,       \* the size of buff[]
    Task, Formats,
    MaxCalls    \* bound of the calls

VARIABLES
    cells,              \* new_screen, old_screen and the terminal's own, by row and column
    cursor,             \* screen_cursor_x and _y
    pcb,                \* of each task the cursor saved, kernel_state and where it is
    current_running,
    calls,              \* begun so far
    page                \* history: the screen as rows, and each task's place on it

vars == <<cells, cursor, pcb, current_running, calls, page>>

Backspace == 8
Newline == 10
Enter == 13
Blank == 32
Minus == 45
Zero == 48
Scribble == -1          \* what a printk leaves on the terminal alone

Place == (0 .. SCREEN_HEIGHT - 1) \X (0 .. SCREEN_WIDTH - 1)
Origin == [x |-> 0, y |-> 0]

me == pcb[current_running]
At(where) == me.at = where /\ me.irq = "no"

----------------------------------------------------------------------------
\* printk.c

\* Back to front, at least one.
RECURSIVE Digits(_, _, _)
Digits(value, radix, letter) ==
    LET digit == value % radix
    IN  <<IF digit < 10 THEN Zero + digit ELSE letter + digit - 10>>
            \o IF value \div radix > 0 THEN Digits(value \div radix, radix, letter) ELSE <<>>

mini_itoa(value, radix, letter, zero_pad) ==
    LET digits == Digits(IF value < 0 THEN -value ELSE value, radix, letter)
        padded == digits \o [k \in 1 .. zero_pad - Len(digits) |-> Zero]
    IN  Reverse(IF value < 0 THEN Append(padded, Minus) ELSE padded)

Room(out) == BUFF - Len(out) - 1

_putc(ch, out) == IF Room(out) > 0 THEN Append(out, ch) ELSE out

_puts(s, out) == out \o SubSeq(s, 1, IF Room(out) < Len(s) THEN Room(out) ELSE Len(s))

\* A directive: d, zero_pad and its argument, or a plain character.
Directive(f, out) ==
    CASE f.d \in {"d", "u"} -> _puts(mini_itoa(f.arg[1], 10, 97, f.zero_pad), out)
      [] f.d = "x" -> _puts(mini_itoa(f.arg[1], 16, 97, f.zero_pad), out)
      [] f.d = "X" -> _puts(mini_itoa(f.arg[1], 16, 65, f.zero_pad), out)
      [] f.d = "s" -> _puts(f.arg, out)
      [] f.d \in {"c", "plain"} -> _putc(f.arg[1], out)

More == me.i <= Len(me.fmt) /\ Room(me.out) > 0

mini_vsnprintf ==
    /\ (At("printf") \/ At("prints")) /\ More
    /\ pcb' = [pcb EXCEPT ![current_running].out = Directive(me.fmt[me.i], @),
                          ![current_running].i = @ + 1]
    /\ UNCHANGED <<cells, cursor, current_running, calls, page>>

----------------------------------------------------------------------------
\* screen.c

\* vt100_move_cursor() prints by printk, which is silent outside the kernel: the
\* character would land somewhere else.
screen_reflush(c) ==
    [p \in Place |-> IF c[p].new = c[p].old THEN c[p]
                     ELSE [new |-> c[p].new, old |-> c[p].new,
                           shown |-> IF me.kernel_state THEN c[p].new ELSE c[p].shown]]

screen_scroll(c, line1, line2) ==
    [p \in Place |-> IF p[1] \notin line1 .. line2 THEN c[p]
                     ELSE [c[p] EXCEPT !.old = 0,
                                       !.new = IF p[1] = line2 THEN Blank ELSE c[<<p[1] + 1, p[2]>>].new]]

Plain(ch) == ch \notin {Newline, Backspace, Enter}

Typed(ch) ==
    IF Plain(ch) THEN [cells EXCEPT ![<<cursor.y, cursor.x>>].new = ch]
    ELSE IF ch = Backspace /\ cursor.x > 0 THEN [cells EXCEPT ![<<cursor.y, cursor.x - 1>>].new = Blank]
    ELSE cells

\* The cursor after ch, before the ends of line and screen are looked at.
Moved(ch) ==
    IF Plain(ch) THEN [cursor EXCEPT !.x = @ + 1]
    ELSE IF ch # Backspace THEN [x |-> 0, y |-> cursor.y + 1]
    ELSE IF cursor.x > 0 THEN [cursor EXCEPT !.x = @ - 1] ELSE cursor

Wrapped(cur) == IF cur.x >= SCREEN_WIDTH THEN [x |-> 0, y |-> cur.y + 1] ELSE cur

\* The line the screen scrolls from when it is full.
Middle == SCREEN_HEIGHT \div 2 + 1

screen_write_ch(ch) ==
    LET cur == Wrapped(Moved(ch))
    IN  IF cur.y < SCREEN_HEIGHT THEN cells' = screen_reflush(Typed(ch)) /\ cursor' = cur
        ELSE /\ cells' = screen_reflush(screen_scroll(Typed(ch), Middle, SCREEN_HEIGHT - 1))
             /\ cursor' = [x |-> 0, y |-> SCREEN_HEIGHT - 1]

----------------------------------------------------------------------------
\* The page: a row leaves and an empty one comes, and places count through the rows.

EmptyRow == [k \in 1 .. SCREEN_WIDTH |-> Blank]

Rolled(rows, line1, line2) == InsertAt(RemoveAt(rows, line1 + 1), line2 + 1, EmptyRow)

PageTyped(ch) ==
    LET k == page.place[current_running]
        row == k \div SCREEN_WIDTH
        next == IF Plain(ch) THEN k + 1 ELSE IF ch # Backspace THEN (row + 1) * SCREEN_WIDTH
                ELSE IF k > row * SCREEN_WIDTH THEN k - 1 ELSE k
        mark == IF Plain(ch) THEN k ELSE next
        rows == IF Plain(ch) \/ next < k
                THEN [page.rows EXCEPT ![row + 1][(mark % SCREEN_WIDTH) + 1] = IF Plain(ch) THEN ch ELSE Blank]
                ELSE page.rows
        full == next >= SCREEN_WIDTH * SCREEN_HEIGHT
    IN  [rows |-> IF full THEN Rolled(rows, Middle, SCREEN_HEIGHT - 1) ELSE rows,
         place |-> [page.place EXCEPT ![current_running] = IF full THEN SCREEN_WIDTH * (SCREEN_HEIGHT - 1) ELSE next],
         drawn |-> TRUE]

----------------------------------------------------------------------------
\* A task on its way into the kernel and back.

Goes(where) == pcb' = [pcb EXCEPT ![current_running].at = where]
Enters(where) == pcb' = [pcb EXCEPT ![current_running].at = where, ![current_running].kernel_state = TRUE]
Begin == calls < MaxCalls /\ calls' = calls + 1

Starts(where) ==
    \E fmt \in Formats :
        pcb' = [pcb EXCEPT ![current_running].at = where, ![current_running].fmt = fmt,
                           ![current_running].i = 1, ![current_running].out = <<>>]

\* printf() formats in the task and then calls the kernel, prints() formats in the kernel.
printf == At("user") /\ Begin /\ Starts("printf") /\ UNCHANGED <<cells, cursor, current_running, page>>

prints == At("kernel") /\ Starts("prints") /\ UNCHANGED <<cells, cursor, current_running, calls, page>>

sys_write ==
    /\ (At("printf") \/ At("prints")) /\ ~More
    /\ pcb' = [pcb EXCEPT ![current_running].at = "write", ![current_running].kernel_state = TRUE,
                          ![current_running].i = 1]
    /\ UNCHANGED <<cells, cursor, current_running, calls, page>>

screen_write ==
    /\ At("write") /\ me.i <= Len(me.out)
    /\ screen_write_ch(me.out[me.i])
    /\ page' = PageTyped(me.out[me.i])
    /\ pcb' = [pcb EXCEPT ![current_running].i = @ + 1]
    /\ UNCHANGED <<current_running, calls>>

Written ==
    /\ At("write") /\ me.i > Len(me.out)
    /\ pcb' = [pcb EXCEPT ![current_running].at = "leave", ![current_running].fmt = <<>>,
                          ![current_running].out = <<>>, ![current_running].i = 0]
    /\ UNCHANGED <<cells, cursor, current_running, calls, page>>

SystemCall == At("user") /\ Begin /\ Enters("kernel") /\ UNCHANGED <<cells, cursor, current_running, page>>

screen_move_cursor ==
    /\ At("kernel") /\ Goes("leave")
    /\ \E p \in Place :
          /\ cursor' = [x |-> p[2], y |-> p[1]]
          /\ page' = [page EXCEPT !.place[current_running] = p[1] * SCREEN_WIDTH + p[2]]
    /\ UNCHANGED <<cells, current_running, calls>>

\* All lines, whichever are asked for.
screen_clear ==
    /\ At("kernel") /\ Goes("leave")
    /\ cells' = screen_reflush([p \in Place |-> [cells[p] EXCEPT !.new = Blank, !.old = 0]])
    /\ cursor' = Origin
    /\ page' = [rows |-> [k \in 1 .. SCREEN_HEIGHT |-> EmptyRow],
                place |-> [page.place EXCEPT ![current_running] = 0], drawn |-> TRUE]
    /\ UNCHANGED <<current_running, calls>>

\* Not drawn before the next character, timer interrupt or sys_reflush().
sys_screen_scroll ==
    /\ At("kernel") /\ Goes("leave")
    /\ \E line1, line2 \in 0 .. SCREEN_HEIGHT - 1 :
          /\ line1 <= line2
          /\ cells' = screen_scroll(cells, line1, line2)
          /\ page' = [page EXCEPT !.rows = Rolled(@, line1, line2), !.drawn = FALSE]
    /\ UNCHANGED <<cursor, current_running, calls>>

sys_reflush ==
    /\ At("kernel") /\ Goes("leave")
    /\ cells' = screen_reflush(cells)
    /\ page' = [page EXCEPT !.drawn = TRUE]
    /\ UNCHANGED <<cursor, current_running, calls>>

\* The kernel's own messages go to the terminal past both screens.
printk ==
    /\ At("kernel") /\ me.kernel_state /\ Goes("leave")
    /\ \E p \in Place : cells' = [cells EXCEPT ![p].shown = Scribble]
    /\ UNCHANGED <<cursor, current_running, calls, page>>

\* The running task's record becomes mine, with the cursor; the next task's cursor is set.
Switch(mine) ==
    \E next \in Task \ {current_running} :
        /\ pcb' = [pcb EXCEPT ![current_running] = [mine EXCEPT !.cursor = cursor]]
        /\ cursor' = pcb[next].cursor
        /\ current_running' = next

do_block ==
    /\ At("kernel") /\ Switch([me EXCEPT !.at = "leave"])
    /\ UNCHANGED <<cells, calls, page>>

Leave ==
    /\ At("leave")
    /\ pcb' = [pcb EXCEPT ![current_running].at = "user", ![current_running].kernel_state = FALSE]
    /\ UNCHANGED <<cells, cursor, current_running, calls, page>>

\* The way back from a TLB miss does not reset kernel_state.
TlbMiss ==
    /\ (At("user") \/ At("printf")) /\ ~me.kernel_state
    /\ Begin /\ Enters(me.at)
    /\ UNCHANGED <<cells, cursor, current_running, page>>

\* A timer interrupt: the entry, irq_timer(), and the way back when the task runs again.
Interrupt ==
    /\ At("user") \/ At("printf")
    /\ pcb' = [pcb EXCEPT ![current_running].irq = "entered", ![current_running].kernel_state = TRUE]
    /\ UNCHANGED <<cells, cursor, current_running, calls, page>>

irq_timer ==
    /\ me.irq = "entered" /\ Switch([me EXCEPT !.irq = "left"])
    /\ cells' = screen_reflush(cells)
    /\ page' = [page EXCEPT !.drawn = TRUE]
    /\ UNCHANGED calls

iret ==
    /\ me.irq = "left"
    /\ pcb' = [pcb EXCEPT ![current_running].irq = "no", ![current_running].kernel_state = FALSE]
    /\ UNCHANGED <<cells, cursor, current_running, calls, page>>

----------------------------------------------------------------------------

\* After init_screen(); the first task runs.
Init ==
    /\ cells = [p \in Place |-> [new |-> Blank, old |-> Blank, shown |-> Blank]]
    /\ cursor = Origin
    /\ pcb = [t \in Task |-> [cursor |-> Origin, kernel_state |-> FALSE, at |-> "user", irq |-> "no",
                              fmt |-> <<>>, i |-> 0, out |-> <<>>]]
    /\ current_running = CHOOSE t \in Task : TRUE
    /\ calls = 0
    /\ page = [rows |-> [k \in 1 .. SCREEN_HEIGHT |-> EmptyRow], place |-> [t \in Task |-> 0], drawn |-> TRUE]

Next ==
    \/ printf \/ prints \/ mini_vsnprintf \/ sys_write \/ screen_write \/ Written
    \/ SystemCall \/ screen_move_cursor \/ screen_clear \/ sys_screen_scroll \/ sys_reflush
    \/ printk \/ do_block \/ Leave
    \/ TlbMiss \/ Interrupt \/ irq_timer \/ iret

Spec == Init /\ [][Next]_vars

----------------------------------------------------------------------------

\* value as a numeral of at least pad digits.
Numeral(value, radix, pad, letter) ==
    LET size == IF value < 0 THEN -value ELSE value
        long == CHOOSE n \in 1 .. 31 : /\ n >= pad /\ radix ^ n > size
                                       /\ \A k \in 1 .. n - 1 : k < pad \/ radix ^ k <= size
        Digit(d) == IF d < 10 THEN Zero + d ELSE letter + d - 10
    IN  (IF value < 0 THEN <<Minus>> ELSE <<>>)
            \o [k \in 1 .. long |-> Digit((size \div radix ^ (long - k)) % radix)]

Meant(f) ==
    CASE f.d \in {"d", "u"} -> Numeral(f.arg[1], 10, f.zero_pad, 97)
      [] f.d = "x" -> Numeral(f.arg[1], 16, f.zero_pad, 97)
      [] f.d = "X" -> Numeral(f.arg[1], 16, f.zero_pad, 65)
      [] f.d \in {"s", "c", "plain"} -> f.arg

Text(fmt) == FlattenSeq([k \in DOMAIN fmt |-> Meant(fmt[k])])

\* What is printed is what the format means, as far as the buffer goes; the screen kept in
\* new_screen is the page on which each task writes at a place of its own, whoever writes
\* in between; and but for a scroll not yet drawn the terminal shows it, save where the
\* kernel scribbled.
OutputRight ==
    /\ \A t \in Task : pcb[t].at = "write" =>
           LET text == Text(pcb[t].fmt)
           IN  pcb[t].out = SubSeq(text, 1, IF Len(text) < BUFF THEN Len(text) ELSE BUFF - 1)
    /\ \A p \in Place : cells[p].new = page.rows[p[1] + 1][p[2] + 1]
    /\ \A t \in Task :
           LET cur == IF t = current_running THEN cursor ELSE pcb[t].cursor
           IN  page.place[t] = cur.y * SCREEN_WIDTH + cur.x
    /\ \A p \in Place : cells[p].old = 0 \/ cells[p].shown \in {cells[p].old, Scribble}
    /\ page.drawn => \A p \in Place : cells[p].new = cells[p].old
=============================================================================
