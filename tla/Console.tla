------------------------------ MODULE Console -------------------------------
(***************************************************************************)
(* The text console, kernel/console.c; console_vprintf of                  *)
(* kernel/console_utils.c; the blue screens of kernel/bsod.c; and the      *)
(* diagnostics of kernel/debug.c, which print through them.                *)
(*                                                                         *)
(* A character is a one-character string; a run of plain text without      *)
(* control characters stands as one character.  An operation works out     *)
(* what it prints and then puts one character at a time, because an        *)
(* exception, and with it a blue screen, may come between any two.         *)
(* console_init is called by kernel_init (kernel/init.c) only, which boot  *)
(* does not call: until then vga_buffer is NULL and the cells are the      *)
(* memory at address 0.                                                    *)
(***************************************************************************)
EXTENDS Numerals, FiniteSetsExt

CONSTANTS
  Width, Height, TabStop, \* CONSOLE_WIDTH, CONSOLE_HEIGHT, 8
  DumpWidth,    \* 16, the bytes in a line of a memory dump
  Chars,        \* characters put by a single console_putc
  Numbers,      \* numbers printed
  Colours,      \* pairs of colours
  Cursors,      \* arguments of console_set_cursor
  Levels,       \* arguments of debug_set_level and of the command loglevel
  MaxLog        \* bound: characters since the last clear, before an operation

ASSUME ConsoleAssumption ==
  /\ Width \in Nat \ {0} /\ Height \in Nat \ {0} /\ TabStop \in Nat \ {0}
  /\ DumpWidth \in Nat \ {0}
  /\ Numbers \subseteq 0 .. WordMod - 1 /\ Cursors \subseteq Nat \X Nat

VARIABLES
  con,          \* the console: cells, cursor, attribute
  visible,      \* vga_buffer is the screen's memory
  level,        \* current_debug_level
  pending,      \* the characters that the operation under way has still to put
  dead,         \* it is a blue screen, and the machine halts after it
  log,          \* history: what was put since the last clear, with attributes
  cleared,      \* history: the attribute of that clear
  known,        \* history: there was one, and the cursor was not moved since
  number        \* history: the number printed last: base, value, characters

vars == <<con, visible, level, pending, dead, log, cleared, known, number>>

Rows == 0 .. Height - 1
Cols == 0 .. Width - 1
Cell(ch, attr) == [ch |-> ch, attr |-> attr]

\* ESC and the other control characters; and, char being signed, all bytes of
\* a non-ASCII letter.
Dropped == {"esc", "ctl", "utf8"}

-----------------------------------------------------------------------------
(* console.c *)

Attr(fg, bg) == (bg * 16 + (fg % 16)) % 256
DefaultAttr == Attr(7, 0)

Clear(c) ==
  [c EXCEPT !.cell = [r \in Rows |-> [k \in Cols |-> Cell(" ", c.attr)]],
            !.x = 0, !.y = 0]

\* Mutant: the last line keeps its characters.
console_scroll_keepLast(c) ==
  [c EXCEPT !.cell = [r \in Rows |-> c.cell[IF r < Height - 1 THEN r + 1 ELSE r]],
            !.y = IF @ > 0 THEN @ - 1 ELSE @]

console_scroll(c) ==
  [c EXCEPT !.cell = [r \in Rows |->
                        IF r < Height - 1 THEN c.cell[r + 1]
                        ELSE [k \in Cols |-> Cell(" ", c.attr)]],
            !.y = IF @ > 0 THEN @ - 1 ELSE @]

\* One character: move or write, then wrap, then scroll.
console_putc(c, ch) ==
  LET moved == CASE ch = "\n" -> [c EXCEPT !.x = 0, !.y = @ + 1]
                 [] ch = "\r" -> [c EXCEPT !.x = 0]
                 [] ch = "\t" -> [c EXCEPT !.x = ((@ + TabStop) \div TabStop) * TabStop]
                 [] ch \in Dropped -> c
                 [] OTHER -> [c EXCEPT !.cell[c.y][c.x] = Cell(ch, c.attr), !.x = @ + 1]
      wrapped == IF moved.x >= Width THEN [moved EXCEPT !.x = 0, !.y = @ + 1] ELSE moved
  IN IF wrapped.y >= Height THEN console_scroll(wrapped) ELSE wrapped

-----------------------------------------------------------------------------
(* Operations on the console *)

NoNumber == [base |-> 10, value |-> 0, text |-> <<"0">>]

Idle == pending = << >> /\ ~dead

\* console_puts, and the loop of console_vprintf.
Emit(text) ==
  /\ Idle /\ Len(log) < MaxLog
  /\ pending' = text
  /\ UNCHANGED <<con, visible, dead, log, cleared, known>>

PutNext ==
  /\ pending # << >>
  /\ con' = console_putc(con, Head(pending))
  /\ log' = Append(log, Cell(Head(pending), con.attr))
  /\ pending' = Tail(pending)
  /\ UNCHANGED <<visible, level, dead, cleared, known, number>>

PutNumber(s, base, value) ==
  /\ Emit(s) /\ number' = [base |-> base, value |-> value, text |-> s]
  /\ UNCHANGED level

PutText(s) == Emit(s) /\ number' = NoNumber /\ UNCHANGED level

console_clear ==
  /\ Idle
  /\ con' = Clear(con)
  /\ log' = << >> /\ cleared' = con.attr /\ known' = TRUE /\ number' = NoNumber
  /\ UNCHANGED <<visible, level, pending, dead>>

console_init ==
  /\ Idle /\ ~visible /\ visible' = TRUE
  /\ con' = Clear(con)
  /\ log' = << >> /\ cleared' = con.attr /\ known' = TRUE /\ number' = NoNumber
  /\ UNCHANGED <<level, pending, dead>>

\* console_set_attr, console_set_color.
console_set_color(fg, bg) ==
  /\ Idle
  /\ con' = [con EXCEPT !.attr = Attr(fg, bg)]
  /\ number' = NoNumber
  /\ UNCHANGED <<visible, level, pending, dead, log, cleared, known>>

\* A coordinate outside the screen is ignored, each by itself.
console_set_cursor(x, y) ==
  /\ Idle
  /\ con' = [con EXCEPT !.x = IF x < Width THEN x ELSE @,
                        !.y = IF y < Height THEN y ELSE @]
  /\ known' = FALSE /\ number' = NoNumber
  /\ UNCHANGED <<visible, level, pending, dead, log, cleared>>

console_put_hex(n) == PutNumber(HexDigits(n), 16, n)
console_put_dec(n) == PutNumber(Numeral(n, 10), 10, n)

\* console_printf with one numeric directive.
Signed(n) == IF n < WordMod \div 2 THEN n ELSE n - WordMod
console_printf(n) ==
  \/ PutNumber(Decimal(n), 10, Signed(n))
  \/ PutNumber(Numeral(n, 10), 10, n)
  \/ PutNumber(Hex(n), 16, n)

\* A directive with a width is not understood: its characters are printed as they
\* stand, and its argument is not fetched.  So it counts as text.
Wide == "%"

-----------------------------------------------------------------------------
(* debug.c *)

TRACE == 0
INFO == 2
ERROR == 4
NONE == 6

\* debug_print: prefix, message and newline.  The colours are escape sequences, of
\* which the console drops one character and prints the rest.
Message(text) == <<"esc", "p", "esc", "p">> \o text \o <<"\n">>

\* A message of a lower level than the current one is not printed.
At(lev, now, text) == IF lev < now THEN << >> ELSE Message(text)

debug_set_level(n) ==
  /\ Idle
  /\ level' = IF n \in TRACE .. NONE THEN n ELSE level
  /\ UNCHANGED <<con, visible, pending, dead, log, cleared, known, number>>

debug_print(lev) == PutText(At(lev, level, <<"m">>))

\* The lines of a dump: address and bytes, which are directives with a width, and
\* the bytes that are printable.
DumpLine(bytes) ==
  <<Wide>> \o [j \in 1 .. DumpWidth |-> IF j <= Len(bytes) THEN Wide ELSE " "]
    \o [j \in DOMAIN bytes |-> IF bytes[j] \in Dropped THEN "." ELSE bytes[j]]
    \o <<"|", "\n">>
debug_dump_memory(bytes) ==
  LET lines[i \in Nat] ==
        IF i >= Len(bytes) THEN << >>
        ELSE DumpLine(SubSeq(bytes, i + 1, Min({i + DumpWidth, Len(bytes)})))
               \o lines[i + DumpWidth]
  IN PutText(At(INFO, level, <<"M">>) \o lines[0])

debug_print_registers ==
  PutText(At(INFO, level, <<"R">>)
            \o <<Wide, "\n", Wide, "\n", Wide, "\n", Wide, "\n">>)

\* The walk over saved frame pointers: at most max frames, up to a NULL.
debug_print_stack_trace(max, depth) ==
  LET frames[i \in 0 .. max] ==
        IF i = 0 THEN << >>
        ELSE frames[i - 1] \o <<"[">> \o Numeral(i - 1, 10) \o <<Wide, "\n">>
  IN PutText(At(INFO, level, <<"S">> \o Numeral(max, 10)) \o frames[Min({max, depth})])

\* The one process that process_current knows of, if any.
debug_print_process_list(pid) ==
  PutText(At(INFO, level, <<"P">>)
            \o <<"P", "\t", "S", "\n", "-", "\n">>
            \o (IF pid = 0 THEN << >> ELSE Decimal(pid) \o <<"\t", "s", "\n">>))

debug_print_memory_map ==
  PutText(At(INFO, level, <<"M">>) \o <<"k", "\n", "u", "\n", "h", "\n">>
            \o At(INFO, level, <<"N">>))

\* "loglevel N": the level is set first, so that its own message may be lost.
CommandLoglevel(n) ==
  /\ level' = IF n \in TRACE .. NONE - 1 THEN n ELSE level
  /\ Emit(IF n \in TRACE .. NONE - 1 THEN At(INFO, level', <<"G">> \o Decimal(n))
           ELSE At(ERROR, level', <<"I">>))
  /\ number' = NoNumber

CommandHelp ==
  PutText(<<"A", "\n", "r", "\n", "p", "\n", "s", "\n", "m", "\n", "l", "\n", "h", "\n">>)
CommandUnknown == PutText(At(ERROR, level, <<"U">>))

debug_command ==
  \/ debug_print_registers
  \/ \E pid \in {0, 1} : debug_print_process_list(pid)
  \/ debug_print_stack_trace(3, 2)
  \/ debug_print_memory_map
  \/ \E n \in Levels : CommandLoglevel(n)
  \/ CommandHelp \/ CommandUnknown

-----------------------------------------------------------------------------
(* bsod.c *)

\* A blue screen, also in the middle of an operation that never goes on: colours,
\* clear, cursor to the top, text, halt.
BlueScreen(text) ==
  LET blue == [con EXCEPT !.attr = Attr(15, 1)] IN
  /\ ~dead /\ dead' = TRUE
  /\ con' = Clear(blue)
  /\ pending' = text
  /\ log' = << >> /\ cleared' = blue.attr /\ known' = TRUE /\ number' = NoNumber
  /\ UNCHANGED <<visible, level>>

bsod_header(title) == <<"\n", "*", "\n", "\n", title, "\n", "\n">>

\* The message is printed without formatting.
kernel_bsod(msg) == BlueScreen(bsod_header("K") \o msg \o <<"\n", "\n", "S", "\n">>)

\* Two lines of registers, if there is a context.
bsod_regs(ctx) == IF ctx THEN <<"K", "\n", "r", "\n", "r", "\n", "\n">> ELSE << >>

kernel_bsod_exception(vector, error_code, ctx, cr2) ==
  BlueScreen(
    bsod_header("C")
      \o <<"I">> \o Numeral(vector, 10) \o <<"\n">>
      \o <<"H">> \o HexDigits(error_code) \o <<"(">> \o Numeral(error_code, 10) \o <<"\n">>
      \o (IF vector = 14 THEN <<"F">> \o HexDigits(cr2) \o <<"\n">> ELSE << >>)
      \o <<"\n">> \o bsod_regs(ctx) \o <<"Y", "\n", "-", "\n", "-", "\n">>)

-----------------------------------------------------------------------------
Unknown == [r \in Rows |-> [k \in Cols |-> Cell("?", 0)]]

Init ==
  /\ con = [cell |-> Unknown, x |-> 0, y |-> 0, attr |-> DefaultAttr]
  /\ visible = FALSE /\ level = INFO /\ pending = << >> /\ dead = FALSE
  /\ log = << >> /\ cleared = DefaultAttr /\ known = FALSE /\ number = NoNumber

Next ==
  \/ console_init \/ console_clear \/ PutNext
  \/ \E ch \in Chars : PutText(<<ch>>)
  \/ \E p \in Colours : console_set_color(p[1], p[2])
  \/ \E p \in Cursors : console_set_cursor(p[1], p[2])
  \/ \E n \in Numbers : console_put_hex(n) \/ console_put_dec(n) \/ console_printf(n)
  \/ \E n \in Levels : debug_set_level(n)
  \/ debug_print(INFO) \/ debug_print(ERROR)
  \/ debug_dump_memory(<<"a", "ctl", "b">>)
  \/ debug_command
  \/ kernel_bsod(<<"m", "utf8", "\n", "m">>)
  \/ \E v \in {6, 14} : kernel_bsod_exception(v, 2, v = 14, 9)

Spec == Init /\ [][Next]_vars

-----------------------------------------------------------------------------
(* Properties *)

\* A page without end on which the characters of the log are laid out: where the
\* i-th one goes, the last being the place of the cursor.
Wrap(p, col) == IF col >= Width THEN <<p[1] + 1, 0>> ELSE <<p[1], col>>
Advance(p, ch) ==
  CASE ch = "\n" -> <<p[1] + 1, 0>>
    [] ch = "\r" -> <<p[1], 0>>
    [] ch = "\t" -> Wrap(p, p[2] - (p[2] % TabStop) + TabStop)
    [] ch \in Dropped -> p
    [] OTHER -> Wrap(p, p[2] + 1)
Place ==
  LET at[i \in 1 .. Len(log) + 1] ==
        IF i = 1 THEN <<0, 0>> ELSE Advance(at[i - 1], log[i - 1].ch)
  IN [i \in 1 .. Len(log) + 1 |-> at[i]]
Printable(ch) == ch \notin {"\n", "\r", "\t"} \cup Dropped

\* What the page has at a place.  A line that a scroll brought in is blank in the
\* colours of the character that caused the scroll.
OnPage(at, row, col) ==
  LET there == {i \in DOMAIN log : at[i] = <<row, col>> /\ Printable(log[i].ch)}
      first == {i \in DOMAIN log : at[i][1] < row /\ at[i + 1][1] = row}
  IN IF there # {} THEN log[Max(there)]
     ELSE Cell(" ", IF row < Height THEN cleared ELSE log[Max(first)].attr)

\* The cursor is always on the screen, so that no character is written behind its
\* memory; and from a clear on the screen shows the last lines of the page that
\* all output since then makes, whoever printed it and whatever its wrapping,
\* tabs, scrolling and changes of colour: a blue screen leaves no trace of what
\* was printed before it.
ScreenIsTail ==
  /\ con.x \in Cols /\ con.y \in Rows
  /\ known =>
       LET at == Place
           end == at[Len(log) + 1]
           top == Max({0, end[1] - (Height - 1)})
       IN /\ <<con.y + top, con.x>> = end
          /\ \A r \in Rows, k \in Cols : con.cell[r][k] = OnPage(at, r + top, k)

\* The number printed last reads back as the number that was passed: every digit
\* is there, and in its place, in the decimal and the hexadecimal printers of the
\* console and of its printf, at both ends of their range; the one exception is
\* %d of the most negative number.
DigitValue(ch) == (CHOOSE i \in 1 .. 16 : Lower[i] = ch \/ Upper[i] = ch) - 1
NumbersReadBack ==
  LET neg == number.text[1] = "-"
      digits == IF neg THEN Tail(number.text) ELSE number.text
      read[i \in 0 .. Len(digits)] ==
        IF i = 0 THEN 0 ELSE read[i - 1] * number.base + DigitValue(digits[i])
  IN number.value # - (WordMod \div 2) =>
       number.value = IF neg THEN - read[Len(digits)] ELSE read[Len(digits)]
=============================================================================
