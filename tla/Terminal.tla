------------------------------ MODULE Terminal ------------------------------
(***************************************************************************)
(* The kernel's terminal and what happens on it from power-on: the boot    *)
(* sequence of _kernel_main with its messages and its splash screen        *)
(* (kernel/splash.c), the wait for ENTER, the start of the scheduler; and  *)
(* the kernel shell with its line editor (read_line of kernel/kernel.c,    *)
(* shell_thread of kernel/shell.c).                                        *)
(*                                                                         *)
(* Splash screen and terminal write to the same video memory, the one at   *)
(* fixed places, the other at its cursor.  Colours are left out, and a run *)
(* of plain text is one character.  Keys come from the keyboard's ring or  *)
(* the serial line when they are polled; module Keyboard is about the ring.*)
(* Nothing in this commit starts the shell's thread: here it may start     *)
(* once the scheduler runs.                                                *)
(***************************************************************************)
EXTENDS Numerals, FiniteSets

CONSTANTS
  W, H,
  BarRow, BarCol, BarLen, \* the progress bar, 30 cells
  SpinMax,      \* rounds of the loop that waits for ENTER, 10000000
  LineMax,      \* LINE_MAX, the size of the shell's buffer
  Glyphs,       \* the printable keys
  MaxKeys       \* bound: keys the shell reads

ASSUME TerminalAssumption ==
  /\ W \in Nat \ {0} /\ H \in Nat \ {0} /\ LineMax \in 2 .. W * H
  /\ BarRow \in 0 .. H - 1 /\ BarLen \in Nat /\ SpinMax \in Nat
  /\ Glyphs \cap {"bs", "\n", "other"} = {}

VARIABLES
  screen,       \* video memory, by row and column
  r, c,         \* the terminal's cursor
  stage,        \* where the boot processor is
  step,         \* the next step of the boot sequence
  spin,         \* rounds of the wait
  line,         \* out[0 .. i-1] of read_line
  start,        \* history: the cell of the cursor when read_line was called
  typed,        \* history: the keys it has taken since
  slipped,      \* history: it had to erase across the top left corner
  keys          \* keys read so far

termVars == <<screen, r, c>>
lineVars == <<line, start, typed, slipped>>
terminalVars == <<termVars, stage, step, spin, lineVars, keys>>

-----------------------------------------------------------------------------
(* The terminal of kernel.c *)

Term == [screen |-> screen, r |-> r, c |-> c]
Show(t) == screen' = t.screen /\ r' = t.r /\ c' = t.c

Blank == [y \in 0 .. H - 1 |-> [x \in 0 .. W - 1 |-> " "]]

putat(s, ch, x, y) == IF x < W /\ y < H THEN [s EXCEPT ![y][x] = ch] ELSE s

\* The next row; below the last one is the first, whose text stays.
Down(row) == IF row + 1 >= H THEN 0 ELSE row + 1

put(t, ch) ==
  CASE ch = "\n" -> [t EXCEPT !.c = 0, !.r = Down(t.r)]
    [] ch = "bs" /\ t.c > 0 ->
         [t EXCEPT !.c = t.c - 1, !.screen = putat(t.screen, " ", t.c - 1, t.r)]
    [] ch = "bs" /\ t.c = 0 /\ t.r > 0 ->
         [t EXCEPT !.c = W - 1, !.r = t.r - 1,
                   !.screen = putat(t.screen, " ", W - 1, t.r - 1)]
    [] ch = "bs" /\ t.c = 0 /\ t.r = 0 -> t
    [] OTHER ->
         [screen |-> putat(t.screen, ch, t.c, t.r),
          c |-> IF t.c + 1 = W THEN 0 ELSE t.c + 1,
          r |-> IF t.c + 1 = W THEN Down(t.r) ELSE t.r]

\* writes, and what is left of kvprintf once its directives are expanded.
writes(t, s) ==
  LET out[i \in 0 .. Len(s)] == IF i = 0 THEN t ELSE put(out[i - 1], s[i])
  IN out[Len(s)]

terminal_clear_screen(t) == [screen |-> Blank, r |-> 0, c |-> 0]

-----------------------------------------------------------------------------
(* The splash screen *)

\* Text at a fixed place, clipped at the right edge.
vga_text_putstr(s, x, y, str) ==
  [s EXCEPT ![y] = [k \in 0 .. W - 1 |->
                      IF k >= x /\ k - x < Len(str) THEN str[k - x + 1] ELSE @[k]]]

vga_text_clear == Blank

\* The bar and, behind it, the number.
splash_update_progress(s, percent) ==
  LET p == IF percent > 100 THEN 100 ELSE percent
      bar == [i \in 1 .. BarLen |-> IF i - 1 < (p * BarLen) \div 100 THEN "#" ELSE " "]
  IN vga_text_putstr(vga_text_putstr(s, BarCol, BarRow, bar),
                     BarCol + BarLen, BarRow, Numeral(p, 10) \o <<"%">>)

\* Logo, and an empty bar.
splash_show(s) ==
  LET logo == vga_text_putstr(vga_text_clear, BarCol, 0, <<"R">>)
  IN vga_text_putstr(vga_text_putstr(logo, 0, BarRow, <<"[">>),
                     BarCol + BarLen, BarRow, <<"]", "0", "%">>)

-----------------------------------------------------------------------------
(* Boot *)

\* What _kernel_main shows after each of its initialisations; those that write a
\* line to the terminal do so first.
Percents == <<5, 15, 25, 35, 45, 55, 65, 75, 85, 90, 95, 96, 97, 98, 99, 100>>
Writing == {1, 3, 4}
SplashAfter == 6

term_init ==
  /\ stage = "off" /\ stage' = "boot"
  /\ Show([screen |-> Blank, r |-> 0, c |-> 0])
  /\ UNCHANGED <<step, spin, lineVars, keys>>

_kernel_main ==
  /\ stage = "boot" /\ step <= Len(Percents)
  /\ LET t == IF step \in Writing THEN writes(Term, <<"m", "\n">>) ELSE Term
         s == splash_update_progress(t.screen, Percents[step])
     IN Show([t EXCEPT !.screen = IF step = SplashAfter THEN splash_show(s) ELSE s])
  /\ step' = step + 1
  /\ UNCHANGED <<stage, spin, lineVars, keys>>

\* splash_show_complete up to its wait, at the last line of the screen.
splash_show_complete ==
  /\ stage = "boot" /\ step > Len(Percents)
  /\ stage' = "wait"
  /\ screen' = vga_text_putstr(screen, BarCol, H - 1, <<"?">>)
  /\ UNCHANGED <<r, c, step, spin, lineVars, keys>>

\* A round of wait_for_keypress in which ENTER comes, from the keyboard or the
\* serial line: the wait is over, and with it the splash screen.
EndWait ==
  /\ stage' = "continue"
  /\ screen' = vga_text_clear
  /\ UNCHANGED <<r, c, step, lineVars, keys>>

WaitEnter == stage = "wait" /\ spin < SpinMax /\ EndWait /\ UNCHANGED spin

\* Mutant: no end to the wait.
WaitRound_noTimeout == stage = "wait" /\ UNCHANGED terminalVars

\* A round without it: no key, or another key, which is lost.
WaitRound ==
  /\ stage = "wait" /\ spin < SpinMax
  /\ spin' = spin + 1
  /\ UNCHANGED <<termVars, stage, step, lineVars, keys>>

WaitTimeout == stage = "wait" /\ spin = SpinMax /\ EndWait /\ UNCHANGED spin

\* thread_create for user_init_launcher, then scheduler_start, which comes back,
\* to the end of _kernel_main, if there was no memory for the thread.
kernel_continue_after_splash ==
  /\ stage = "continue"
  /\ \E created \in BOOLEAN : stage' = IF created THEN "scheduling" ELSE "halted"
  /\ UNCHANGED <<termVars, step, spin, lineVars, keys>>

-----------------------------------------------------------------------------
(* The shell *)

CellOf(row, col) == row * W + col

\* The prompt, and the call of read_line.
Prompt(t) ==
  LET p == writes(t, <<">">>) IN
  /\ Show(p)
  /\ line' = << >> /\ typed' = << >> /\ start' = CellOf(p.r, p.c) /\ slipped' = FALSE

shell_thread ==
  /\ stage = "scheduling" /\ stage' = "reading"
  /\ Prompt(writes(Term, <<"\n", "w", "\n", "\n">>))
  /\ UNCHANGED <<step, spin, keys>>

Reading == stage = "reading" /\ Len(line) < LineMax - 1 /\ keys < MaxKeys

\* A key is taken from the keyboard, or from the serial line with CR made LF.
Take(k) == keys' = keys + 1 /\ typed' = Append(typed, k) /\ UNCHANGED <<step, spin, start>>

\* Mutant: the character is erased from the screen only.
Backspace_screenOnly ==
  /\ Reading /\ Take("bs")
  /\ IF line = << >> THEN UNCHANGED <<termVars, line, slipped>>
     ELSE /\ Show(writes(Term, <<"bs", " ", "bs">>))
          /\ UNCHANGED line
          /\ slipped' = (slipped \/ (r = 0 /\ c = 0))
  /\ UNCHANGED stage

Backspace ==
  /\ Reading /\ Take("bs")
  /\ IF line = << >> THEN UNCHANGED <<termVars, line, slipped>>
     ELSE /\ Show(writes(Term, <<"bs", " ", "bs">>))
          /\ line' = SubSeq(line, 1, Len(line) - 1)
          /\ slipped' = (slipped \/ (r = 0 /\ c = 0))
  /\ UNCHANGED stage

Ordinary(k) ==
  /\ Reading /\ Take(k)
  /\ line' = Append(line, k)
  /\ Show(put(Term, k))
  /\ UNCHANGED <<stage, slipped>>

\* Any other byte: taken and ignored.
Other ==
  /\ Reading /\ Take("other")
  /\ UNCHANGED <<termVars, stage, line, slipped>>

Enter ==
  /\ Reading /\ Take("\n")
  /\ Show(put(Term, "\n"))
  /\ stage' = "command"
  /\ UNCHANGED <<line, slipped>>

\* The buffer is full: read_line returns without ENTER, and without a newline.
Full ==
  /\ stage = "reading" /\ Len(line) = LineMax - 1
  /\ stage' = "command"
  /\ UNCHANGED <<termVars, step, spin, lineVars, keys>>

\* The table of threads: kvprintf does not understand a width, so that a row is
\* the text of its format, whatever the thread.
Ps ==
  <<"t">> \o itoa_signed(2) \o <<"i">> \o itoa_signed(WordMod - 1)
    \o <<"\n", "T", "\n", "-", "\n", "%", "\n">>

Answer(t) ==
  CASE line = << >> -> t
    [] line = <<"h">> -> writes(t, <<"A", "\n", "h", "\n", "c", "\n", "v", "\n", "p", "\n">>)
    [] line = <<"c">> -> terminal_clear_screen(t)
    [] line = <<"v">> -> writes(t, <<"V", "\n">>)
    [] line = <<"p">> -> writes(t, Ps)
    [] OTHER -> writes(t, <<"U">> \o line \o <<"\n">>)

Command ==
  /\ stage = "command" /\ stage' = "reading"
  /\ Prompt(Answer(Term))
  /\ UNCHANGED <<step, spin, keys>>

-----------------------------------------------------------------------------
TerminalInit ==
  /\ screen = [y \in 0 .. H - 1 |-> [x \in 0 .. W - 1 |-> "?"]]
  /\ r = 0 /\ c = 0 /\ stage = "off" /\ step = 1 /\ spin = 0
  /\ line = << >> /\ start = 0 /\ typed = << >> /\ slipped = FALSE /\ keys = 0

Boot ==
  \/ term_init \/ _kernel_main \/ splash_show_complete
  \/ WaitEnter \/ WaitRound \/ WaitTimeout \/ kernel_continue_after_splash

Shell ==
  \/ shell_thread \/ Backspace \/ Other \/ Enter \/ Full \/ Command
  \/ \E k \in Glyphs : Ordinary(k)

TerminalNext == Boot \/ Shell

\* The boot processor does not stop by itself; nobody has to press a key.
TerminalSpec ==
  /\ TerminalInit /\ [][TerminalNext]_terminalVars
  /\ WF_terminalVars(term_init) /\ WF_terminalVars(_kernel_main) /\ WF_terminalVars(splash_show_complete)
  /\ WF_terminalVars(WaitRound) /\ WF_terminalVars(WaitTimeout)
  /\ WF_terminalVars(kernel_continue_after_splash)

-----------------------------------------------------------------------------
(* Properties *)

\* The keys that no later backspace takes back: as many as the backspaces between
\* such a key and any later moment, there are printable keys between them.
Count(S, i, j) == Cardinality({m \in i .. j : typed[m] \in S})
Stays(i) ==
  /\ typed[i] \in Glyphs
  /\ \A j \in i + 1 .. Len(typed) : Count({"bs"}, i + 1, j) <= Count(Glyphs, i + 1, j)

\* The line is these keys, in the order in which they were typed.
LineIsKept ==
  LET kept == {i \in DOMAIN typed : Stays(i)}
  IN /\ Len(line) = Cardinality(kept)
     /\ \A i \in kept : line[Cardinality({m \in kept : m <= i})] = typed[i]

\* read_line returns what was typed with the erased characters left out, never
\* more than its buffer holds; and while the line is edited the screen shows it
\* from the prompt on, with the cursor behind its last character, across the ends
\* of rows and from the last row to the first.  The one exception is an erasure in
\* the top left corner of a line that began at the bottom: the terminal does not
\* go back across that corner, and line and screen part.
LineEditing ==
  /\ stage \in {"reading", "command"} => LineIsKept /\ Len(line) < LineMax
  /\ stage = "reading" /\ ~slipped =>
       /\ CellOf(r, c) = ((start + Len(line)) % (W * H))
       /\ \A i \in DOMAIN line :
            LET cell == (start + i - 1) % (W * H)
            IN screen[cell \div W][cell % W] = line[i]

\* The comment in splash_show_complete: boot does not block there, since ENTER may
\* never arrive.  It goes on to the scheduler, or stops for want of memory.
BootContinues == <>(stage \in {"scheduling", "halted"})
=============================================================================
