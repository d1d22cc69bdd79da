------------------------------ MODULE Terminal ------------------------------
(***************************************************************************)
(* The output side of the virtual console: TTY::write() and the echo of    *)
(* key presses, the escape sequences of Terminal (tty/Terminal.cpp), and   *)
(* the FramebufferConsole it draws on (tty/FramebufferConsole.cpp).        *)
(*                                                                         *)
(* The same text is kept three times: in the buffer of the terminal (main  *)
(* or alternate), in m_cells of the console, and on the screen.  A program *)
(* writes the strings of Outputs, character by character; the echo of a    *)
(* key comes in an interrupt, between any two characters, and so does the  *)
(* tick that draws the cursor.  Colours are left out: a cell is a glyph.   *)
(* Operators map a terminal to the terminal after a call.                  *)
(***************************************************************************)
EXTENDS Integers, Sequences, SequencesExt, FiniteSets

CONSTANTS
    Width, Height,  \* get_width(), get_height()
    Outputs,        \* the strings programs write, as sequences of characters
    Keys,           \* the characters that are echoed; "DEL" is unecho()
    MaxKeys         \* bound on the key presses

TerminalAssumption == Width \in Nat \ {0} /\ Height \in Nat \ {0, 1} /\ MaxKeys \in Nat

VARIABLES
    t,     \* the terminal and its console
    out,   \* what the program has yet to write of its string
    keys   \* number of key presses

vars == <<t, out, keys>>

Cells == 0..Width * Height - 1
At(row, column) == row * Width + column
Row(r) == {At(r, c) : c \in 0..Width - 1}
Glyphs == {" ", "x", "y"}
GlyphOf(ch) == IF ch \in Glyphs THEN ch ELSE "x"
Positions == (0..Height - 1) \X (0..Width - 1)

TypeOK ==
    /\ t.main \in [Cells -> Glyphs] /\ t.alternate \in [Cells -> Glyphs]
    /\ t.cells \in [Cells -> Glyphs] /\ t.screen \in [Cells -> Glyphs]
    /\ t.use_alternate \in BOOLEAN
    /\ ~t.halted => /\ {t.cursor, t.saved, t.alternate_saved, t.drawn} \subseteq Positions
                    /\ t.cursor = t.drawn
    /\ t.state \in {"None", "Fe", "CSI"} /\ t.csi \in {"Params", "Intermediate"}
    /\ t.state = "None" => t.sequence = <<>>
    /\ t.last \in Glyphs /\ t.halted \in BOOLEAN

(* The constructors of Terminal and FramebufferConsole, and clear().       *)
Init ==
    /\ t = [main |-> [i \in Cells |-> " "], alternate |-> [i \in Cells |-> " "],
            use_alternate |-> FALSE, cells |-> [i \in Cells |-> " "],
            screen |-> [i \in Cells |-> " "], cursor |-> <<0, 0>>, drawn |-> <<0, 0>>,
            saved |-> <<0, 0>>, alternate_saved |-> <<0, 0>>,
            state |-> "None", csi |-> "Params", sequence |-> <<>>,
            last |-> " ", halted |-> FALSE]
    /\ out = <<>> /\ keys = 0

----------------------------------------------------------------------------
(* FramebufferConsole *)

(* write_char() for every cell of a set.                                   *)
ConsoleWrite(s, where, ch) ==
    [s EXCEPT !.cells = [i \in Cells |-> IF i \in where THEN ch ELSE @[i]],
              !.screen = [i \in Cells |-> IF i \in where THEN ch ELSE @[i]]]

(* draw_cell() of m_cells where the cursor is: draw_cursor(), which blinks *)
(* by swapping colours, and the removal of the cursor.                     *)
DrawCell(s) == LET i == At(s.drawn[1], s.drawn[2]) IN [s EXCEPT !.screen[i] = s.cells[i]]

(* set_cursor_at() asserts that the cursor is on the screen.               *)
set_cursor_at(s, row, column) ==
    IF row < Height /\ column < Width
    THEN DrawCell([DrawCell(s) EXCEPT !.drawn = <<row, column>>])
    ELSE [s EXCEPT !.halted = TRUE]

(* scroll_up() and scroll_down() remove the cursor and turn the screen by  *)
(* a row; m_cells does not move.                                           *)
ConsoleScroll(s, by) ==
    [s EXCEPT !.screen = [i \in Cells |-> DrawCell(s).screen[(i + by + Width * Height) % (Width * Height)]]]

(* clear() of the whole screen leaves the last one of m_cells as it was.   *)
ConsoleClear(s) ==
    [ConsoleWrite(s, Cells, " ") EXCEPT !.cells[Width * Height - 1] = s.cells[Width * Height - 1]]

----------------------------------------------------------------------------
(* Terminal *)

Buffer(s) == IF s.use_alternate THEN s.alternate ELSE s.main

(* A change of the buffer in use.                                          *)
BufferSet(s, f) == IF s.use_alternate THEN [s EXCEPT !.alternate = f] ELSE [s EXCEPT !.main = f]
BufferWrite(s, where, ch) == BufferSet(s, [i \in Cells |-> IF i \in where THEN ch ELSE Buffer(s)[i]])

set_cursor(s, row, column) == set_cursor_at([s EXCEPT !.cursor = <<row, column>>], row, column)

clear(s) == ConsoleClear(BufferWrite(s, Cells, " "))

scroll_up(s) ==
    LET c == ConsoleWrite(ConsoleScroll(s, Width), Row(Height - 1), " ")
    IN  BufferSet(c, [i \in Cells |-> IF i \in Row(Height - 1) THEN " " ELSE Buffer(s)[i + Width]])

scroll_down(s) ==
    LET c == ConsoleWrite(ConsoleScroll(s, 0 - Width), Row(0), " ")
    IN  BufferSet(c, [i \in Cells |-> IF i \in Row(0) THEN " " ELSE Buffer(s)[i - Width]])

CR(s) == set_cursor(s, s.cursor[1], 0)
BS(s) == IF s.cursor[2] > 0 THEN set_cursor(s, s.cursor[1], s.cursor[2] - 1) ELSE s
LF(s) == IF s.cursor[1] < Height - 1 THEN set_cursor(s, s.cursor[1] + 1, s.cursor[2])
                                     ELSE scroll_up(s)
RI(s) == IF s.cursor[1] = 0 THEN scroll_down(s) ELSE set_cursor(s, s.cursor[1] - 1, s.cursor[2])

advance(s) ==
    IF s.cursor[2] < Width - 1 THEN set_cursor(s, s.cursor[1], s.cursor[2] + 1) ELSE LF(CR(s))

write_char(s, ch) ==
    LET i == At(s.cursor[1], s.cursor[2])
    IN  advance([BufferWrite(ConsoleWrite(s, {i}, ch), {i}, ch) EXCEPT !.last = ch])

(* unecho() takes back the character before the cursor, on the console     *)
(* only: the buffer of the terminal keeps it.                              *)
unecho(s) ==
    LET blank == ConsoleWrite(s, {At(s.cursor[1], s.cursor[2])}, " ")
        row == IF s.cursor[2] = 0 THEN s.cursor[1] - 1 ELSE s.cursor[1]
        column == IF s.cursor[2] = 0 THEN Width - 1 ELSE s.cursor[2] - 1
    IN  IF s.cursor = <<0, 0>> THEN blank
        ELSE ConsoleWrite(set_cursor(blank, row, column), {At(row, column)}, " ")

(* A defect: coming back, the screen is not redrawn.                       *)
switch_buffer_stale(s, alternate) ==
    LET u == [s EXCEPT !.use_alternate = alternate] IN
    IF s.use_alternate = alternate THEN s ELSE IF alternate THEN clear(u) ELSE u

(* switch_buffer(): the alternate buffer is cleared, the main one redrawn. *)
switch_buffer(s, alternate) ==
    LET u == [s EXCEPT !.use_alternate = alternate] IN
    IF s.use_alternate = alternate THEN s
    ELSE IF alternate THEN clear(u)
    ELSE [u EXCEPT !.cells = u.main, !.screen = u.main]

----------------------------------------------------------------------------
(* Escape sequences *)

Digits == {"0", "1", "2", "3", "4", "9"}
Value(d) == CHOOSE n \in 0..9 : <<d, n>> \in {<<"0", 0>>, <<"1", 1>>, <<"2", 2>>, <<"3", 3>>, <<"4", 4>>, <<"9", 9>>}

(* The rest of a sequence after "\e[" and the mark of private sequences.   *)
Parameters(q) == IF Len(q) > 2 /\ q[3] = "?" THEN SubSeq(q, 4, Len(q)) ELSE SubSeq(q, 3, Len(q))

(* parse_csi_arguments(): numbers, separated by ';', up to anything else.  *)
Prefix(p) == SubSeq(p, 1, Cardinality({i \in 1..Len(p) : \A j \in 1..i : p[j] \in Digits \cup {";"}}))
Argument(p) == FoldLeft(LAMBDA n, d : 10 * n + Value(d), 0, p)
parse_csi_arguments(q) ==
    LET p == Prefix(Parameters(q))
        split == FoldLeft(LAMBDA a, ch : IF ch = ";" THEN Append(a, <<>>)
                                         ELSE Append(Front(a), Append(Last(a), ch)),
                          << <<>> >>, p)
    IN  [i \in 1..Len(split) |-> Argument(split[i])]

Arg(args, i) == IF i <= Len(args) THEN args[i] ELSE 0
ZeroBased(n) == IF n > 0 THEN n - 1 ELSE n
Repeat(Op(_), s, n) == FoldLeft(LAMBDA u, i : Op(u), s, [i \in 1..n |-> i])

EL(s, type) ==
    LET row == s.cursor[1]
        from == IF type = 0 THEN s.cursor[2] ELSE 0
        to == IF type = 1 THEN s.cursor[2] ELSE Width - 1
        where == {At(row, c) : c \in from..to}
    IN  IF type > 2 THEN s ELSE BufferWrite(ConsoleWrite(s, where, " "), where, " ")

DECSET(s, mode) ==
    IF mode = 1049 THEN switch_buffer([s EXCEPT !.saved = s.cursor], TRUE) ELSE s

DECRST(s, mode) ==
    IF mode = 1049
    THEN LET u == switch_buffer(s, FALSE) IN set_cursor(u, u.saved[1], u.saved[2])
    ELSE s

(* The commands that a control sequence may end with.  SGR changes colours *)
(* only; what is not listed is reported as not implemented.                *)
Command(s, ch) ==
    LET args == parse_csi_arguments(s.sequence)
        n == Arg(args, 1)
        private == Len(s.sequence) > 2 /\ s.sequence[3] = "?"
    IN  CASE ch = "A" -> set_cursor(s, Min({s.cursor[1], n}), s.cursor[2])
          [] ch = "G" -> set_cursor(s, s.cursor[1], Min({ZeroBased(n), Width - 1}))
          [] ch = "H" -> set_cursor(s, ZeroBased(n), ZeroBased(Arg(args, 2)))
          [] ch = "d" -> set_cursor(s, ZeroBased(n), s.cursor[2])
          [] ch = "J" -> IF n = 2 THEN clear(s) ELSE s
          [] ch = "K" -> EL(s, n)
          [] ch = "S" -> Repeat(scroll_up, s, n)
          [] ch = "T" -> Repeat(scroll_down, s, n)
          [] ch = "b" -> Repeat(LAMBDA u : write_char(u, u.last), s, IF n = 0 THEN 1 ELSE n)
          [] ch = "h" -> IF private THEN DECSET(s, n) ELSE s
          [] ch = "l" -> IF private THEN DECRST(s, n) ELSE s
          [] OTHER -> s

reset_sequence(s) == [s EXCEPT !.sequence = <<>>, !.state = "None"]

(* The bytes 0x30 to 0x3f and 0x20 to 0x2f, of those that are used here.   *)
Parameter == Digits \cup {";", "?"}
Intermediate == {" "}

(* read_csi_sequence(): parameters, intermediate bytes, and the final byte *)
(* with which the command is carried out.                                  *)
read_csi_sequence(s, ch) ==
    LET inParams == s.csi = "Params"
    IN  IF inParams /\ ch \in Parameter THEN s
        ELSE IF ch \in Intermediate THEN [s EXCEPT !.csi = "Intermediate"]
        ELSE reset_sequence(Command(s, ch))

read_fe_sequence(s, ch) ==
    LET DECSC == IF s.use_alternate THEN [s EXCEPT !.alternate_saved = s.cursor]
                                    ELSE [s EXCEPT !.saved = s.cursor]
        from == IF s.use_alternate THEN s.alternate_saved ELSE s.saved
    IN  CASE ch = "[" -> [s EXCEPT !.state = "CSI"]
          [] ch = "M" -> reset_sequence(RI(s))
          [] ch = "7" -> reset_sequence(DECSC)
          [] ch = "8" -> reset_sequence(set_cursor(s, from[1], from[2]))
          [] OTHER -> reset_sequence(s)

(* echo() of one character: control characters act at once, also in the    *)
(* middle of a sequence, and ESC starts one without dropping the old one.  *)
echo(s, ch) ==
    LET u == IF s.state = "None" THEN s ELSE [s EXCEPT !.sequence = Append(@, ch)] IN
    CASE ch = "CR" -> CR(s)
      [] ch = "LF" -> LF(s)
      [] ch = "BS" -> BS(s)
      [] ch = "ESC" -> [s EXCEPT !.state = "Fe", !.csi = "Params", !.sequence = Append(@, ch)]
      [] ch \notin {"CR", "LF", "BS", "ESC"} ->
            IF s.state = "CSI" THEN read_csi_sequence(u, ch)
            ELSE IF s.state = "Fe" THEN read_fe_sequence(u, ch)
            ELSE write_char(s, GlyphOf(ch))

(* process_echo() with OPOST and ONLCR set: a newline is preceded by a     *)
(* carriage return.                                                        *)
process_echo(s, ch) == IF ch = "LF" THEN echo(echo(s, "CR"), "LF") ELSE echo(s, ch)

----------------------------------------------------------------------------
(* A program starts to write a string ...                                  *)
write ==
    /\ ~t.halted /\ out = <<>>
    /\ \E o \in Outputs : out' = o
    /\ UNCHANGED <<t, keys>>

(* ... and TTY::write() passes it on, character by character.              *)
write_next ==
    /\ ~t.halted /\ out # <<>>
    /\ t' = process_echo(t, Head(out)) /\ out' = Tail(out)
    /\ UNCHANGED keys

(* A key press is echoed, or erases the character before the cursor.       *)
key_echo ==
    /\ ~t.halted /\ keys < MaxKeys
    /\ keys' = keys + 1
    /\ \E k \in Keys : t' = IF k = "DEL" THEN unecho(t) ELSE process_echo(t, k)
    /\ UNCHANGED out

(* The cursor is drawn by its timer.                                       *)
on_cursor_tick ==
    /\ ~t.halted
    /\ t' = DrawCell(t)
    /\ UNCHANGED <<out, keys>>

Next == write \/ write_next \/ key_echo \/ on_cursor_tick

Spec == Init /\ [][Next]_vars

----------------------------------------------------------------------------
(* The screen shows the buffer of the terminal that is in use.             *)
ScreenShowsBuffer == ~t.halted => t.screen = Buffer(t)

(* The assertion of set_cursor_at() holds: whatever is written, the cursor *)
(* stays on the screen.                                                    *)
CursorAsserts == ~t.halted
=============================================================================
