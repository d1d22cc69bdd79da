------------------------------- MODULE Editor -------------------------------
(***************************************************************************)
(* The text editor, userland/editor/main.c: the lines of the file with     *)
(* their buffers, the cursor, the part of the text that is on the screen,  *)
(* and the keys.                                                           *)
(*                                                                         *)
(* A line is known by a number, as by its address; text[l] holds the       *)
(* size cells that are in use, the terminator with them.                   *)
(***************************************************************************)
EXTENDS Integers, Sequences, SequencesExt

CONSTANTS
    File,             \* the text of the file
    Keys,             \* the keys that are pressed in the state COMMAND
    Letters,          \* the letters that are typed in the state INSERT, and in
    CommandLetters,   \* a command
    viewport_width, viewport_height,
    Modulus,          \* 2^32, of size_t
    MaxLength,        \* bound: cells of the text
    MaxLines,         \* bound: lines
    MaxCommand        \* bound: length of a command

NL == "nl"  \* also what the key Enter sends
NUL == "nul"
Escape == "esc"

VARIABLES
    lines,            \* the list of the lines, from head.next on
    text, capacity,   \* of each line
    cursor,           \* line, column and line_ptr
    starting_line, starting_line_index, starting_column,
    line_count, state, command_buffer, is_writing_command, is_running,
    typed,            \* what the text should be (history)
    ended             \* "no", or whose assertion failed, or "address"

listVars == <<lines, text, capacity, line_count>>
viewVars == <<starting_line, starting_line_index, starting_column>>
commandVars == <<command_buffer, is_writing_command, is_running>>
vars == <<listVars, viewVars, commandVars, cursor, state, typed, ended>>

----------------------------------------------------------------------------
Sub(a, b) == (a - b) % Modulus
size(l) == Len(text[l])
ensure_capacity(c, needed) == IF needed <= c THEN c ELSE IF needed <= 2 * c THEN 2 * c ELSE 4 * c

(* read_lines(): a line for each newline and one for the end.              *)
read_lines(buffer) ==
    FoldLeft(LAMBDA ls, ch : LET grown == [ls EXCEPT ![Len(ls)] = Append(@, ch)]
                             IN  IF ch = NL THEN Append(grown, <<>>) ELSE grown,
             <<<<>>>>, Append(buffer, NUL))

TypeOK ==
    /\ \A l \in DOMAIN text : size(l) <= MaxLength
    /\ state \in {"COMMAND", "INSERT"} /\ is_running \in BOOLEAN /\ is_writing_command \in BOOLEAN
    /\ cursor.column \in 0 .. Modulus - 1 /\ starting_column \in 0 .. Modulus - 1
    /\ ended \in {"no", "insert_char_at", "break_at", "address"}

Init ==
    /\ text = read_lines(File) /\ lines = [i \in DOMAIN text |-> i]
    /\ capacity = [l \in DOMAIN text |-> ensure_capacity(4, size(l))]
    /\ line_count = Len(lines)
    /\ cursor = [line |-> 0, column |-> 0, line_ptr |-> 1]
    /\ starting_line = 1 /\ starting_line_index = 0 /\ starting_column = 0
    /\ state = "COMMAND" /\ command_buffer = <<>> /\ is_writing_command = FALSE /\ is_running = TRUE
    /\ typed = Append(File, NUL) /\ ended = "no"

(* The neighbours in the list.                                             *)
Place(l) == CHOOSE i \in DOMAIN lines : lines[i] = l
prev(l) == lines[Place(l) - 1]
next(l) == lines[Place(l) + 1]
is_first(l) == l = lines[1]
is_last(l) == l = Last(lines)

(* The cursor is in a line l: its column is made one of the line, which    *)
(* scrolls the screen by its width to the left if it has to, once.         *)
Column(l, column) == IF column >= size(l) THEN Sub(size(l), 1) ELSE column
ScrollLeft(column) == IF column < starting_column THEN Sub(starting_column, viewport_width) ELSE starting_column
ClampedScroll(l, column) == IF column >= size(l) THEN ScrollLeft(Column(l, column)) ELSE starting_column

----------------------------------------------------------------------------
move_cursor_up ==
    LET l == prev(cursor.line_ptr)
        line == cursor.line - 1
        scrolls == line < starting_line_index /\ starting_line_index # 0 IN
    /\ ~is_first(cursor.line_ptr)
    /\ cursor' = [line |-> line, column |-> Column(l, cursor.column), line_ptr |-> l]
    /\ starting_column' = ClampedScroll(l, cursor.column)
    /\ starting_line_index' = IF scrolls THEN starting_line_index - 1 ELSE starting_line_index
    /\ starting_line' = IF scrolls THEN prev(starting_line) ELSE starting_line

(* A defect: the screen scrolls one line too late.                         *)
scroll_down_late(line, count) ==
    line >= starting_line_index + viewport_height /\ starting_line_index + viewport_height - 1 < count

(* Whether the screen scrolls when the cursor comes to a line.             *)
scroll_down(line, count) ==
    line >= starting_line_index + viewport_height - 1 /\ starting_line_index + viewport_height - 1 < count

move_cursor_down ==
    LET l == next(cursor.line_ptr)
        scrolls == scroll_down(cursor.line + 1, line_count) IN
    /\ ~is_last(cursor.line_ptr)
    /\ cursor' = [line |-> cursor.line + 1, column |-> Column(l, cursor.column), line_ptr |-> l]
    /\ starting_column' = ClampedScroll(l, cursor.column)
    /\ starting_line_index' = IF scrolls THEN starting_line_index + 1 ELSE starting_line_index
    /\ starting_line' = IF scrolls THEN next(starting_line) ELSE starting_line

move_cursor_left ==
    /\ cursor.column > 0
    /\ cursor' = [cursor EXCEPT !.column = @ - 1]
    /\ starting_column' = ScrollLeft(cursor.column - 1)
    /\ UNCHANGED <<starting_line, starting_line_index>>

ScrollRight(column) ==
    IF column >= starting_column + viewport_width THEN starting_column + viewport_width ELSE starting_column

move_cursor_right ==
    /\ cursor.column < Sub(size(cursor.line_ptr), 1)
    /\ cursor' = [cursor EXCEPT !.column = @ + 1]
    /\ starting_column' = ScrollRight(cursor.column + 1)
    /\ UNCHANGED <<starting_line, starting_line_index>>

(* execute_command(): whether the editor is left.  An unknown letter, or   *)
(* one behind '!', makes the command invalid.                              *)
execute_command(cmd) ==
    /\ \A i \in DOMAIN cmd : cmd[i] \in {"w", "q"} \/ (cmd[i] = "!" /\ i = Len(cmd))
    /\ "q" \in Range(cmd) /\ Range(cmd) \cap {"w", "!"} # {}

write_command(ch) ==
    /\ is_writing_command
    /\ IF ch \in {NL, Escape}
       THEN /\ is_running' = ~(ch = NL /\ execute_command(Tail(command_buffer)))
            /\ is_writing_command' = FALSE /\ command_buffer' = <<>>
       ELSE /\ Len(command_buffer) < MaxCommand /\ ch \in CommandLetters
            /\ command_buffer' = Append(command_buffer, ch)
            /\ UNCHANGED <<is_writing_command, is_running>>
    /\ UNCHANGED <<cursor, viewVars, state>>

command(ch) ==
    /\ state = "COMMAND"
    /\ \/ write_command(ch)
       \/ /\ ~is_writing_command
          /\ \/ ch = "h" /\ move_cursor_left /\ UNCHANGED <<state, commandVars>>
             \/ ch = "j" /\ move_cursor_down /\ UNCHANGED <<state, commandVars>>
             \/ ch = "k" /\ move_cursor_up /\ UNCHANGED <<state, commandVars>>
             \/ ch = "l" /\ move_cursor_right /\ UNCHANGED <<state, commandVars>>
             \/ ch = "i" /\ state' = "INSERT" /\ UNCHANGED <<cursor, viewVars, commandVars>>
             \/ /\ ch = ":" /\ is_writing_command' = TRUE /\ command_buffer' = <<":">>
                /\ UNCHANGED <<cursor, viewVars, state, is_running>>
    /\ UNCHANGED <<listVars, typed, ended>>

----------------------------------------------------------------------------
Fails(why) == ended' = why /\ UNCHANGED <<listVars, viewVars, cursor, typed>>

(* The place in the text that the cursor shows.                            *)
Offset == FoldLeft(LAMBDA n, l : n + size(l), 0, SubSeq(lines, 1, cursor.line)) + cursor.column

(* Enter: break_at() moves the rest of the line to a new one; at the end   *)
(* of a line it asserts.  A column that has wrapped around makes it copy   *)
(* from in front of the buffer.                                            *)
break_line ==
    LET l == cursor.line_ptr
        new == Len(text) + 1
        rest == SubSeq(text[l], cursor.column + 1, size(l))
        scrolls == scroll_down(cursor.line + 1, line_count + 1)
        place == Place(l)
        ls == InsertAt(lines, place + 1, new)
    IN  \/ ~(cursor.column < Sub(size(l), 1)) /\ Fails("break_at")
        \/ cursor.column < Sub(size(l), 1) /\ cursor.column > size(l) /\ Fails("address")
        \/ /\ cursor.column < Sub(size(l), 1) /\ cursor.column <= size(l) /\ line_count < MaxLines
           /\ lines' = ls /\ line_count' = line_count + 1
           /\ text' = Append([text EXCEPT ![l] = SubSeq(@, 1, cursor.column)], rest)
           /\ capacity' = Append(capacity, ensure_capacity(4, Len(rest)))
           /\ cursor' = [line |-> cursor.line + 1, column |-> 0, line_ptr |-> new]
           /\ starting_column' = 0
           /\ starting_line_index' = IF scrolls THEN starting_line_index + 1 ELSE starting_line_index
           /\ starting_line' = IF scrolls THEN ls[starting_line_index + 2] ELSE starting_line
           /\ UNCHANGED <<typed, ended>>

(* insert_char_at(), on the cells of a line.                               *)
insert_char_at(cells, ch, position) == InsertAt(cells, position + 1, ch)

insert_char(ch) ==
    LET l == cursor.line_ptr IN
    \/ cursor.column >= size(l) /\ Fails("insert_char_at")
    \/ /\ cursor.column < size(l) /\ Len(typed) < MaxLength
       /\ text' = [text EXCEPT ![l] = insert_char_at(@, ch, cursor.column)]
       /\ capacity' = [capacity EXCEPT ![l] = ensure_capacity(@, size(l) + 1)]
       /\ cursor' = [cursor EXCEPT !.column = @ + 1]
       /\ starting_column' = ScrollRight(cursor.column + 1)
       /\ typed' = InsertAt(typed, Offset + 1, ch)
       /\ UNCHANGED <<lines, line_count, starting_line, starting_line_index, ended>>

insert(ch) ==
    /\ state = "INSERT"
    /\ \/ ch = Escape /\ state' = "COMMAND" /\ UNCHANGED <<listVars, viewVars, cursor, typed, ended>>
       \/ ch = NL /\ break_line /\ UNCHANGED state
       \/ ch \in Letters /\ insert_char(ch) /\ UNCHANGED state
    /\ UNCHANGED commandVars

Next == is_running /\ ended = "no" /\ \E ch \in Keys \cup Letters \cup CommandLetters : command(ch) \/ insert(ch)

Spec == Init /\ [][Next]_vars

----------------------------------------------------------------------------
(* Whatever is typed, the lines hold the text in order; the numbers that   *)
(* the editor keeps of the cursor's line, the first line shown and the     *)
(* lines in all are right, buffers are large enough, and the cursor is on  *)
(* the screen: in every row above the status bar, and in every column as   *)
(* long as no line is twice as wide as the screen (one scroll_left() is    *)
(* enough) and no line has lost its terminator to break_at() at column 0   *)
(* (break_at(), insert_char_at(), move_cursor_*(), scroll_*()).            *)
EditorSound ==
    /\ FlattenSeq([i \in DOMAIN lines |-> text[lines[i]]]) = typed
    /\ lines[cursor.line + 1] = cursor.line_ptr
    /\ lines[starting_line_index + 1] = starting_line
    /\ line_count = Len(lines)
    /\ \A l \in DOMAIN text : size(l) <= capacity[l]
    /\ cursor.line - starting_line_index \in 0 .. viewport_height - 2
    /\ (\A l \in DOMAIN text : size(l) \in 1 .. 2 * viewport_width)
          => cursor.column - starting_column \in 0 .. viewport_width - 1 /\ cursor.column <= size(cursor.line_ptr)
=============================================================================
