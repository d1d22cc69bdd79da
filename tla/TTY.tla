-------------------------------- MODULE TTY --------------------------------
(***************************************************************************)
(* The input side of a terminal device (tty/TTY.cpp): the line discipline  *)
(* fed by keyboard interrupts, the two input buffers, a program that reads *)
(* in canonical (line) or non-canonical (char) mode, and the switch of the *)
(* mode by ioctl(TCSETS), which moves what is buffered.                    *)
(*                                                                         *)
(* The program runs on the core that takes the keyboard's interrupt.  The  *)
(* deferred call that emits a character runs to its end between any two    *)
(* steps of the program; a step of the program is one access to a buffer.  *)
(* A character is a kind and the number of its key press.  The line queue  *)
(* is the one of module SRMWQueue, with one reader a FIFO.                 *)
(***************************************************************************)
EXTENDS Integers, Sequences, SequencesExt, FiniteSets

CONSTANTS
    MaxTyped,     \* bound on the key presses
    MaxBytes,     \* the size of the program's reads
    MaxSwitches,  \* bound on the changes of the mode
    Capacity      \* the size of m_input_char_buffer

ASSUME TTYAssumption ==
    /\ MaxTyped \in Nat /\ MaxSwitches \in Nat
    /\ MaxBytes \in Nat \ {0} /\ Capacity \in Nat \ {0}

VARIABLES
    icanon,    \* the flag ICANON of m_termios
    cur,       \* m_current_input_line
    lines,     \* m_input_line_buffer
    readline,  \* m_current_read_line
    ring,      \* m_input_char_buffer: buf, m_head, m_tail, m_size
    prog,      \* the program: pc, counter of read(), stack of switch_buffers()
    typed,     \* number of key presses
    switches,  \* number of changes of the mode
    got,       \* what the program has read (history)
    text       \* what was typed, as edited (history)

vars == <<icanon, cur, lines, readline, ring, prog, typed, switches, got, text>>

Char == {"a", "nl"} \X (1..MaxTyped)
Blank == <<"a", 0>>

TypeOK ==
    /\ icanon \in BOOLEAN
    /\ cur \in Seq(Char) /\ readline \in Seq(Char) /\ got \in Seq(Char)
    /\ lines \in Seq(Seq(Char))
    /\ text \in Seq({"a", "nl", "eof"} \X (1..MaxTyped))
    /\ ring.buf \in [0..Capacity - 1 -> Char \cup {Blank}]
    /\ ring.head \in 0..Capacity - 1
    /\ ring.tail \in IF prog.pc \in {"popped", "joined", "emptied"} THEN 1..Capacity
                                                                    ELSE 0..Capacity - 1
    /\ ring.size \in 0..Capacity
    /\ prog.pc \in {"run", "line", "copy", "chars", "pop", "popped", "empty_lines",
                    "join", "joined", "collect", "empty_chars", "emptied", "push"}
    /\ prog.counter \in 0..MaxBytes /\ prog.stack \in Seq(Seq(Char))
    /\ typed \in 0..MaxTyped /\ switches \in 0..MaxSwitches

(* TTY::reset_termios(): canonical mode, empty buffers.                    *)
Init ==
    /\ icanon = TRUE
    /\ cur = <<>> /\ lines = <<>> /\ readline = <<>>
    /\ ring = [buf |-> [i \in 0..Capacity - 1 |-> Blank], head |-> 0, tail |-> 0, size |-> 0]
    /\ prog = [pc |-> "run", counter |-> 0, stack |-> <<>>]
    /\ typed = 0 /\ switches = 0
    /\ got = <<>> /\ text = <<>>

----------------------------------------------------------------------------
(* CircularBuffer::push(): a full buffer gives up its oldest element.      *)
Pushed(r, ch) ==
    LET head == (r.head + 1) % Capacity IN
    [buf  |-> [r.buf EXCEPT ![r.head] = ch],
     head |-> head,
     tail |-> IF r.size = Capacity THEN head ELSE r.tail,
     size |-> IF r.size = Capacity THEN r.size ELSE r.size + 1]

(* CircularBuffer::pop() in two halves: the element is taken and m_tail    *)
(* moved on; then m_tail wraps around and m_size is counted down.          *)
Taken(r) == [r EXCEPT !.tail = @ + 1]
Popped(r) == [r EXCEPT !.tail = @ % Capacity, !.size = @ - 1]

----------------------------------------------------------------------------
(* A defect of the line discipline: a finished line is put but kept.       *)
canonical_input_keep(kind, ch) ==
    /\ \/ /\ kind \in {"nl", "eof"}
          /\ lines' = Append(lines, IF kind = "nl" THEN Append(cur, ch) ELSE cur)
          /\ UNCHANGED cur
       \/ /\ kind = "erase"
          /\ cur' = IF cur = <<>> THEN cur ELSE Front(cur)
          /\ UNCHANGED lines
       \/ kind = "kill" /\ cur' = <<>> /\ UNCHANGED lines
       \/ kind = "a" /\ cur' = Append(cur, ch) /\ UNCHANGED lines
    /\ UNCHANGED ring

(* canonical_input(): a line ends with \n or EOF, which is not stored;     *)
(* VERASE and VKILL edit the current line.                                 *)
canonical_input(kind, ch) ==
    /\ \/ /\ kind \in {"nl", "eof"}
          /\ lines' = Append(lines, IF kind = "nl" THEN Append(cur, ch) ELSE cur)
          /\ cur' = <<>>
       \/ /\ kind = "erase"
          /\ cur' = IF cur = <<>> THEN cur ELSE Front(cur)
          /\ UNCHANGED lines
       \/ kind = "kill" /\ cur' = <<>> /\ UNCHANGED lines
       \/ kind = "a" /\ cur' = Append(cur, ch) /\ UNCHANGED lines
    /\ UNCHANGED ring

(* non_canonical_input(): every character is buffered as it is.            *)
non_canonical_input(ch) == ring' = Pushed(ring, ch) /\ UNCHANGED <<cur, lines>>

(* The text a user has typed on a terminal that edits lines: an erase      *)
(* takes back one character of the unfinished line, a kill all of them.    *)
LastLine(t) == {i \in 1..Len(t) : \A j \in i..Len(t) : t[j][1] = "a"}
Edited(t, kind, ch) ==
    CASE kind \in {"a", "nl", "eof"} -> Append(t, ch)
      [] kind = "erase" -> IF LastLine(t) = {} THEN t ELSE Front(t)
      [] kind = "kill" -> SubSeq(t, 1, Len(t) - Cardinality(LastLine(t)))

(* emit() in the deferred call of a key press.  In non-canonical mode the  *)
(* editing keys are characters like any other.                             *)
emit ==
    /\ typed < MaxTyped
    /\ typed' = typed + 1
    /\ \E kind \in {"a", "nl", "eof", "erase", "kill"} :
          /\ ~icanon => kind \in {"a", "nl"}
          /\ LET ch == <<kind, typed + 1>> IN
             /\ IF icanon THEN canonical_input(kind, ch) ELSE non_canonical_input(ch)
             /\ text' = Edited(text, kind, ch)
    /\ UNCHANGED <<icanon, readline, prog, switches, got>>

----------------------------------------------------------------------------
Goto(p) == prog' = [prog EXCEPT !.pc = p]

(* A defect: the test for the rest of a line is inverted.                  *)
read_inverted ==
    /\ prog.pc = "run"
    /\ Goto(IF ~icanon THEN "chars" ELSE IF readline # <<>> THEN "line" ELSE "copy")
    /\ UNCHANGED <<icanon, cur, lines, readline, ring, typed, switches, got, text>>

(* read() chooses by the mode; canonical_read() goes on with the rest of a *)
(* line, or waits for one.                                                 *)
read ==
    /\ prog.pc = "run"
    /\ Goto(IF ~icanon THEN "chars" ELSE IF readline = <<>> THEN "line" ELSE "copy")
    /\ UNCHANGED <<icanon, cur, lines, readline, ring, typed, switches, got, text>>

get_line ==
    /\ prog.pc = "line" /\ lines # <<>>
    /\ readline' = Head(lines) /\ lines' = Tail(lines)
    /\ Goto("copy")
    /\ UNCHANGED <<icanon, cur, ring, typed, switches, got, text>>

(* At most MaxBytes characters of the line are copied; an empty line       *)
(* returns 0, which a program takes for the end of the file.               *)
copy_line ==
    LET n == IF Len(readline) < MaxBytes THEN Len(readline) ELSE MaxBytes IN
    /\ prog.pc = "copy"
    /\ got' = got \o SubSeq(readline, 1, n)
    /\ readline' = SubSeq(readline, n + 1, Len(readline))
    /\ Goto("run")
    /\ UNCHANGED <<icanon, cur, lines, ring, typed, switches, text>>

(* non_canonical_read(): wait for VMIN = 1 character, then pop as many as  *)
(* are there at that moment.                                               *)
wait_chars ==
    /\ prog.pc = "chars" /\ ring.size >= 1
    /\ prog' = [prog EXCEPT !.pc = "pop",
                            !.counter = IF ring.size < MaxBytes THEN ring.size ELSE MaxBytes]
    /\ UNCHANGED <<icanon, cur, lines, readline, ring, typed, switches, got, text>>

pop_char ==
    \/ /\ prog.pc = "pop"
       /\ got' = Append(got, ring.buf[ring.tail]) /\ ring' = Taken(ring)
       /\ Goto("popped")
       /\ UNCHANGED <<icanon, cur, lines, readline, typed, switches, text>>
    \/ /\ prog.pc = "popped"
       /\ ring' = Popped(ring)
       /\ prog' = [prog EXCEPT !.counter = @ - 1, !.pc = IF prog.counter = 1 THEN "run" ELSE "pop"]
       /\ UNCHANGED <<icanon, cur, lines, readline, typed, switches, got, text>>

----------------------------------------------------------------------------
(* set_termios() changes the mode; the interrupts see it from here on.     *)
set_termios ==
    /\ prog.pc = "run" /\ switches < MaxSwitches
    /\ switches' = switches + 1
    /\ icanon' = ~icanon
    /\ prog' = [prog EXCEPT !.pc = IF icanon THEN "collect" ELSE "empty_lines", !.stack = <<>>]
    /\ UNCHANGED <<cur, lines, readline, ring, typed, got, text>>

(* switch_buffers() to lines: the line buffer is emptied ...               *)
empty_line_buffer ==
    /\ prog.pc = "empty_lines"
    /\ \/ lines # <<>> /\ lines' = Tail(lines) /\ UNCHANGED <<cur, prog>>
       \/ lines = <<>> /\ cur' = <<>> /\ Goto("join") /\ UNCHANGED lines
    /\ UNCHANGED <<icanon, readline, ring, typed, switches, got, text>>

(* ... and the characters are put together to lines.  An interrupt may     *)
(* erase the character before back() looks at it: what back() finds in an  *)
(* empty string is not defined.                                            *)
join_chars ==
    \/ /\ prog.pc = "join" /\ ring.size > 0
       /\ ring' = Taken(ring) /\ cur' = Append(cur, ring.buf[ring.tail])
       /\ Goto("joined")
       /\ UNCHANGED <<icanon, lines, readline, typed, switches, got, text>>
    \/ /\ prog.pc = "joined"
       /\ ring' = Popped(ring)
       /\ \E nl \in IF cur = <<>> THEN BOOLEAN ELSE {Last(cur)[1] = "nl"} :
             IF nl THEN lines' = Append(lines, cur) /\ cur' = <<>> ELSE UNCHANGED <<lines, cur>>
       /\ Goto("join")
       /\ UNCHANGED <<icanon, readline, typed, switches, got, text>>
    \/ /\ prog.pc = "join" /\ ring.size = 0 /\ Goto("run")
       /\ UNCHANGED <<icanon, cur, lines, readline, ring, typed, switches, got, text>>

(* switch_buffers() to characters: the lines and then the unfinished line  *)
(* are pushed on a stack ...                                               *)
collect_lines ==
    /\ prog.pc = "collect"
    /\ \/ /\ lines # <<>> /\ lines' = Tail(lines) /\ UNCHANGED cur
          /\ prog' = [prog EXCEPT !.stack = <<Head(lines)>> \o @]
       \/ /\ lines = <<>> /\ cur' = <<>> /\ UNCHANGED lines
          /\ prog' = [prog EXCEPT !.pc = "empty_chars",
                                  !.stack = IF cur = <<>> THEN @ ELSE <<cur>> \o @]
    /\ UNCHANGED <<icanon, readline, ring, typed, switches, got, text>>

(* ... the character buffer is emptied ...                                 *)
empty_char_buffer ==
    /\ \/ prog.pc = "empty_chars" /\ ring.size > 0 /\ ring' = Taken(ring) /\ Goto("emptied")
       \/ prog.pc = "emptied" /\ ring' = Popped(ring) /\ Goto("empty_chars")
       \/ prog.pc = "empty_chars" /\ ring.size = 0 /\ Goto("push") /\ UNCHANGED ring
    /\ UNCHANGED <<icanon, cur, lines, readline, typed, switches, got, text>>

(* ... and the stack is unwound: the line on top, which is the last one,   *)
(* comes first.                                                            *)
push_lines ==
    /\ prog.pc = "push"
    /\ \/ prog.stack = <<>> /\ Goto("run") /\ UNCHANGED ring
       \/ /\ prog.stack # <<>> /\ Head(prog.stack) = <<>>
          /\ prog' = [prog EXCEPT !.stack = Tail(@)] /\ UNCHANGED ring
       \/ /\ prog.stack # <<>> /\ Head(prog.stack) # <<>>
          /\ ring' = Pushed(ring, Head(Head(prog.stack)))
          /\ prog' = [prog EXCEPT !.stack = <<Tail(Head(@))>> \o Tail(@)]
    /\ UNCHANGED <<icanon, cur, lines, readline, typed, switches, got, text>>

program ==
    \/ read \/ get_line \/ copy_line \/ wait_chars \/ pop_char
    \/ set_termios \/ empty_line_buffer \/ join_chars
    \/ collect_lines \/ empty_char_buffer \/ push_lines

Next == emit \/ program

Spec == Init /\ [][Next]_vars
FairSpec == Spec /\ WF_vars(program)

----------------------------------------------------------------------------
(* Everything that is buffered or has been read.                           *)
InRing == IF prog.pc \in {"popped", "joined", "emptied"} THEN ring.size - 1 ELSE ring.size
RingChars == [i \in 1..InRing |-> ring.buf[(ring.tail + i - 1) % Capacity]]
Everywhere == got \o readline \o FlattenSeq(lines) \o cur \o RingChars \o FlattenSeq(prog.stack)

(* While the mode stays canonical nothing is lost, invented or reordered:  *)
(* what was read, then the rest of the line being read, the lines that     *)
(* wait and the unfinished line are the edited text.                       *)
Conserved ==
    got \o readline \o FlattenSeq(lines) \o cur = SelectSeq(text, LAMBDA c : c[1] # "eof")

(* A finished line is read by a program that goes on reading.              *)
LinesRead == lines # <<>> ~> lines = <<>>

(* No key press is delivered, or buffered, twice, whatever arrives in the  *)
(* middle of a switch of the mode.                                         *)
AtMostOnce ==
    \A i, j \in 1..Len(Everywhere) : Everywhere[i][2] = Everywhere[j][2] => i = j

(* The head of the ring is where its tail and its size say, between two    *)
(* pops: no interrupt leaves the buffer with a size that does not fit.     *)
RingConsistent ==
    prog.pc \notin {"popped", "joined", "emptied"} =>
        ring.head = (ring.tail + ring.size) % Capacity
=============================================================================
