------------------------------- MODULE Shell -------------------------------
(***************************************************************************)
(* The shell, userland/sh/main.c: the line that is read, its words, the    *)
(* program that they name, and the state of the terminal, which the shell  *)
(* changes to read keys and gives back to builtins and programs.           *)
(***************************************************************************)
EXTENDS Integers, Sequences, SequencesExt

CONSTANTS
    Letters,           \* letters of the words
    Spaces,            \* what isspace() accepts
    INPUT_BUFFER_LEN,
    Builtins,          \* names of the builtins but exit
    Exit,              \* the name of the builtin exit
    Path,              \* path: the prefixes of PATH, in order
    Files,             \* the programs: pairs of a prefix and a name
    MaxLines           \* bound: lines that are read

NUL == "nul"
Backspace == "backspace"
Slash == "/"
NoFile == <<>>

VARIABLES
    input_buffer, input_buffer_index, input_buffer_length,
    command,           \* index of the first word in the buffer, or -1
    arguments,         \* indexes of the words in the buffer
    file_path,         \* the file to execute
    tty,               \* "original", "new", or "other": what a program left
    pc, child,         \* where the shell is; what its child does
    is_running,
    line, count        \* what is on the line, lines read (history)

bufferVars == <<input_buffer, input_buffer_index, input_buffer_length>>
vars == <<bufferVars, command, arguments, file_path, tty, pc, child, is_running, line, count>>

TypeOK ==
    /\ input_buffer \in [0 .. INPUT_BUFFER_LEN - 1 -> Letters \cup Spaces \cup {NUL}]
    /\ input_buffer_index \in 0 .. INPUT_BUFFER_LEN - 1 /\ input_buffer_length \in 0 .. INPUT_BUFFER_LEN - 1
    /\ tty \in {"original", "new", "other"} /\ child \in {"none", "forked", "program", "dead"}
    /\ pc \in {"read", "parse", "check", "builtin", "find", "execute", "fork", "wait", "cleanup", "done"}

(* setup_tty(), and the first init_prompt().                               *)
Empty == [i \in 0 .. INPUT_BUFFER_LEN - 1 |-> NUL]
Init ==
    /\ input_buffer = Empty /\ input_buffer_index = 0 /\ input_buffer_length = 0
    /\ command = -1 /\ arguments = <<>> /\ file_path = NoFile
    /\ tty = "new" /\ pc = "read" /\ child = "none" /\ is_running = TRUE
    /\ line = <<>> /\ count = 1

----------------------------------------------------------------------------
has_room == input_buffer_index < INPUT_BUFFER_LEN - 1

(* read_loop(): a key, backspace, and the end of the line.                 *)
key(ch) ==
    /\ pc = "read"
    /\ IF has_room
       THEN /\ input_buffer' = [input_buffer EXCEPT ![input_buffer_index] = ch]
            /\ input_buffer_index' = input_buffer_index + 1
            /\ input_buffer_length' = input_buffer_length + 1
            /\ line' = Append(line, ch)
       ELSE UNCHANGED <<bufferVars, line>>
    /\ UNCHANGED <<command, arguments, file_path, tty, pc, child, is_running, count>>

(* A defect: what was behind the cursor is not moved, nor the terminator.  *)
backspace_left ==
    /\ pc = "read" /\ input_buffer_index > 0
    /\ input_buffer_index' = input_buffer_index - 1
    /\ input_buffer_length' = input_buffer_length - 1
    /\ line' = Front(line)
    /\ UNCHANGED <<input_buffer, command, arguments, file_path, tty, pc, child, is_running, count>>

backspace ==
    /\ pc = "read" /\ input_buffer_index > 0
    /\ input_buffer' = [i \in DOMAIN input_buffer |->
          IF i \in input_buffer_index - 1 .. input_buffer_length - 1 THEN input_buffer[i + 1] ELSE input_buffer[i]]
    /\ input_buffer_index' = input_buffer_index - 1
    /\ input_buffer_length' = input_buffer_length - 1
    /\ line' = Front(line)
    /\ UNCHANGED <<command, arguments, file_path, tty, pc, child, is_running, count>>

enter ==
    /\ pc = "read" /\ pc' = "parse"
    /\ UNCHANGED <<bufferVars, command, arguments, file_path, tty, child, is_running, line, count>>

(* init_prompt(), if the shell goes on.                                    *)
prompt(running) ==
    /\ is_running' = running
    /\ IF ~running THEN pc' = "cleanup" /\ UNCHANGED <<bufferVars, command, file_path, line, count>>
       ELSE /\ count < MaxLines /\ count' = count + 1
            /\ input_buffer' = Empty /\ input_buffer_index' = 0 /\ input_buffer_length' = 0
            /\ command' = -1 /\ file_path' = NoFile /\ line' = <<>>
            /\ pc' = "read"

(* Starts of words from an index on: a zero that no zero follows.          *)
Starts(buffer, from) ==
    SelectSeq([i \in 1 .. input_buffer_length - from |-> from + i],
              LAMBDA i : buffer[i - 1] = NUL /\ buffer[i] # NUL)

(* parse_command(): spaces become zeros, the first word is the command.    *)
parse_command ==
    LET buffer == [i \in DOMAIN input_buffer |-> IF input_buffer[i] \in Spaces THEN NUL ELSE input_buffer[i]]
        used == {i \in 0 .. input_buffer_length - 1 : buffer[i] # NUL}
        first == CHOOSE i \in used : \A j \in used : i <= j
    IN  /\ pc = "parse"
        /\ UNCHANGED <<tty, child>>
        /\ \/ used = {} /\ prompt(TRUE) /\ UNCHANGED arguments
           \/ /\ used # {}
              /\ input_buffer' = buffer /\ command' = first
              /\ arguments' = <<first>> \o Starts(buffer, first)
              /\ pc' = "check"
              /\ UNCHANGED <<input_buffer_index, input_buffer_length, file_path, is_running, line, count>>

(* The string at an index.                                                 *)
StringAt(i) ==
    LET end == CHOOSE e \in i .. INPUT_BUFFER_LEN - 1 : input_buffer[e] = NUL /\ \A k \in i .. e - 1 : input_buffer[k] # NUL
    IN  [k \in 1 .. end - i |-> input_buffer[i + k - 1]]

(* check_builtin(): the builtin runs with the original terminal.           *)
check_builtin ==
    LET builtin == StringAt(command) \in Builtins \cup {Exit} IN
    /\ pc = "check"
    /\ tty' = IF builtin THEN "original" ELSE tty
    /\ pc' = IF builtin THEN "builtin" ELSE "find"
    /\ UNCHANGED <<bufferVars, command, arguments, file_path, child, is_running, line, count>>

builtin_end ==
    /\ pc = "builtin"
    /\ tty' = "new"
    /\ prompt(StringAt(command) # Exit)
    /\ UNCHANGED <<arguments, child>>

(* find_file(): the path itself if it starts with a slash, or the first    *)
(* prefix of PATH that has the program.                                    *)
SearchPath(name) == IF name[1] = Slash THEN <<"">> ELSE Path
find_file ==
    LET name == StringAt(command)
        with == {i \in DOMAIN SearchPath(name) : <<SearchPath(name)[i], name>> \in Files} IN
    /\ pc = "find"
    /\ file_path' = IF with = {} THEN NoFile
                    ELSE <<SearchPath(name)[CHOOSE i \in with : \A j \in with : i <= j], name>>
    /\ pc' = "execute"
    /\ UNCHANGED <<bufferVars, command, arguments, tty, child, is_running, line, count>>

(* execute_command(): the terminal is given back before the fork.          *)
execute_command ==
    /\ pc = "execute"
    /\ UNCHANGED <<arguments, child>>
    /\ \/ file_path = NoFile /\ prompt(TRUE) /\ UNCHANGED tty
       \/ /\ file_path # NoFile /\ tty' = "original" /\ pc' = "fork"
          /\ UNCHANGED <<bufferVars, command, file_path, is_running, line, count>>

fork ==
    /\ pc = "fork" /\ child' = "forked" /\ pc' = "wait"
    /\ UNCHANGED <<bufferVars, command, arguments, file_path, tty, is_running, line, count>>

fork_fails ==
    /\ pc = "fork" /\ tty' = "new" /\ prompt(TRUE)
    /\ UNCHANGED <<arguments, child>>

(* The child: execv() succeeds or the child exits; the program changes the *)
(* terminal or not, and ends.                                              *)
ChildOnly == UNCHANGED <<bufferVars, command, arguments, file_path, pc, is_running, line, count>>
execv == child = "forked" /\ child' \in {"program", "dead"} /\ UNCHANGED tty /\ ChildOnly
tcsetattr == child = "program" /\ tty' = "other" /\ UNCHANGED child /\ ChildOnly
end == child = "program" /\ child' = "dead" /\ UNCHANGED tty /\ ChildOnly

(* waitpid() is repeated when a signal interrupts it; then the terminal is *)
(* set again.                                                              *)
waitpid ==
    /\ pc = "wait" /\ child = "dead"
    /\ child' = "none" /\ tty' = "new" /\ prompt(TRUE)
    /\ UNCHANGED arguments

cleanup ==
    /\ pc = "cleanup" /\ tty' = "original" /\ pc' = "done"
    /\ UNCHANGED <<bufferVars, command, arguments, file_path, child, is_running, line, count>>

Next ==
    \/ \E ch \in Letters \cup Spaces : key(ch)
    \/ backspace \/ enter \/ parse_command \/ check_builtin \/ builtin_end \/ find_file
    \/ execute_command \/ fork \/ fork_fails \/ waitpid \/ cleanup
    \/ execv \/ tcsetattr \/ end

Spec == Init /\ [][Next]_vars

----------------------------------------------------------------------------
(* The words of a line, as the runs of letters between the spaces.         *)
Words(l) ==
    SelectSeq(FoldLeft(LAMBDA ws, ch : IF ch \in Spaces THEN Append(ws, <<>>)
                                       ELSE [ws EXCEPT ![Len(ws)] = Append(@, ch)], <<<<>>>>, l),
              LAMBDA w : w # <<>>)

(* What is executed has the words that are on the line as its arguments,   *)
(* however they were typed and corrected and whatever earlier lines left   *)
(* in the buffer; the program is the one of that path or the one found     *)
(* first on PATH; it starts with the original terminal and with the shell  *)
(* waiting for it, and the shell reads its keys with its own, whatever the *)
(* program did to the terminal and however it ended.                       *)
ShellSound ==
    /\ pc \in {"check", "builtin", "find", "execute", "fork", "wait"} =>
          [i \in DOMAIN arguments |-> StringAt(arguments[i])] = Words(line)
    /\ pc \in {"fork", "wait"} =>
          LET name == Head(Words(line)) IN
          IF name[1] = Slash THEN file_path = <<"", name>> /\ file_path \in Files
          ELSE \E i \in DOMAIN Path :
                  /\ file_path = <<Path[i], name>> /\ file_path \in Files
                  /\ \A j \in 1 .. i - 1 : <<Path[j], name>> \notin Files
    /\ child = "forked" \/ pc \in {"builtin", "fork", "done"} => tty = "original"
    /\ pc \in {"read", "parse", "check", "find", "execute", "cleanup"} => tty = "new" /\ child = "none"
=============================================================================
