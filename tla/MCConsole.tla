----------------------------- MODULE MCConsole -----------------------------
(***************************************************************************)
(* The virtual console and the programs that use it.                       *)
(*                                                                         *)
(* The interrupt lines of four devices, two of which share one; the        *)
(* keyboard.  Input: a program that reads lines, and one that switches     *)
(* between lines and characters.  Output: a shell, whose screen scrolls    *)
(* only below its last line; a full-screen program, which writes at        *)
(* addresses and leaves the last cell out; and any mixture of these.       *)
(* Programs: the editor and the shell, the dynamic linker that starts a    *)
(* program, and the calls of printf() in the kernel and the C library.     *)
(***************************************************************************)
EXTENDS TTY, TLC

CONSTANT None

VARIABLES
    situation, t, out, keys,
    entries, controllers, overrides, nmis, aps, boot, m_handlers, driver, irr, in_service,
    frame, todo, device, raises, madt, ic_halted,
    wire, m_e0_prefix, m_modifiers, m_buffer, deferred, heard, kb_got, held, caps, kb_typed,
    blurred, strokes,
    ed_lines, ed_text, capacity, cursor, starting_line, starting_line_index, starting_column,
    line_count, state, command_buffer, is_writing_command, is_running, ed_typed, ended,
    input_buffer, input_buffer_index, input_buffer_length, command, arguments, file_path, tty,
    sh_pc, child, sh_is_running, line, count,
    dependencies, defines, list, handled, binding, bases, calls, stack, ld_pc, queued,
    job, fmt, args, pf_out, written, bufsz, counts, done

terminalVars == <<t, out, keys>>
lineVars == <<entries, controllers, overrides, nmis, aps, boot, m_handlers, driver, irr,
              in_service, frame, todo, device, raises, madt, ic_halted>>
keyboardVars == <<wire, m_e0_prefix, m_modifiers, m_buffer, deferred, heard, kb_got, held, caps,
                  kb_typed, blurred, strokes>>
editorVars == <<ed_lines, ed_text, capacity, cursor, starting_line, starting_line_index,
                starting_column, line_count, state, command_buffer, is_writing_command,
                is_running, ed_typed, ended>>
shellVars == <<input_buffer, input_buffer_index, input_buffer_length, command, arguments,
               file_path, tty, sh_pc, child, sh_is_running, line, count>>
linkerVars == <<dependencies, defines, list, handled, binding, bases, calls, stack, ld_pc, queued>>
printfVars == <<job, fmt, args, pf_out, written, bufsz, counts, done>>
programVars == <<editorVars, shellVars, linkerVars, printfVars>>
allVars == <<vars, situation, terminalVars, lineVars, keyboardVars, programVars>>

-----------------------------------------------------------------------------
Esc(chars) == <<"ESC", "[">> \o chars

Erase == {Esc(<<"K">>), Esc(<<"1", "K">>), Esc(<<"2", "J">>)}
Screens == {Esc(<<"?", "1", "0", "4", "9", "h">>), Esc(<<"?", "1", "0", "4", "9", "l">>)}
Move == {Esc(<<"2", ";", "2", "H">>), Esc(<<"2", "G">>), Esc(<<"1", "d">>), Esc(<<"A">>),
         <<"ESC", "7">>, <<"ESC", "8">>}
Scroll == {Esc(<<"1", "S">>), Esc(<<"1", "T">>), <<"ESC", "M">>}

ShellOutputs == Erase \cup {<<"x">>, <<"LF">>, <<"CR">>, <<"BS">>, Esc(<<"2", "b">>), Esc(<<"9", "1", "m">>)}
FullScreenOutputs == Erase \cup Screens \cup Move \cup {Esc(<<"H", "x">>), Esc(<<"2", ";", "1", "H", "x">>)}
MixedOutputs == {<<"x">>, <<"LF">>, <<"BS">>} \cup Move \cup Scroll

Switching == INSTANCE TTY WITH MaxTyped <- 4, MaxSwitches <- 2, Capacity <- 4

Shell == INSTANCE Terminal
    WITH Width <- 2, Height <- 2, Outputs <- ShellOutputs, Keys <- {"y"}, MaxKeys <- 1
FullScreen == INSTANCE Terminal
    WITH Width <- 3, Height <- 2, Outputs <- FullScreenOutputs, Keys <- {}, MaxKeys <- 0
Mixed == INSTANCE Terminal
    WITH Width <- 2, Height <- 2, Outputs <- MixedOutputs, Keys <- {"DEL"}, MaxKeys <- 1

-----------------------------------------------------------------------------
(* The tables that firmware may leave: none; without an IOAPIC; with one   *)
(* that moves the line of the PIT; with two; with a line that is moved to  *)
(* a place between those of other devices.                                 *)
E(type) == [type |-> type, base |-> 0, count |-> 0, irq |-> 0, gsi |-> 0, apic_id |-> 0]
Ioapic(first, n) == [E("ioapic") EXCEPT !.base = first, !.count = n]
Override(i, g) == [E("override") EXCEPT !.irq = i, !.gsi = g]
Nmi(g) == [E("nmi") EXCEPT !.gsi = g]
Lapic(n) == [E("lapic") EXCEPT !.apic_id = n]
Tables ==
    {<<>>, <<Lapic(0), Lapic(1), E("other")>>,
     <<Lapic(0), Ioapic(0, 12), Override(0, 2), Lapic(1), Nmi(3)>>,
     <<Override(0, 2), Override(11, 11), Ioapic(0, 4), Ioapic(4, 8)>>,
     <<Ioapic(0, 12), Override(1, 4)>>}
Lines == INSTANCE InterruptController
    WITH Drivers <- <<"pit", "kbd", "ahci", "nic">>, Pit <- "pit", Madts <- Tables, MaxRaises <- 2,
         Irq <- [pit |-> 0, kbd |-> 1, ahci |-> 11, nic |-> 11], table <- madt, halted <- ic_halted

(* A letter, a digit, both shifts, Caps Lock and two extended keys.        *)
SmallLayout ==
    <<30, FALSE>> :> <<"a", "A">> @@ <<2, FALSE>> :> <<"1", "!">>
    @@ [k \in {<<42, FALSE>>, <<54, FALSE>>, <<58, FALSE>>, <<72, TRUE>>, <<83, TRUE>>} |->
           <<"nul", "nul">>]
Kbd == INSTANCE Keyboard
    WITH Keys <- DOMAIN SmallLayout, Layout <- SmallLayout, Capacity <- 2, MaxStrokes <- 4,
         got <- kb_got, typed <- kb_typed

Ed == INSTANCE Editor
    WITH File <- <<"a", "b", "nl", "c", "nl">>, Keys <- {"h", "j", "k", "l", "i", ":", "esc", "nl"},
         Letters <- {"x"}, CommandLetters <- {"w", "q", "!"}, viewport_width <- 2,
         viewport_height <- 3, Modulus <- 16, MaxLength <- 8, MaxCommand <- 3, MaxLines <- 4,
         lines <- ed_lines, text <- ed_text, typed <- ed_typed

Sh == INSTANCE Shell
    WITH Letters <- {"c", "e", "/"}, Spaces <- {" "}, INPUT_BUFFER_LEN <- 5, Builtins <- {<<"c">>},
         Exit <- <<"e">>, Path <- <<"/bin", "/usr">>, MaxLines <- 2,
         Files <- {<<"/bin", <<"c", "e">>>>, <<"/usr", <<"c", "e">>>>, <<"/usr", <<"e", "e">>>>,
                   <<"", <<"/", "c">>>>},
         pc <- sh_pc, is_running <- sh_is_running

(* A program, 0, and three libraries that need each other in any way.      *)
Ascending(S) == SelectSeq(<<1, 2, 3>>, LAMBDA o : o \in S)
Needs == {[o \in 0..3 |-> Ascending(g[o] \ {o})] : g \in [0..3 -> SUBSET (1..3)]}
Ld == INSTANCE DynamicLinker
    WITH Executable <- 0, Libraries <- 1..3, Graphs <- Needs, Defined <- SUBSET (1..3), Weak <- {1},
         Arguments <- {<<>>, <<"x">>, <<"x", "y">>, <<"y", "y", "z">>}, pc <- ld_pc

(* Calls of printf(): one conversion between two characters.               *)
Piece(s, a, f, w, p, g, l) ==
    [specifier |-> s, num |-> a[1], str |-> a[2], flags |-> f, width |-> w, precision |-> p,
     given |-> g, length |-> l]
Literal(c) == Piece("literal", <<0, <<c>>>>, <<>>, "none", "absent", 0, <<>>)
Arguments(s) ==
    CASE s = "d" -> {-13, 0, 9} \X {<<>>}
      [] s \in {"u", "o", "x", "X"} -> {-13, 0, 171} \X {<<>>}
      [] s = "c" -> {<<0, <<"a">>>>}
      [] s = "s" -> {0} \X {<<>>, <<"a", "b", "c">>}
      [] s = "p" -> {0, 11} \X {<<>>}
      [] s = "n" -> {<<0, <<>>>>}
Conversions(Flags) ==
    UNION {{Piece(s, a, f, w, p, g, l) :
               a \in Arguments(s), f \in Flags, w \in {"none", "given", "4"},
               p \in {"absent", "none", "given", "3"}, g \in {-5, 2},
               l \in IF s = "u" THEN {<<>>, <<"l", "l">>} ELSE {<<>>}} :
           s \in {"d", "u", "o", "x", "X", "c", "s", "p", "n"}}
KernelConversions ==
    {x \in Conversions({<<>>, <<"-">>, <<"+">>, <<" ">>, <<"#">>, <<"0">>, <<"0", "-">>,
                        <<"+", " ">>, <<"0", "#">>, <<"+", "0">>}) :
        x.given < 0 => x.width = "none" /\ x.precision # "given"}
Call(w, x, size) == [who |-> w, pieces |-> <<Literal("%"), x, Literal("a")>>, n |-> size]
Calls ==
    {Call("kernel", x, 99) : x \in KernelConversions}
    \cup {Call("libc", x, 99) : x \in Conversions({<<"+">>, <<"0">>})}
    \cup {Call("libc", x, size) : x \in Conversions({<<>>}), size \in {0, 1, 3, 4, 6, 99}}
Pf == INSTANCE Printf
    WITH Jobs <- Calls, IntWord <- 256, LongWord <- 4096, PtrDigits <- 2, INT_MAX <- 99,
         out <- pf_out

ASSUME Assumptions ==
    /\ Switching!TTYAssumption
    /\ Shell!TerminalAssumption /\ FullScreen!TerminalAssumption /\ Mixed!TerminalAssumption

NoLinker ==
    /\ dependencies = 0 /\ defines = 0 /\ list = 0 /\ handled = 0 /\ binding = 0 /\ bases = 0
    /\ calls = 0 /\ stack = 0 /\ ld_pc = 0 /\ queued = 0
NoPrintf ==
    /\ job = 0 /\ fmt = 0 /\ args = 0 /\ pf_out = 0 /\ written = 0 /\ bufsz = 0 /\ counts = 0
    /\ done = 0

ConsoleInit ==
    /\ situation \in {"lines", "switching", "shell", "full screen", "mixed",
                      "interrupts", "keyboard", "editor", "sh", "linker", "printf"}
    /\ Lines!Init /\ (situation # "interrupts" => madt = <<>>)
    /\ IF situation = "switching" THEN Switching!Init ELSE Init
    /\ IF situation = "full screen" THEN FullScreen!Init ELSE Mixed!Init
    /\ Kbd!Init /\ Ed!Init /\ Sh!Init
    /\ IF situation = "linker" THEN Ld!Init ELSE NoLinker
    /\ IF situation = "printf" THEN Pf!Init ELSE NoPrintf

In(s, A) == situation = s /\ A /\ UNCHANGED situation
ForInput(s, A) == In(s, A) /\ UNCHANGED <<terminalVars, lineVars, keyboardVars, programVars>>
ForOutput(s, A) == In(s, A) /\ UNCHANGED <<vars, lineVars, keyboardVars, programVars>>
LineStep ==
    In("interrupts", Lines!Next) /\ UNCHANGED <<vars, terminalVars, keyboardVars, programVars>>
KeyboardStep ==
    In("keyboard", Kbd!Next) /\ UNCHANGED <<vars, terminalVars, lineVars, programVars>>
ForProgram(s, A) == In(s, A) /\ UNCHANGED <<vars, terminalVars, lineVars, keyboardVars>>

ProgramStep ==
    \/ ForProgram("editor", Ed!Next) /\ UNCHANGED <<shellVars, linkerVars, printfVars>>
    \/ ForProgram("sh", Sh!Next) /\ UNCHANGED <<editorVars, linkerVars, printfVars>>
    \/ ForProgram("linker", Ld!Next) /\ UNCHANGED <<editorVars, shellVars, printfVars>>
    \/ ForProgram("printf", Pf!Next) /\ UNCHANGED <<editorVars, shellVars, linkerVars>>

ConsoleNext ==
    \/ ForInput("lines", Next) \/ ForInput("switching", Switching!Next)
    \/ ForOutput("shell", Shell!Next) \/ ForOutput("full screen", FullScreen!Next)
    \/ ForOutput("mixed", Mixed!Next)
    \/ LineStep \/ KeyboardStep \/ ProgramStep

(* The program that reads lines goes on reading.                           *)
ConsoleSpec == ConsoleInit /\ [][ConsoleNext]_allVars /\ WF_allVars(ForInput("lines", program))

----------------------------------------------------------------------------
(* The type invariants of the modules.                                     *)
TypesOK ==
    /\ IF situation = "switching" THEN Switching!TypeOK ELSE TypeOK
    /\ IF situation = "full screen" THEN FullScreen!TypeOK ELSE Mixed!TypeOK
    /\ situation = "interrupts" => Lines!TypeOK
    /\ situation = "keyboard" => Kbd!TypeOK
    /\ situation = "editor" => Ed!TypeOK
    /\ situation = "sh" => Sh!TypeOK
    /\ situation = "linker" => Ld!TypeOK
    /\ situation = "printf" => Pf!TypeOK

(* While the mode stays canonical nothing is lost, invented or reordered:  *)
(* what was read, then the rest of the line being read, the lines that     *)
(* wait and the unfinished line are the edited text.  And no key press is  *)
(* delivered, or buffered, twice, whatever arrives in the middle of a      *)
(* switch of the mode, and the head of the ring of characters is where its *)
(* tail and its size say, between two pops.                                *)
TextConserved ==
    /\ situation = "lines" => Conserved
    /\ situation = "switching" => Switching!AtMostOnce /\ Switching!RingConsistent

(* The screen shows the buffer of the terminal that is in use, for a shell *)
(* and for a full-screen program.  (A scroll after text below it, and an   *)
(* erased echo, make them differ.)  The assertion of set_cursor_at()       *)
(* holds: whatever is written, the cursor stays on the screen.             *)
ScreenTrue ==
    /\ TypesOK /\ Mixed!CursorAsserts
    /\ situation = "shell" => Shell!ScreenShowsBuffer
    /\ situation = "full screen" => FullScreen!ScreenShowsBuffer

(* Whatever the firmware's table and whenever devices raise their lines    *)
(* while drivers are enabled and the PIT is restarted: no interrupt finds  *)
(* a vector without a handler, every one accepted is acknowledged, and one *)
(* raised after its driver was enabled, on a line of its own, stays on its *)
(* way until the driver serves it: redirected lines carry the vector that  *)
(* the handler is registered for.                                          *)
LinesServed == situation = "interrupts" => Lines!InterruptsSound

(* The listener is given what was typed, in order and with the labels of   *)
(* the keys, and the buffer of the device holds the newest events, however *)
(* strokes, interrupts, deferred calls and reads interleave (until a key   *)
(* outside the tables, or a shift key under another, confuses the driver). *)
KeysTrue == situation = "keyboard" => Kbd!KeysTrue

(* Whatever is typed, the lines of the editor hold the text in order, the  *)
(* numbers it keeps of cursor, view and lines are right, buffers are large *)
(* enough, and the cursor is on the screen.                                *)
EditorSound == situation = "editor" => Ed!EditorSound

(* The shell executes the words on the line, however they were typed and   *)
(* corrected, with the program found first on PATH, gives it the original  *)
(* terminal and takes its own back.                                        *)
ShellSound == situation = "sh" => Sh!ShellSound

(* When a program starts, the linker has loaded and relocated every object *)
(* it needs once, bound each symbol to a nearest definition and, unless    *)
(* there is a cycle, initialised each library once, after what it needs;   *)
(* it hands on the arguments that the kernel put on the stack.             *)
LinkedRight == situation = "linker" => Ld!LinkedRight

(* The kernel's printf() returns the number of characters it printed, and  *)
(* it and the library's print what C specifies on the conversions that     *)
(* they cover; snprintf() stores at most n characters, a zero included.    *)
PrintfSound == situation = "printf" => Pf!PrintfSound

(* A finished line is read by a program that goes on reading.              *)
EveryLineRead == (situation = "lines") => LinesRead
=============================================================================
