------------------------------ MODULE Keyboard ------------------------------
(***************************************************************************)
(* The PS/2 keyboard: scan codes read from the controller one interrupt at *)
(* a time, the key tables, the modifier bits, the buffer of the device and *)
(* the deferred call that hands an event to its listener, the terminal     *)
(* (devices/PS2KeyboardDevice.cpp, devices/KeyboardDevice.cpp).            *)
(*                                                                         *)
(* A KeyCode is its number in the enumeration.  A key of the keyboard is a *)
(* pair <<scan code, sent with the 0xe0 prefix>>.                          *)
(***************************************************************************)
EXTENDS Integers, Sequences, SequencesExt, FiniteSets

CONSTANTS Keys,      \* the keys that are pressed
          Layout,    \* external: what is printed on the keys, plain and shifted
          Capacity,  \* m_buffer's, 16 in the code
          MaxStrokes \* bound: presses and releases

VARIABLES wire,         \* external: bytes the controller has not handed over
          m_e0_prefix, m_modifiers, m_buffer,
          deferred,     \* the events of the core's deferred calls
          heard,        \* what handle_key_event() of the listener was given
          got,          \* what the last read() returned: [count, event]
          held, caps, typed, blurred, strokes   \* external: the keyboard

vars == <<wire, m_e0_prefix, m_modifiers, m_buffer, deferred, heard, got,
          held, caps, typed, blurred, strokes>>

E0 == 224
NUL == "nul"
Key_None == 0
LeftControl == 29
LeftShift == 42
RightShift == 54
LeftAlt == 56
CapsLock == 58
RightControl == 84
Super == 85
RightAlt == 87

-----------------------------------------------------------------------------
(* The tables.  Scan codes and key codes agree up to 74; from there the    *)
(* scan code table has unnamed entries in between.                         *)
default_scancode_map(s) ==
    CASE s \in 0..74 -> s
      [] s \in 76..82 -> s - 1
      [] s \in 86..87 -> s - 4
      [] s = 90 -> Super
      [] s = 92 -> 86
      [] OTHER -> Key_None

(* Only the cursor keys: up, left, right, down. *)
default_e0_scancode_map(s) ==
    CASE s = 72 -> 72 [] s = 75 -> 74 [] s = 77 -> 75 [] s = 80 -> 78 [] OTHER -> Key_None

Character(row, key) == IF key + 1 <= Len(row) THEN row[key + 1] ELSE NUL

default_keycode_map ==
    <<NUL, "esc", "1", "2", "3", "4", "5", "6", "7", "8", "9", "0", "-", "=", "del",
      NUL, "q", "w", "e", "r", "t", "y", "u", "i", "o", "p", "[", "]", "nl", NUL,
      "a", "s", "d", "f", "g", "h", "j", "k", "l", ";", "apostrophe", "grave", NUL, "backslash",
      "z", "x", "c", "v", "b", "n", "m", ",", ".", "/", NUL, NUL, NUL, " ", NUL>>

default_keycode_map_shifted ==
    <<NUL, "esc", "!", "@", "#", "$", "%", "^", "&", "*", "(", ")", "_", "+", "del",
      NUL, "Q", "W", "E", "R", "T", "Y", "U", "I", "O", "P", "{", "}", "nl", NUL,
      "A", "S", "D", "F", "G", "H", "J", "K", "L", ":", "quote", "~", NUL, "|",
      "Z", "X", "C", "V", "B", "N", "M", "<", ">", "?", NUL, NUL, NUL, " ", NUL>>

(* The bit of a modifier key; caps lock is toggled when it is released. *)
Bit(key) == CASE key \in {LeftShift, RightShift} -> {"Shift"}
              [] key \in {LeftControl, RightControl} -> {"Control"}
              [] key = LeftAlt -> {"Alt"}
              [] key = RightAlt -> {"AltGr"}
              [] key = Super -> {"Super"}
              [] OTHER -> {}

parse_modifiers(released, key) ==
    IF key = CapsLock
    THEN IF ~released THEN m_modifiers
         ELSE IF "CapsLock" \in m_modifiers THEN m_modifiers \ {"CapsLock"}
         ELSE m_modifiers \cup {"CapsLock"}
    ELSE IF released THEN m_modifiers \ Bit(key) ELSE m_modifiers \cup Bit(key)

code_point(modifiers, key) ==
    LET row == IF modifiers \cap {"Shift", "CapsLock"} # {}
               THEN default_keycode_map_shifted ELSE default_keycode_map
    IN IF Character(row, key) = "backslash" THEN "nak" ELSE Character(row, key)

(* CircularBuffer::push(): a full buffer loses its oldest event. *)
Pushed(event) ==
    LET all == Append(m_buffer, event)
    IN IF Len(all) > Capacity THEN Tail(all) ELSE all

(* KeyboardDevice::push(): into the buffer, and deferred to the listener. *)
push(event) ==
    /\ m_buffer' = Pushed(event)
    /\ deferred' = Append(deferred, event)

(* A defect: the prefix outlives the key it belongs to. *)
prefix_after_kept == m_e0_prefix

(* The prefix is consumed by the key that follows it. *)
prefix_after == FALSE

(* One byte from the controller.  A code without a key leaves everything   *)
(* as it is, the prefix included.                                          *)
handle_interrupt ==
    /\ wire # <<>> /\ wire' = Tail(wire)
    /\ LET byte == Head(wire)
           released == byte >= 128
           scancode == byte % 128
           key == IF m_e0_prefix THEN default_e0_scancode_map(scancode)
                  ELSE default_scancode_map(scancode)
           modifiers == parse_modifiers(released, key)
       IN IF byte = E0 THEN m_e0_prefix' = TRUE /\ UNCHANGED <<m_modifiers, m_buffer, deferred>>
          ELSE IF key = Key_None THEN UNCHANGED <<m_e0_prefix, m_modifiers, m_buffer, deferred>>
          ELSE /\ m_modifiers' = modifiers
               /\ m_e0_prefix' = prefix_after
               /\ push([key |-> key, pressed |-> ~released,
                        code_point |-> code_point(modifiers, key)])
    /\ UNCHANGED <<heard, got, held, caps, typed, blurred, strokes>>

(* Processor::process_deferred_queue(): the oldest deferred call. *)
process_deferred_queue ==
    /\ deferred # <<>>
    /\ heard' = Append(heard, Head(deferred)) /\ deferred' = Tail(deferred)
    /\ UNCHANGED <<wire, m_e0_prefix, m_modifiers, m_buffer, got, held, caps, typed, blurred,
                   strokes>>

(* KeyboardDevice::read() with room for n events: every event is copied to *)
(* the start of the caller's buffer.                                       *)
read(n) ==
    LET count == IF Len(m_buffer) < n THEN Len(m_buffer) ELSE n
    IN /\ count > 0
       /\ got' = [count |-> count, event |-> m_buffer[count]]
       /\ m_buffer' = SubSeq(m_buffer, count + 1, Len(m_buffer))
       /\ UNCHANGED <<wire, m_e0_prefix, m_modifiers, deferred, heard, held, caps, typed,
                      blurred, strokes>>

-----------------------------------------------------------------------------
(* External: the keyboard.  A stroke sends its bytes and is recorded with  *)
(* what a reader of the keys' labels expects it to type: the shifted label *)
(* while a shift key is down or caps lock is on.  blurred says that the    *)
(* driver is known to lose track: an extended key it does not name was     *)
(* used, or one of two shift keys was let go while the other stayed down.  *)
Shifts == {<<LeftShift, FALSE>>, <<RightShift, FALSE>>}

stroke(k, pressed) ==
    LET down == IF pressed THEN held \cup {k} ELSE held \ {k}
        lock == IF k = <<CapsLock, FALSE>> /\ ~pressed THEN ~caps ELSE caps
        shifted == lock \/ down \cap Shifts # {}
        byte == IF pressed THEN k[1] ELSE k[1] + 128
    IN /\ strokes < MaxStrokes /\ (pressed \/ k \in held)
       /\ held' = down /\ caps' = lock /\ strokes' = strokes + 1
       /\ wire' = wire \o (IF k[2] THEN <<E0, byte>> ELSE <<byte>>)
       /\ typed' = Append(typed, [pressed |-> pressed, label |-> Layout[k][IF shifted THEN 2 ELSE 1]])
       /\ blurred' = \/ blurred
                     \/ k[2] /\ default_e0_scancode_map(k[1]) = Key_None
                     \/ ~pressed /\ k \in Shifts /\ down \cap Shifts # {}
       /\ UNCHANGED <<m_e0_prefix, m_modifiers, m_buffer, deferred, heard, got>>

Init ==
    /\ wire = <<>> /\ m_e0_prefix = FALSE /\ m_modifiers = {} /\ m_buffer = <<>>
    /\ deferred = <<>> /\ heard = <<>>
    /\ got = [count |-> 0, event |-> [key |-> 0, pressed |-> FALSE, code_point |-> NUL]]
    /\ held = {} /\ caps = FALSE /\ typed = <<>> /\ blurred = FALSE /\ strokes = 0

Next == \/ handle_interrupt \/ process_deferred_queue
        \/ \E n \in 1..2 : read(n)
        \/ \E k \in Keys, pressed \in BOOLEAN : stroke(k, pressed)

Spec == Init /\ [][Next]_vars
-----------------------------------------------------------------------------
TypeOK == /\ m_e0_prefix \in BOOLEAN /\ Len(m_buffer) <= Capacity
          /\ m_modifiers \subseteq {"Shift", "Control", "Alt", "AltGr", "Super", "CapsLock"}

Label(event) == [pressed |-> event.pressed, label |-> event.code_point]
Labels(events) == [i \in 1..Len(events) |-> Label(events[i])]

(* However strokes, interrupts, deferred calls and reads interleave: the   *)
(* listener is given what was typed, in the order it was typed and with    *)
(* the labels of the keys, the device's buffer holds the newest events not *)
(* yet read, and with no byte under way a modifier bit is set only while   *)
(* a key for it is held down.  It is so for as long as no extended key     *)
(* outside the table was used and no shift key released under another.     *)
KeysTrue ==
    ~blurred =>
      /\ IsPrefix(Labels(heard \o deferred), typed)
      /\ IsSuffix(m_buffer, heard \o deferred)
      /\ wire = <<>> =>
           /\ Len(heard) + Len(deferred) = Len(typed)
           /\ \A m \in m_modifiers \ {"CapsLock"} :
                \E k \in held : ~k[2] /\ m \in Bit(default_scancode_map(k[1]))
=============================================================================
