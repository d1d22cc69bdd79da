------------------------------- MODULE Printf -------------------------------
(***************************************************************************)
(* The two printf implementations of the system.  The kernel's             *)
(* (include/libk/printf.hpp, libk/printf.cpp) parses flags, width,         *)
(* precision and length and prints through a putc callback; the C          *)
(* library's (userland/libc/__printf.c) does the same against a buffer of  *)
(* bufsz bytes or a file.  A call is one job: a sequence of pieces, each a *)
(* literal character or a conversion with its argument.  The format string *)
(* and the argument list are written out of the pieces; the program parses *)
(* them back, one format character or conversion per step.                 *)
(*                                                                         *)
(* A character is a one-letter string, a C string a sequence of them.      *)
(* IntWord and LongWord stand for 2^32 and 2^64, PtrDigits for the eight   *)
(* hexadecimal digits of a pointer.                                        *)
(***************************************************************************)
EXTENDS Integers, Sequences, SequencesExt, FiniteSetsExt

CONSTANTS Jobs,      \* the calls: [who, pieces, n], n the buffer's size
          IntWord, LongWord, PtrDigits,
          INT_MAX    \* the buffer size of vfprintf and vsprintf

VARIABLES job,       \* the call being made
          fmt,       \* what is left of the format string
          args,      \* what is left of the argument list
          out,       \* the characters handed to putc and puts
          written,   \* ret in the kernel, conversion->written in the library
          bufsz,     \* conversion->bufsz; negative once it has wrapped
          counts,    \* what the %n conversions stored
          done

vars == <<job, fmt, args, out, written, bufsz, counts, done>>

Flags == {"-", "+", " ", "#", "0"}
Digits == <<"0", "1", "2", "3", "4", "5", "6", "7", "8", "9">>
Alphabet == Digits \o <<"a", "b", "c", "d", "e", "f">>
UPPER == Digits \o <<"A", "B", "C", "D", "E", "F">>
Decimal(c) == CHOOSE d \in 0..9 : Digits[d + 1] = c
IsDigit(c) == c \in ToSet(Digits)
Upper(c) == IF c = "x" THEN "X"
            ELSE IF \E d \in 11..16 : Alphabet[d] = c
                 THEN UPPER[CHOOSE d \in 11..16 : Alphabet[d] = c] ELSE c
Repeat(c, n) == [i \in 1..n |-> c]
Monus(a, b) == IF a > b THEN a - b ELSE 0
Drop(s, n) == SubSeq(s, n + 1, Len(s))
At(s, i) == IF i <= Len(s) THEN s[i] ELSE "nul"
(* The length of the longest prefix made of characters of S. *)
Span(s, S) == Max({n \in 0..Len(s) : \A i \in 1..n : s[i] \in S})
Number(s) == FoldLeft(LAMBDA a, c : 10 * a + Decimal(c), 0, s)

-----------------------------------------------------------------------------
(* Both parsers read "%[flags][width][.precision][length]specifier"; a     *)
(* parse is a record: the fields of state_t or printf_conv_t, the rest of  *)
(* the format and of the arguments.                                        *)

(* Kernel: a flag given twice ends the flags. *)
parse_flags(p) ==
    LET n == Max({k \in 0..Len(p.fmt) :
                    \A i \in 1..k : /\ p.fmt[i] \in Flags
                                    /\ \A j \in 1..(i - 1) : p.fmt[j] # p.fmt[i]})
    IN [p EXCEPT !.flags = {p.fmt[i] : i \in 1..n}, !.fmt = Drop(@, n)]

(* A number or an argument; field is "width" or "precision". *)
parse_width_or_precision(p, field) ==
    LET n == Span(p.fmt, ToSet(Digits))
    IN CASE n > 0 ->
              [p EXCEPT ![field] = Number(SubSeq(p.fmt, 1, n)), !.fmt = Drop(@, n)]
         [] At(p.fmt, 1) = "*" ->
              [p EXCEPT ![field] = Head(p.args), !.fmt = Tail(@), !.args = Tail(@)]
         [] OTHER -> p

parse_precision(p) ==
    IF At(p.fmt, 1) = "."
    THEN parse_width_or_precision([p EXCEPT !.has_precision = TRUE, !.fmt = Tail(@)],
                                  "precision")
    ELSE p

parse_length(p, Lengths) ==
    LET n == CASE At(p.fmt, 1) \in {"h", "l"} /\ At(p.fmt, 2) = At(p.fmt, 1) -> 2
               [] At(p.fmt, 1) \in Lengths -> 1
               [] OTHER -> 0
    IN [p EXCEPT !.length = SubSeq(p.fmt, 1, n), !.fmt = Drop(@, n)]

parse_specifier(p) == [p EXCEPT !.specifier = At(p.fmt, 1), !.fmt = Drop(@, 1)]

NewParse == [flags |-> {}, width |-> 0, has_precision |-> FALSE, precision |-> 0,
             length |-> <<>>, specifier |-> "nul", fmt |-> Tail(fmt), args |-> args]

Has(p, flag) == flag \in p.flags

-----------------------------------------------------------------------------
(* The kernel's conversions.  parse_number loops until the value is zero   *)
(* and the precision reached, or over the digits of a pointer.             *)

parse_number(p, num, base, is_ptr) ==
    LET RECURSIVE Loop(_, _)
        Loop(n, digits) ==
            LET w == Len(digits)
                stop == IF is_ptr THEN w = PtrDigits
                        ELSE n = 0 /\ IF p.has_precision THEN w >= p.precision ELSE w > 0
            IN IF stop THEN digits
               ELSE Loop(n \div base, <<Alphabet[(n % base) + 1]>> \o digits)
    IN Loop(num, <<>>)

(* What a conversion hands to putc, and the count it returns. *)
Printed(text, n) == [text |-> text, written |-> n]

print_value(p, str) ==
    LET negative == At(str, 1) = "-"
        digits == IF negative THEN Tail(str) ELSE str
        sign == CASE negative -> <<"-">>
                  [] ~negative /\ p.specifier \in {"d", "i"} /\ Has(p, "+") -> <<"+">>
                  [] ~negative /\ p.specifier \in {"d", "i"} /\ Has(p, " ") /\ ~Has(p, "+")
                        -> <<" ">>
                  [] OTHER -> <<>>
        len == Len(digits)
        zero_length == Monus(p.precision, len)
        pad_length == Monus(p.width, len + zero_length)
        left == Has(p, "-")
        early == IF ~left /\ pad_length > 0 /\ Has(p, "0") THEN sign ELSE <<>>
        padding == Repeat(IF ~left /\ Has(p, "0") THEN "0" ELSE " ", pad_length - Len(early))
        zeroes == Repeat("0", Monus(zero_length, Len(sign)))
        body == sign \o zeroes \o digits
    IN Printed(IF left THEN body \o padding ELSE early \o padding \o body,
               Len(early) + Len(padding) + Len(sign) + Len(zeroes) + len)

print_string(p, str) ==
    LET len == IF p.has_precision THEN Min({Len(str), p.precision}) ELSE Len(str)
        pad == Repeat(" ", Monus(p.width, len))
        text == SubSeq(str, 1, len)
    IN Printed(IF Has(p, "-") THEN text \o pad ELSE pad \o text, len + Len(pad))

(* va_arg as unsigned int or unsigned long long. *)
Unsigned(p) == Head(p.args) % (IF p.length = <<"l", "l">> THEN LongWord ELSE IntWord)

handle_octal(p) ==
    LET prefix == IF Has(p, "#") /\ Unsigned(p) > 0 THEN <<"0">> ELSE <<>>
    IN print_value(p, prefix \o parse_number(p, Unsigned(p), 8, FALSE))

handle_hex(p) ==
    LET prefix == IF Has(p, "#") /\ Unsigned(p) > 0 THEN <<"0", "x">> ELSE <<>>
        str == prefix \o parse_number(p, Unsigned(p), 16, FALSE)
    IN print_value(p, IF p.specifier = "X" THEN [i \in 1..Len(str) |-> Upper(str[i])] ELSE str)

handle_unsigned(p) == print_value(p, parse_number(p, Unsigned(p), 10, FALSE))

handle_signed(p) ==
    LET value == Head(p.args)
    IN print_value(p, IF value < 0 THEN <<"-">> \o parse_number(p, -value, 10, FALSE)
                      ELSE parse_number(p, value, 10, FALSE))

handle_p(p) ==
    IF Head(p.args) = 0 THEN print_string(p, <<"(", "n", "i", "l", ")">>)
    ELSE print_value(p, <<"0", "x">> \o parse_number(p, Head(p.args), 16, TRUE))

(* %s prints nothing for a null pointer, here the empty string. *)
handle_specifier(p) ==
    CASE p.specifier = "c" -> print_string(p, <<Head(p.args)>>)
      [] p.specifier = "s" -> print_string(p, Head(p.args))
      [] p.specifier \in {"d", "i"} -> handle_signed(p)
      [] p.specifier = "u" -> handle_unsigned(p)
      [] p.specifier \in {"x", "X"} -> handle_hex(p)
      [] p.specifier = "o" -> handle_octal(p)
      [] p.specifier = "p" -> handle_p(p)
      [] OTHER -> Printed(<<>>, 0)

-----------------------------------------------------------------------------
(* The library writes through r = [out, bufsz, written, width]: the        *)
(* characters stored, the room left, the count returned, minimal_width.    *)

(* size_t arithmetic: a wrapped bufsz is larger than any size. *)
Clip(n, room) == IF room < 0 THEN n ELSE Min({n, room})

write_string(r, s) ==
    LET n == Clip(Len(s), r.bufsz)
    IN [r EXCEPT !.written = @ + Len(s), !.out = @ \o SubSeq(s, 1, n), !.bufsz = @ - n]

write_char(r, c) ==
    IF r.bufsz > 1 \/ r.bufsz < 0
    THEN [r EXCEPT !.written = @ + 1, !.out = Append(@, c), !.bufsz = @ - 1]
    ELSE [r EXCEPT !.written = @ + 1]

(* A defect: the sequence is not clipped to the buffer. *)
write_char_seq_unclipped(r, c, count) ==
    [r EXCEPT !.written = @ + count, !.out = @ \o Repeat(c, count), !.bufsz = @ - count]

write_char_seq(r, c, count) ==
    LET n == Clip(count, r.bufsz - 1)
    IN [r EXCEPT !.written = @ + count, !.out = @ \o Repeat(c, n), !.bufsz = @ - n]

write_padding(r, ladjust, p, fill) ==
    IF r.width <= 0 \/ ladjust # Has(p, "-") THEN r ELSE write_char_seq(r, fill, r.width)

(* printf_parse_flags loops while PRINTF_FLAG_PARSING is set.  Nothing     *)
(* sets it, so no flag is ever consumed: a '0' is read as part of the      *)
(* width and any other flag character ends the conversion.                 *)
printf_parse_flags(p) == p

printf_parse_width(p) ==
    LET q == parse_width_or_precision(p, "width")
    IN IF q.width < 0 THEN [q EXCEPT !.flags = @ \cup {"-"}, !.width = -@] ELSE q

printf_parse_precision(p) ==
    LET q == parse_precision(p)
    IN [q EXCEPT !.precision = IF @ < 0 THEN 0 ELSE @]

(* A loop storing the digits backwards, then reversed. *)
ulltoa(num, base) ==
    LET RECURSIVE Loop(_)
        Loop(n) == <<UPPER[(n % base) + 1]>> \o IF n < base THEN <<>> ELSE Loop(n \div base)
    IN Reverse(Loop(num))

(* The argument widened to 64 bits: an int is sign-extended, whatever the  *)
(* conversion will make of it.                                             *)
printf_parse_varg(p) ==
    LET var == IF p.specifier \in {"d", "i"} THEN Head(p.args) ELSE Head(p.args) % LongWord
        base == CASE p.specifier \in {"x", "X"} -> 16 [] p.specifier = "o" -> 8 [] OTHER -> 10
    IN IF var < 0 THEN <<"-">> \o ulltoa(-var, base) ELSE ulltoa(var, base)

convert_number(r, p) ==
    LET repr == printf_parse_varg(p)
        negative == repr[1] = "-"
        sign == IF negative THEN <<"-">> ELSE <<>>
        digits == IF negative THEN Tail(repr) ELSE repr
        cased == IF p.specifier = "x"
                 THEN [i \in 1..Len(digits) |->
                         Alphabet[CHOOSE d \in 1..16 : UPPER[d] = digits[i]]]
                 ELSE digits
        padding == Monus(p.precision, Len(digits))
        shown == ~p.has_precision \/ p.precision > 0 \/ digits[1] # "0"
        r1 == IF shown THEN [r EXCEPT !.width = @ - (Len(digits) + padding)] ELSE r
        r2 == write_padding(r1, FALSE, p, " ")
        r3 == IF negative THEN write_char(r2, "-") ELSE r2
        r4 == IF shown THEN write_string(write_char_seq(r3, "0", padding), cased) ELSE r2
    IN write_padding(r4, TRUE, p, " ")

convert_string(r, p, s) ==
    LET size == IF p.has_precision THEN Min({Len(s), p.precision}) ELSE Len(s)
        r1 == write_padding([r EXCEPT !.width = @ - size], FALSE, p, " ")
    IN write_padding(write_string(r1, SubSeq(s, 1, size)), TRUE, p, " ")

(* %c counts its character here and once more in write_char. *)
convert_char(r, p) ==
    LET r1 == [r EXCEPT !.width = @ - 1, !.written = @ + 1]
        r2 == write_char(write_padding(r1, FALSE, p, " "), Head(p.args))
    IN write_padding(r2, TRUE, p, " ")

(* %p ignores the precision. *)
convert_pointer(r, p) ==
    LET zeroes == Repeat("0", Monus(PtrDigits, Len(ulltoa(Head(p.args), 16))))
        text == IF Head(p.args) = 0 THEN <<"(", "n", "i", "l", ")">>
                ELSE <<"0", "x">> \o zeroes \o ulltoa(Head(p.args), 16)
    IN convert_string(r, [p EXCEPT !.has_precision = FALSE], text)

convert(r, p) ==
    CASE p.specifier = "%" ->
           IF p.flags = {} /\ ~p.has_precision /\ p.length = <<>> /\ p.width = 0
           THEN write_char(r, "%") ELSE r
      [] p.specifier = "c" -> convert_char(r, p)
      [] p.specifier = "s" -> convert_string(r, p, Head(p.args))
      [] p.specifier \in {"d", "i", "u", "o", "x", "X"} -> convert_number(r, p)
      [] p.specifier = "p" -> convert_pointer(r, p)
      [] OTHER -> r

-----------------------------------------------------------------------------
(* The job's format and arguments. *)

Numeral(n, base) ==
    LET k == Min({j \in 1..7 : n < base ^ j})
    IN [i \in 1..k |-> Alphabet[((n \div base ^ (k - i)) % base) + 1]]

Field(f) == CASE f = "none" -> <<>>
              [] f = "given" -> <<"*">>
              [] OTHER -> <<f>>
(* A width or precision is "none", a digit of the format, or an argument. *)
FieldValue(f, given) ==
    CASE f \in {"absent", "none"} -> 0 [] f = "given" -> given [] OTHER -> Decimal(f)

PieceText(x) ==
    IF x.specifier = "literal" THEN IF x.str = <<"%">> THEN <<"%", "%">> ELSE x.str
    ELSE <<"%">> \o x.flags \o Field(x.width)
         \o (IF x.precision = "absent" THEN <<>> ELSE <<".">> \o Field(x.precision))
         \o x.length \o <<x.specifier>>

PieceArgs(x) ==
    IF x.specifier = "literal" THEN <<>>
    ELSE (IF x.width = "given" THEN <<x.given>> ELSE <<>>)
         \o (IF x.precision = "given" THEN <<x.given>> ELSE <<>>)
         \o (CASE x.specifier = "n" -> <<>>
              [] x.specifier = "c" -> x.str
              [] x.specifier = "s" -> <<x.str>>
              [] OTHER -> <<x.num>>)

Init == /\ job \in Jobs
        /\ fmt = FlattenSeq([i \in 1..Len(job.pieces) |-> PieceText(job.pieces[i])])
        /\ args = FlattenSeq([i \in 1..Len(job.pieces) |-> PieceArgs(job.pieces[i])])
        /\ out = <<>> /\ written = 0 /\ counts = <<>> /\ done = FALSE
        /\ bufsz = IF job.n > 0 /\ job.n < INT_MAX THEN job.n - 1 ELSE job.n

(* A conversion takes one argument, %n a pointer of its own. *)
ArgsAfter(p) == IF p.specifier \in {"c", "s", "d", "i", "u", "x", "X", "o", "p"}
                THEN Tail(p.args) ELSE p.args
CountsAfter(p) == IF p.specifier = "n" THEN Append(counts, written) ELSE counts

(* One turn of printf_internal's loop. *)
printf_internal ==
    /\ job.who = "kernel" /\ fmt # <<>>
    /\ IF fmt[1] # "%" \/ At(fmt, 2) = "%"
       THEN /\ out' = Append(out, fmt[1]) /\ written' = written + 1
            /\ fmt' = Drop(fmt, IF fmt[1] = "%" THEN 2 ELSE 1)
            /\ UNCHANGED <<args, counts>>
       ELSE LET p == parse_specifier(parse_length(parse_precision(
                         parse_width_or_precision(parse_flags(NewParse), "width")),
                         {"h", "l", "j", "t", "z", "L"}))
                printed == handle_specifier(p)
            IN /\ out' = out \o printed.text /\ written' = written + printed.written
               /\ fmt' = p.fmt /\ args' = ArgsAfter(p) /\ counts' = CountsAfter(p)
    /\ UNCHANGED <<job, bufsz, done>>

(* One turn of __printf_impl's loop.  An unknown specifier is not skipped: *)
(* it is the next character of the format.                                 *)
printf_impl ==
    /\ job.who = "libc" /\ fmt # <<>> /\ (bufsz > 1 \/ bufsz < 0)
    /\ LET p == parse_specifier(parse_length(printf_parse_precision(
                    printf_parse_width(printf_parse_flags(NewParse))),
                    {"h", "l", "j", "t", "z"}))
           r0 == [out |-> out, bufsz |-> bufsz, written |-> written, width |-> p.width]
           known == {"%", "c", "s", "d", "i", "u", "x", "X", "o", "n", "p"}
       IN IF fmt[1] # "%"
          THEN LET r == write_char([r0 EXCEPT !.width = 0], fmt[1])
               IN /\ out' = r.out /\ bufsz' = r.bufsz /\ written' = r.written
                  /\ fmt' = Tail(fmt) /\ UNCHANGED <<args, counts>>
          ELSE LET r == convert(r0, p)
               IN /\ out' = r.out /\ bufsz' = r.bufsz /\ written' = r.written
                  /\ fmt' = IF p.specifier \in known THEN p.fmt
                            ELSE <<p.specifier>> \o p.fmt
                  /\ args' = ArgsAfter(p) /\ counts' = CountsAfter(p)
    /\ UNCHANGED <<job, done>>

(* The end of either loop; the library terminates a buffer of its caller. *)
return ==
    /\ ~done
    /\ fmt = <<>> \/ (job.who = "libc" /\ bufsz \in {0, 1})
    /\ done' = TRUE
    /\ out' = IF job.who = "libc" /\ job.n \in 1..(INT_MAX - 1) THEN Append(out, "nul") ELSE out
    /\ UNCHANGED <<job, fmt, args, written, bufsz, counts>>

Next == printf_internal \/ printf_impl \/ return
Spec == Init /\ [][Next]_vars
-----------------------------------------------------------------------------
(* What C says a conversion prints: the digits, at least precision of      *)
(* them, a sign or prefix in front, padded to the width with blanks, or    *)
(* with zeroes between prefix and digits.                                  *)
Reference(x) ==
    LET width == FieldValue(x.width, x.given)
        precise == x.precision # "absent"
        precision == FieldValue(x.precision, x.given)
        flag(f) == f \in ToSet(x.flags)
        left == flag("-") \/ width < 0
        Pad(s) == LET n == Monus(IF width < 0 THEN -width ELSE width, Len(s))
                  IN IF left THEN s \o Repeat(" ", n) ELSE Repeat(" ", n) \o s
        base == CASE x.specifier \in {"x", "X"} -> 16 [] x.specifier = "o" -> 8 [] OTHER -> 10
        magnitude == IF x.num < 0 THEN -x.num ELSE x.num
        raw == IF precise /\ precision = 0 /\ magnitude = 0 THEN <<>> ELSE Numeral(magnitude, base)
        digits == Repeat("0", Monus(precision, Len(raw))) \o raw
        prefix == CASE x.specifier \in {"d", "i"} ->
                         IF x.num < 0 THEN <<"-">>
                         ELSE IF flag("+") THEN <<"+">> ELSE IF flag(" ") THEN <<" ">> ELSE <<>>
                    [] base = 16 /\ flag("#") /\ x.num # 0 -> <<"0", "x">>
                    [] base = 8 /\ flag("#") /\ x.num # 0 /\ digits[1] # "0" -> <<"0">>
                    [] OTHER -> <<>>
        zeroes == IF flag("0") /\ ~left /\ ~precise
                  THEN Repeat("0", Monus(width, Len(prefix) + Len(digits))) ELSE <<>>
        number == prefix \o zeroes \o digits
    IN CASE x.specifier = "literal" -> x.str
         [] x.specifier = "n" -> <<>>
         [] x.specifier = "c" -> Pad(x.str)
         [] x.specifier = "s" ->
              Pad(IF precise THEN SubSeq(x.str, 1, Min({Len(x.str), precision})) ELSE x.str)
         [] x.specifier = "X" -> Pad([i \in 1..Len(number) |-> Upper(number[i])])
         [] OTHER -> Pad(number)

(* The conversions on which the kernel keeps to C: zeroes are padded only  *)
(* in front of a bare number without a precision, a sign is not counted in *)
(* a width, %#o adds its zero to the precision's, no '*' is negative, and  *)
(* %c takes no precision.                                                  *)
KernelPortable(x) ==
    LET width == FieldValue(x.width, x.given)
        flag(f) == f \in ToSet(x.flags)
        signed == x.specifier \in {"d", "i"} /\ (x.num < 0 \/ flag("+") \/ flag(" "))
        alternative == x.specifier \in {"o", "x", "X"} /\ flag("#")
    IN CASE x.specifier \in {"literal", "n"} -> TRUE
         [] x.specifier \in {"c", "s"} -> x.given >= 0 /\ (x.specifier = "c" => x.precision = "absent")
         [] x.specifier = "p" -> FALSE
         [] OTHER -> /\ x.given >= 0
                     /\ flag("0") => x.precision = "absent"
                     /\ (signed \/ alternative) => width = 0
                     /\ alternative => x.precision = "absent"
                     /\ x.num >= 0 \/ signed

(* The library's: no flags, no negative number outside %d and %i, where    *)
(* the sign is not counted in a width, no negative precision.              *)
LibcPortable(x) ==
    CASE x.specifier \in {"literal", "n"} -> x.flags = <<>>
      [] x.specifier = "p" -> FALSE
      [] x.specifier \in {"c", "s"} -> x.flags = <<>> /\ (x.precision # "given" \/ x.given >= 0)
      [] OTHER -> /\ x.flags = <<>> /\ (x.precision # "given" \/ x.given >= 0)
                  /\ x.num < 0 => x.specifier \in {"d", "i"} /\ x.width = "none"

Expected == FlattenSeq([i \in 1..Len(job.pieces) |-> Reference(job.pieces[i])])
Pieces(S) == Cardinality({i \in 1..Len(job.pieces) : job.pieces[i].specifier \in S})

TypeOK == /\ job.who \in {"kernel", "libc"} /\ done \in BOOLEAN
          /\ written \in Nat /\ bufsz \in Int
          /\ \A i \in 1..Len(counts) : counts[i] \in Nat

(* Whatever the flags, widths, precisions and arguments: the kernel's      *)
(* printf returns the number of characters it printed and hands %n the     *)
(* number printed so far, and prints what C specifies on the conversions   *)
(* it covers.  The library's does so when the buffer is large enough, up   *)
(* to counting %c twice, and a snprintf into n bytes stores at most n,     *)
(* the terminating zero included, when nothing is adjusted to the left.    *)
PrintfSound ==
    done =>
      /\ job.who = "kernel" =>
           /\ written = Len(out)
           /\ \A i \in 1..Len(counts) : counts[i] <= Len(out)
           /\ (\A i \in 1..Len(job.pieces) : KernelPortable(job.pieces[i])) => out = Expected
      /\ job.who = "libc" /\ job.n = INT_MAX =>
           /\ (\A i \in 1..Len(job.pieces) : job.pieces[i].flags = <<>>) =>
                written = Len(out) + Pieces({"c"})
           /\ (\A i \in 1..Len(job.pieces) : LibcPortable(job.pieces[i])) => out = Expected
      /\ job.who = "libc" /\ job.n < INT_MAX
            /\ (\A i \in 1..Len(job.pieces) : job.pieces[i].given >= 0) =>
           /\ Len(out) <= job.n
           /\ job.n > 0 => out[Len(out)] = "nul"
=============================================================================
