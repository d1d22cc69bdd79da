----------------------------- MODULE LibkString -----------------------------
(***************************************************************************)
(* LibK::string on LibK::vector on the kernel heap: libk/kstring.hpp,      *)
(* libk/kvector.hpp.  The names of files, the lines of the terminals and   *)
(* the paths of processes are such strings.                                *)
(*                                                                         *)
(* Elements are trivially copyable (characters), so that a destroyed or    *)
(* never constructed element is a cell Raw.  An operation works on a       *)
(* record s of the heap, the vector and whether the assertions held.  The  *)
(* actions are the operations the kernel uses, guarded as its callers do.  *)
(***************************************************************************)
EXTENDS Integers, Sequences, SequencesExt, FiniteSets, FiniteSetsExt

CONSTANTS Objects,   \* the strings
          Chars,     \* characters
          Literals,  \* the C strings that are used
          MaxSize,   \* bound: characters in all strings
          Null, Raw

VARIABLES heap,      \* cells of the live blocks
          string,    \* m_vector of the strings
          asserted,  \* every assertion held
          text       \* what each string should hold

vars == <<heap, string, asserted, text>>

NUL == "nul"
Empty == [m_array |-> Null, m_capacity |-> 0, m_size |-> 0]

-----------------------------------------------------------------------------
(* The allocator: a block of cells, at the lowest free place. *)
allocate(h, n) ==
    LET id == Min((1 .. Cardinality(DOMAIN h) + 1) \ DOMAIN h)
    IN [id |-> id, heap |-> [b \in DOMAIN h \cup {id} |-> IF b = id THEN [i \in 0 .. n - 1 |-> Raw] ELSE h[b]]]
deallocate(h, id) == [b \in DOMAIN h \ {id} |-> h[b]]

next_power_of_two(n) == IF n = 0 THEN 0 ELSE Min({p \in {1, 2, 4, 8, 16, 32} : p >= n})

Cells(h, v) == IF v.m_array = Null THEN <<>> ELSE [i \in 1 .. v.m_size |-> h[v.m_array][i - 1]]

(* The vector with the elements xs in the cells from position p, and the   *)
(* size n; the cells behind are destroyed.                                 *)
Store(s, p, xs, n) ==
    [s EXCEPT !.v.m_size = n,
              !.heap = IF s.v.m_array = Null THEN s.heap
                       ELSE [s.heap EXCEPT ![s.v.m_array] =
                               [i \in DOMAIN @ |-> IF i >= n THEN Raw
                                                   ELSE IF i \in p .. p + Len(xs) - 1 THEN xs[i - p + 1]
                                                   ELSE @[i]]]]

(* A larger array takes the place of the old one, which is freed. *)
reserve(s, n) ==
    IF s.v.m_capacity >= n THEN s
    ELSE LET cap == Max({4, next_power_of_two(n)})
             new == allocate(s.heap, cap)
             moved == [s EXCEPT !.heap = new.heap, !.v.m_array = new.id, !.v.m_capacity = cap]
         IN [Store(moved, 0, Cells(s.heap, s.v), s.v.m_size) EXCEPT !.heap = deallocate(@, s.v.m_array)]

shrink(s, n) == Store(s, 0, <<>>, n)

(* resize(count, value), and push_back(const T &). *)
resize(s, n, value) ==
    IF n <= s.v.m_size THEN shrink(s, n)
    ELSE Store(reserve(s, n), s.v.m_size, [i \in 1 .. n - s.v.m_size |-> value], n)

(* pop_back() of an empty vector asks for SIZE_MAX elements: nothing. *)
pop_back(s) == IF s.v.m_size = 0 THEN s ELSE shrink(s, s.v.m_size - 1)

(* insert(): the elements from pos move up, last first, and the new ones   *)
(* are assigned to their place.                                            *)
insert(s, pos, values) ==
    LET n == s.v.m_size + Len(values)
        rest == SubSeq(Cells(s.heap, s.v), pos + 1, s.v.m_size)
    IN IF pos > s.v.m_size THEN [s EXCEPT !.ok = FALSE]
       ELSE Store(Store(reserve(s, n), pos + Len(values), rest, n), pos, values, n)

(* erase() of the elements from first up to last. *)
erase(s, first, last) ==
    LET rest == SubSeq(Cells(s.heap, s.v), last + 1, s.v.m_size)
    IN IF last >= s.v.m_size \/ first > last THEN [s EXCEPT !.ok = FALSE]
       ELSE Store(s, first, rest, s.v.m_size - (last - first))

(* The erasure of one element asserts that it is there. *)
erase_one(s, pos) ==
    LET rest == SubSeq(Cells(s.heap, s.v), pos + 2, s.v.m_size)
    IN IF pos >= s.v.m_size THEN [s EXCEPT !.ok = FALSE] ELSE Store(s, pos, rest, s.v.m_size - 1)

(* ~vector(), vector(count, value), the assignments.  The constructor that *)
(* should move copies: its argument is an lvalue.                          *)
destroy(s) == [s EXCEPT !.heap = deallocate(@, s.v.m_array), !.v = Empty]
vector(h, n, value) ==
    LET new == allocate(h, next_power_of_two(n))
    IN IF n = 0 THEN [heap |-> h, v |-> Empty, ok |-> TRUE]
       ELSE Store([heap |-> new.heap, ok |-> TRUE,
                   v |-> [m_array |-> new.id, m_capacity |-> next_power_of_two(n), m_size |-> n]],
                  0, [i \in 1 .. n |-> value], n)
copy_assign(s, other) ==
    LET gone == destroy(s)
        new == allocate(gone.heap, other.m_capacity)
    IN IF other.m_capacity = 0 THEN gone
       ELSE Store([gone EXCEPT !.heap = new.heap, !.v = [other EXCEPT !.m_array = new.id]],
                  0, Cells(s.heap, other), other.m_size)
move_assign(s, other) == [destroy(s) EXCEPT !.v = other]

-----------------------------------------------------------------------------
(* basic_string: the characters and a NUL behind them, or nothing at all.  *)
size(v) == Max({1, v.m_size}) - 1
empty(v) == v.m_size <= 1

ensure_not_null(s) == IF s.v.m_array = Null THEN resize(s, 1, NUL) ELSE s
insert_string(s, index, chars) == insert(ensure_not_null(s), index, chars)
append(s, chars) == insert_string(s, size(s.v), chars)
terminate(s) == append(s, <<NUL>>)

(* basic_string(s): as many NULs as there are characters, one more, and    *)
(* the characters copied over them.                                        *)
construct(h, literal) ==
    LET padded == terminate(vector(h, Len(literal), NUL))
    IN Store(padded, 0, literal, padded.v.m_size)

(* assign(s, count). *)
assign(s, literal) ==
    LET cleared == resize(resize(s, 0, NUL), Len(literal) + 1, NUL)
    IN Store(cleared, 0, literal, cleared.v.m_size)

(* pop_back(): the NUL goes, and the last character becomes one. *)
pop_back_string(s) ==
    LET popped == pop_back(s)
    IN IF popped.v.m_size = 0 THEN [popped EXCEPT !.ok = FALSE]
       ELSE Store(popped, popped.v.m_size - 1, <<NUL>>, popped.v.m_size)

-----------------------------------------------------------------------------
State(o) == [heap |-> heap, v |-> string[o], ok |-> TRUE]

(* A string after an operation, and what it should hold. *)
Becomes(o, s, new) ==
    /\ Len(new) + MapThenSumSet(LAMBDA x : Len(text[x]), Objects \ {o}) <= MaxSize
    /\ heap' = s.heap /\ string' = [string EXCEPT ![o] = s.v]
    /\ asserted' = (asserted /\ s.ok)
    /\ text' = [text EXCEPT ![o] = new]

(* The string of an empty C string has one character, a NUL. *)
FromLiteral(literal) == IF literal = <<>> THEN <<NUL>> ELSE literal

(* x = LibK::string(literal): a temporary, whose array x takes over. *)
renew(o, literal) ==
    LET temporary == construct(heap, literal)
    IN Becomes(o, move_assign([State(o) EXCEPT !.heap = temporary.heap, !.ok = temporary.ok], temporary.v),
               FromLiteral(literal))
reset(o) == Becomes(o, move_assign(State(o), Empty), <<>>)

assign_literal(o, literal) == Becomes(o, assign(State(o), literal), literal)
append_literal(o, literal) == Becomes(o, append(State(o), literal), text[o] \o literal)
push_back(o, char) == Becomes(o, append(State(o), <<char>>), Append(text[o], char))
insert_literal(o, literal) == Becomes(o, insert_string(State(o), 0, literal), literal \o text[o])

(* insert(0, str) and += str, of another string. *)
insert_other(o, other) ==
    /\ o # other
    /\ Becomes(o, insert_string(State(o), 0, SubSeq(Cells(heap, string[other]), 1, size(string[other]))),
               text[other] \o text[o])
append_other(o, other) ==
    /\ o # other
    /\ Becomes(o, append(State(o), SubSeq(Cells(heap, string[other]), 1, size(string[other]))),
               text[o] \o text[other])

(* Callers erase and pop only what is not empty. *)
erase_front(o) == ~empty(string[o]) /\ Becomes(o, erase_one(State(o), 0), Tail(text[o]))
erase_range(o, first, last) ==
    /\ ~empty(string[o]) /\ last <= size(string[o])
    /\ Becomes(o, erase(State(o), first, last),
               SubSeq(text[o], 1, first) \o SubSeq(text[o], last + 1, Len(text[o])))
pop(o) == ~empty(string[o]) /\ Becomes(o, pop_back_string(State(o)), Front(text[o]))

(* The assignments of another string; a string moved from is empty. *)
copy(o, other) ==
    o # other /\ Becomes(o, copy_assign(State(o), string[other]), text[other])
move(o, other) ==
    LET s == move_assign(State(o), string[other])
    IN /\ o # other
       /\ heap' = s.heap /\ asserted' = asserted
       /\ string' = [string EXCEPT ![o] = s.v, ![other] = Empty]
       /\ text' = [text EXCEPT ![o] = text[other], ![other] = <<>>]

Init ==
    /\ heap = <<>> /\ asserted = TRUE
    /\ string = [o \in Objects |-> Empty] /\ text = [o \in Objects |-> <<>>]

Next ==
    \E o \in Objects :
      \/ reset(o) \/ erase_front(o) \/ pop(o)
      \/ \E literal \in Literals :
           renew(o, literal) \/ assign_literal(o, literal) \/ insert_literal(o, literal) \/ append_literal(o, literal)
      \/ \E char \in Chars : push_back(o, char)
      \/ \E other \in Objects : insert_other(o, other) \/ append_other(o, other) \/ copy(o, other) \/ move(o, other)
      \/ \E last \in 0 .. MaxSize : \E first \in 0 .. last : erase_range(o, first, last)

Spec == Init /\ [][Next]_vars
-----------------------------------------------------------------------------
TypeOK == /\ asserted \in BOOLEAN
          /\ \A o \in Objects : string[o].m_array = Null => string[o] = Empty

(* Whatever was assigned, inserted, erased, copied and moved before: every *)
(* string holds its text followed by one NUL and every assertion of the    *)
(* vector held; and the blocks of the heap are the arrays of the strings,  *)
(* each owned by one of them, as large as its m_capacity, which is enough. *)
StringsSound ==
    /\ asserted
    /\ \A o \in Objects :
         /\ \/ Cells(heap, string[o]) = Append(text[o], NUL)
            \/ string[o] = Empty /\ text[o] = <<>>
         /\ empty(string[o]) = (text[o] = <<>>)
         /\ string[o].m_array # Null =>
              /\ DOMAIN heap[string[o].m_array] = 0 .. string[o].m_capacity - 1
              /\ string[o].m_size <= string[o].m_capacity
    /\ DOMAIN heap = {string[o].m_array : o \in Objects} \ {Null}
    /\ \A o, other \in Objects :
         string[o].m_array = string[other].m_array => o = other \/ string[o].m_array = Null
=============================================================================
