--------------------------- MODULE DynamicLinker ---------------------------
(***************************************************************************)
(* The dynamic linker, userland/ld-owos: it loads the shared objects that  *)
(* a program depends on, binds the symbols of each, calls the functions    *)
(* that initialise them, and starts the program.                           *)
(*                                                                         *)
(* An object is known by its name.  Its dynamic section is abstracted to   *)
(* the objects it needs, in order, whether it defines the one symbol that  *)
(* every object uses, and whether its use of the symbol is weak.  Memory   *)
(* that malloc() returns is taken to be zero, as that of a new heap is.    *)
(* The stack on which it starts is the kernel's, elf/elf.cpp: a sequence   *)
(* of words, lowest address first, in which a string stands for a pointer  *)
(* to it and an auxiliary vector entry is its type.                        *)
(***************************************************************************)
EXTENDS Integers, Sequences, FiniteSets, SequencesExt

CONSTANTS
    Executable, Libraries,
    Graphs,    \* the dependencies: functions from the objects to sequences of libraries
    Defined,   \* the sets of objects that define the symbol
    Weak,      \* the objects that use it weakly
    Arguments, \* lists of strings that exec() may be given
    None

Objects == {Executable} \cup Libraries

VARIABLES
    dependencies, defines,  \* what the files say
    list,      \* s_shared_object_list
    handled,   \* the objects that are marked
    binding,   \* binding[o]: the object whose symbol o uses
    bases,     \* how often the base was added to the relative words of o
    calls,     \* the initialisation functions called, as objects, in order
    stack,     \* objects in parse_elf_headers() or recursive_call_init_functions(),
               \* with the index of the dependency that is next
    pc,
    queued     \* longest queue of resolve_symbol() (history)

vars == <<dependencies, defines, list, handled, binding, bases, calls, stack, pc, queued>>

TypeOK ==
    /\ list \in Seq(Objects) /\ handled \subseteq Objects /\ calls \in Seq(Objects)
    /\ binding \in [Objects -> Objects \cup {None}] /\ bases \in [Objects -> Nat]
    /\ pc \in {"load", "relocate", "init", "main", "abort", "overflow"}

(* _entry(): an empty list, then parse_elf_headers() of the executable.    *)
Init ==
    /\ dependencies \in Graphs /\ defines \in Defined
    /\ list = <<Executable>> /\ handled = {} /\ calls = <<>> /\ queued = 0
    /\ binding = [o \in Objects |-> None] /\ bases = [o \in Objects |-> 0]
    /\ stack = <<<<Executable, 1>>>> /\ pc = "load"

Top == Last(stack)
Advance == [stack EXCEPT ![Len(stack)][2] = @ + 1]
Exhausted == Top[2] > Len(dependencies[Top[1]])
Dependency == dependencies[Top[1]][Top[2]]
filesVars == <<dependencies, defines>>

----------------------------------------------------------------------------
get_shared_object_by_soname(o) == o \in Range(list)

(* The end of parse_elf_headers(): the object is in the list, and its      *)
(* dependencies follow, each loaded if it is not in the list.              *)
load ==
    /\ pc = "load" /\ ~Exhausted
    /\ IF get_shared_object_by_soname(Dependency)
       THEN stack' = Advance /\ UNCHANGED list
       ELSE /\ list' = Append(list, Dependency)
            /\ stack' = Append(Advance, <<Dependency, 1>>)
    /\ UNCHANGED <<filesVars, handled, binding, bases, calls, pc, queued>>

load_return ==
    /\ pc = "load" /\ Exhausted
    /\ stack' = Front(stack)
    /\ pc' = IF Len(stack) = 1 THEN "relocate" ELSE pc
    /\ UNCHANGED <<filesVars, list, handled, binding, bases, calls, queued>>

(* The unmarked dependencies of so, which resolve_symbol() marks.          *)
Unmarked(so, marked) ==
    FoldLeft(LAMBDA ds, d : IF d \in marked \/ d \in Range(ds) THEN ds ELSE Append(ds, d), <<>>, dependencies[so])

(* resolve_symbol(): the queue, in order, when it has gone through n       *)
(* objects; it stops at the first that defines the symbol.  The object it  *)
(* starts from is not marked.                                              *)
Queue(o) ==
    LET queues[n \in 0 .. Cardinality(Objects) + 1] ==
            IF n = 0 THEN <<o>>
            ELSE LET q == queues[n - 1] IN
                 IF n > Len(q) \/ q[n] \in defines THEN q
                 ELSE IF \E i \in 1 .. n - 1 : q[i] \in defines THEN q
                 ELSE q \o Unmarked(q[n], handled \cup Range(Tail(q)))
    IN  queues[Cardinality(Objects) + 1]

(* A defect: the last of the queue that defines the symbol is taken.       *)
resolve_symbol_last(o) ==
    LET found == {i \in DOMAIN Queue(o) : Queue(o)[i] \in defines}
    IN  IF found = {} THEN None ELSE Queue(o)[CHOOSE i \in found : \A j \in found : j <= i]

resolve_symbol(o) ==
    LET found == {i \in DOMAIN Queue(o) : Queue(o)[i] \in defines}
    IN  IF found = {} THEN None ELSE Queue(o)[CHOOSE i \in found : \A j \in found : i <= j]

(* do_relocations() of the next object in the list: relative words get the *)
(* base added; the others the symbol, of the object itself or of the first *)
(* object that has it.  Without one the program is aborted, unless the     *)
(* use is weak.                                                            *)
do_relocations ==
    LET n == Cardinality({o \in Objects : bases[o] > 0})
        o == list[n + 1]
        symbol == IF o \in defines THEN o ELSE resolve_symbol(o)
    IN  /\ pc = "relocate" /\ n < Len(list)
        /\ bases' = [bases EXCEPT ![o] = @ + 1]
        /\ binding' = [binding EXCEPT ![o] = symbol]
        /\ queued' = IF Len(Queue(o)) > queued THEN Len(Queue(o)) ELSE queued
        /\ pc' = IF symbol = None /\ o \notin Weak THEN "abort" ELSE pc
        /\ UNCHANGED <<filesVars, list, handled, calls, stack>>

(* call_init_functions(): from the executable, whose own are not called.   *)
relocated ==
    /\ pc = "relocate" /\ \A i \in DOMAIN list : bases[list[i]] > 0
    /\ pc' = "init" /\ stack' = <<<<Executable, 1>>>>
    /\ UNCHANGED <<filesVars, list, handled, binding, bases, calls, queued>>

(* recursive_call_init_functions(): first those of the dependencies that   *)
(* are not handled.  A cycle of dependencies recurses without end.         *)
call_dependency ==
    /\ pc = "init" /\ ~Exhausted
    /\ stack' = IF Dependency \in handled THEN Advance ELSE Append(Advance, <<Dependency, 1>>)
    /\ pc' = IF Len(stack') > Cardinality(Objects) THEN "overflow" ELSE pc
    /\ UNCHANGED <<filesVars, list, handled, binding, bases, calls, queued>>

call_own ==
    /\ pc = "init" /\ Exhausted /\ Len(stack) > 1
    /\ calls' = Append(calls, Top[1])
    /\ handled' = handled \cup {Top[1]}
    /\ stack' = Front(stack)
    /\ UNCHANGED <<filesVars, list, binding, bases, pc, queued>>

start_main ==
    /\ pc = "init" /\ Exhausted /\ Len(stack) = 1
    /\ handled' = {} /\ stack' = <<>> /\ pc' = "main"
    /\ UNCHANGED <<filesVars, list, binding, bases, calls, queued>>

Next == load \/ load_return \/ do_relocations \/ relocated \/ call_dependency \/ call_own \/ start_main

Spec == Init /\ [][Next]_vars

----------------------------------------------------------------------------
(* The stack that exec() makes; loops push the lists from their ends.      *)
thread_push_userspace_data(word, words) == <<word>> \o words
PushAll(list_, words) == FoldRight(thread_push_userspace_data, list_, words)

set_up_stack(argv, envp) ==
    LET auxv == PushAll(Reverse(<<"AT_NULL", "AT_EXECBASE", "AT_ENTRY", "AT_EXECFN", "AT_PAGESZ", "AT_BASE">>), <<>>)
        env == PushAll(envp, thread_push_userspace_data("NULL", auxv))
        args == PushAll(argv, thread_push_userspace_data("NULL", env))
    IN  thread_push_userspace_data(Len(argv), args)

(* What the linker takes from it.  Its own base is read from the first     *)
(* entry of the auxiliary vector, if AT_BASE is in any.                    *)
Until(words, word) == SubSeq(words, 1, SelectInSeq(words, LAMBDA w : w = word) - 1)

parse_stack(words) ==
    LET argc == words[1]
        envp == Until(SubSeq(words, argc + 3, Len(words)), "NULL")
    IN  [argv |-> SubSeq(words, 2, argc + 2), envp |-> envp,
         auxv |-> Until(SubSeq(words, argc + 4 + Len(envp), Len(words)), "AT_NULL")]
early_base(auxv) == IF "AT_BASE" \in Range(auxv) THEN auxv[1] ELSE "NULL"

(* Arguments, environment and auxiliary vector are parsed as exec() pushed *)
(* them, for every choice of the first two.                                *)
ArgumentsArrive ==
    \A argv, envp \in Arguments :
        LET parsed == parse_stack(set_up_stack(argv, envp)) IN
        /\ parsed.argv = Append(argv, "NULL") /\ parsed.envp = envp
        /\ Range(parsed.auxv) = {"AT_EXECBASE", "AT_ENTRY", "AT_EXECFN", "AT_PAGESZ", "AT_BASE"}
        /\ early_base(parsed.auxv) = "AT_BASE"

(* The objects at a distance of n dependencies or less from o.             *)
Within(o, n) ==
    LET reached[k \in 0 .. n] ==
            IF k = 0 THEN {o} ELSE reached[k - 1] \cup UNION {Range(dependencies[p]) : p \in reached[k - 1]}
    IN  reached[n]
Reachable(o) == Within(o, Cardinality(Objects))
Distance(o, p) == CHOOSE n \in 0 .. Cardinality(Objects) : p \in Within(o, n) /\ (n > 0 => p \notin Within(o, n - 1))
Acyclic == \A o \in Objects : \A d \in Range(dependencies[o]) : o \notin Reachable(d)

(* When a program starts, each object it depends on, directly or not, has  *)
(* been loaded and relocated once, whatever the shape of the dependencies; *)
(* each symbol is bound to a nearest definition, and is only unbound if    *)
(* there is none; if there is no cycle, every library has been initialised *)
(* once, after all that it depends on, and the recursion ends; and the     *)
(* queue of resolve_symbol(), as long as the list, is never too short,     *)
(* though an object may enter it twice.  The program gets the arguments    *)
(* and the environment that exec() was given.                              *)
LinkedRight ==
    /\ queued <= Len(list)
    /\ Acyclic => pc # "overflow"
    /\ pc \in {"init", "main"} =>
          /\ IsInjective(list) /\ Range(list) = Reachable(Executable)
          /\ \A o \in Range(list) :
                /\ bases[o] = 1
                /\ LET near == Reachable(o) \cap defines IN
                   IF near = {} THEN binding[o] = None
                   ELSE binding[o] \in near /\ \A d \in near : Distance(o, binding[o]) <= Distance(o, d)
    /\ pc = "main" => ArgumentsArrive
    /\ pc = "main" /\ Acyclic =>
          /\ IsInjective(calls) /\ Range(calls) = Reachable(Executable) \ {Executable}
          /\ \A i \in DOMAIN calls : Reachable(calls[i]) \subseteq {calls[j] : j \in 1 .. i}
=============================================================================
