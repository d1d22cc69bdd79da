------------------------------ MODULE Spinlock ------------------------------
(***************************************************************************)
(* The spinlock of arch/i686/spinlock.cpp and the critical sections of     *)
(* CPU::Processor it is built on.                                          *)
(*                                                                         *)
(* A core runs a stack of contexts: level 0 is the thread, level n > 0 the *)
(* n-th nested interrupt handler.  Only the top context executes.  Every   *)
(* context may take spinlocks (in the order of their numbers: that callers *)
(* nest them in one order is assumed), enter critical sections and be      *)
(* interrupted whenever the interrupt flag IF of its core is set.          *)
(*                                                                         *)
(* enter_critical() starts with cli, so that it is one step; the later     *)
(* test_and_set, clear and leave_critical() of lock() and unlock() are     *)
(* steps of their own, since other cores run between them.                 *)
(***************************************************************************)
EXTENDS Integers, FiniteSets

CONSTANTS
    Cores,       \* the processors
    NumLocks,    \* spinlocks are numbered 1 .. NumLocks
    MaxNest,     \* bound: nested interrupts of one core
    MaxCritical  \* bound: explicit enter_critical() calls of one context

ASSUME SpinlockAssumption ==
    NumLocks \in Nat /\ MaxNest \in Nat /\ MaxCritical \in Nat

VARIABLES
    flag,         \* m_lock of each spinlock
    in_critical,  \* m_in_critical of each core
    int_enabled,  \* m_interrupts_enabled of each core
    iflag,        \* IF, the interrupt flag of each core
    top,          \* level of the context a core is executing
    pc,           \* where each context of each core is
    want,         \* the lock a context is acquiring
    held,         \* the locks a context owns
    explicit      \* its explicit enter_critical() calls not yet left

vars == <<flag, in_critical, int_enabled, iflag, top, pc, want, held, explicit>>

Locks == 1 .. NumLocks
Levels == 0 .. MaxNest
PCs == {"run", "tas", "spin", "leave"}

TypeOK ==
    /\ flag \in [Locks -> BOOLEAN]
    /\ in_critical \in [Cores -> Nat]
    /\ int_enabled \in [Cores -> BOOLEAN]
    /\ iflag \in [Cores -> BOOLEAN]
    /\ top \in [Cores -> Levels]
    /\ pc \in [Cores -> [Levels -> PCs]]
    /\ want \in [Cores -> [Levels -> Locks \cup {0}]]
    /\ held \in [Cores -> [Levels -> SUBSET Locks]]
    /\ explicit \in [Cores -> [Levels -> 0 .. MaxCritical]]

Init ==
    /\ flag = [l \in Locks |-> FALSE]
    /\ in_critical = [c \in Cores |-> 0]
    /\ int_enabled = [c \in Cores |-> FALSE]
    /\ iflag = [c \in Cores |-> FALSE]
    /\ top = [c \in Cores |-> 0]
    /\ pc = [c \in Cores |-> [d \in Levels |-> "run"]]
    /\ want = [c \in Cores |-> [d \in Levels |-> 0]]
    /\ held = [c \in Cores |-> [d \in Levels |-> {}]]
    /\ explicit = [c \in Cores |-> [d \in Levels |-> 0]]

At(c, p) == pc[c][top[c]] = p
Goto(c, p) == pc' = [pc EXCEPT ![c][top[c]] = p]

----------------------------------------------------------------------------
(* Processor::enable_interrupts(), called once a core has its handlers.    *)
enable_interrupts(c) ==
    /\ At(c, "run") /\ ~int_enabled[c]
    /\ int_enabled' = [int_enabled EXCEPT ![c] = TRUE]
    /\ iflag' = [iflag EXCEPT ![c] = iflag[c] \/ in_critical[c] = 0]
    /\ UNCHANGED <<flag, in_critical, top, pc, want, held, explicit>>

(* A defect: the section is counted but interrupts stay on.                *)
EnterCritical_no_cli(c) ==
    /\ UNCHANGED iflag
    /\ in_critical' = [in_critical EXCEPT ![c] = @ + 1]

(* The state change of Processor::enter_critical(): cli, then count.       *)
EnterCritical(c) ==
    /\ iflag' = [iflag EXCEPT ![c] = FALSE]
    /\ in_critical' = [in_critical EXCEPT ![c] = @ + 1]

(* The state change of Processor::leave_critical(): count down, and sti    *)
(* when it was the outermost section of a core that runs with interrupts.  *)
LeaveCritical(c) ==
    /\ in_critical' = [in_critical EXCEPT ![c] = @ - 1]
    /\ iflag' = [iflag EXCEPT ![c] = @ \/ (int_enabled[c] /\ in_critical[c] = 1)]

(* An explicit critical section of a context.                              *)
enter_critical(c) ==
    /\ At(c, "run") /\ explicit[c][top[c]] < MaxCritical
    /\ EnterCritical(c)
    /\ explicit' = [explicit EXCEPT ![c][top[c]] = @ + 1]
    /\ UNCHANGED <<flag, int_enabled, top, pc, want, held>>

leave_critical(c) ==
    /\ At(c, "run") /\ explicit[c][top[c]] > 0
    /\ LeaveCritical(c)
    /\ explicit' = [explicit EXCEPT ![c][top[c]] = @ - 1]
    /\ UNCHANGED <<flag, int_enabled, top, pc, want, held>>

----------------------------------------------------------------------------
(* Spinlock::lock(): enter the critical section ...                        *)
lock(c, l) ==
    /\ At(c, "run") /\ \A k \in held[c][top[c]] : k < l
    /\ EnterCritical(c)
    /\ want' = [want EXCEPT ![c][top[c]] = l]
    /\ Goto(c, "tas")
    /\ UNCHANGED <<flag, int_enabled, top, held, explicit>>

(* A defect: the value that test_and_set returns is ignored.               *)
test_and_set_ignored(c) ==
    /\ At(c, "tas")
    /\ flag' = [flag EXCEPT ![want[c][top[c]]] = TRUE]
    /\ Goto(c, "run")
    /\ want' = [want EXCEPT ![c][top[c]] = 0]
    /\ held' = [held EXCEPT ![c][top[c]] = @ \cup {want[c][top[c]]}]
    /\ UNCHANGED <<in_critical, int_enabled, iflag, top, explicit>>

(* ... test_and_set: take the flag or start polling it ...                 *)
test_and_set(c) ==
    /\ At(c, "tas")
    /\ LET l == want[c][top[c]] IN
       /\ flag' = [flag EXCEPT ![l] = TRUE]
       /\ IF flag[l]
          THEN Goto(c, "spin") /\ UNCHANGED <<want, held>>
          ELSE /\ Goto(c, "run")
               /\ want' = [want EXCEPT ![c][top[c]] = 0]
               /\ held' = [held EXCEPT ![c][top[c]] = @ \cup {l}]
    /\ UNCHANGED <<in_critical, int_enabled, iflag, top, explicit>>

(* ... and leave the polling loop once the flag was seen clear.            *)
spin(c) ==
    /\ At(c, "spin") /\ ~flag[want[c][top[c]]]
    /\ Goto(c, "tas")
    /\ UNCHANGED <<flag, in_critical, int_enabled, iflag, top, want, held, explicit>>

(* Spinlock::unlock(): clear the flag ...                                  *)
unlock(c, l) ==
    /\ At(c, "run") /\ l \in held[c][top[c]]
    /\ flag' = [flag EXCEPT ![l] = FALSE]
    /\ held' = [held EXCEPT ![c][top[c]] = @ \ {l}]
    /\ Goto(c, "leave")
    /\ UNCHANGED <<in_critical, int_enabled, iflag, top, want, explicit>>

(* A defect: unlock() does not leave the critical section.                 *)
unlock_leave_missing(c) ==
    /\ At(c, "leave")
    /\ Goto(c, "run")
    /\ UNCHANGED <<flag, in_critical, int_enabled, iflag, top, want, held, explicit>>

(* ... then leave the critical section.                                    *)
unlock_leave(c) ==
    /\ At(c, "leave")
    /\ LeaveCritical(c)
    /\ Goto(c, "run")
    /\ UNCHANGED <<flag, int_enabled, top, want, held, explicit>>

----------------------------------------------------------------------------
(* The processor takes an interrupt: the gate clears IF.                   *)
interrupt(c) ==
    /\ iflag[c] /\ top[c] < MaxNest
    /\ iflag' = [iflag EXCEPT ![c] = FALSE]
    /\ top' = [top EXCEPT ![c] = @ + 1]
    /\ UNCHANGED <<flag, in_critical, int_enabled, pc, want, held, explicit>>

(* A handler that gave back what it took returns: cli, eoi, iret.          *)
iret(c) ==
    /\ top[c] > 0 /\ At(c, "run")
    /\ held[c][top[c]] = {} /\ explicit[c][top[c]] = 0
    /\ iflag' = [iflag EXCEPT ![c] = TRUE]
    /\ top' = [top EXCEPT ![c] = @ - 1]
    /\ UNCHANGED <<flag, in_critical, int_enabled, pc, want, held, explicit>>

Step(c) ==
    \/ enable_interrupts(c)
    \/ enter_critical(c) \/ leave_critical(c)
    \/ test_and_set(c) \/ spin(c) \/ unlock_leave(c)
    \/ interrupt(c) \/ iret(c)
    \/ \E l \in Locks : lock(c, l) \/ unlock(c, l)

Next == \E c \in Cores : Step(c)

Spec == Init /\ [][Next]_vars

----------------------------------------------------------------------------
(* What a context has entered and not left: one critical section for each  *)
(* lock it owns, is acquiring or has just cleared, and the explicit ones.  *)
Pending(c, d) ==
    Cardinality(held[c][d]) + explicit[c][d] + (IF pc[c][d] = "run" THEN 0 ELSE 1)

Quiet(c, d) == pc[c][d] = "run" /\ held[c][d] = {} /\ explicit[c][d] = 0

(* A spinlock has at most one owner over all cores and all nested          *)
(* contexts, and the assert(is_locked()) of Spinlock::unlock() never       *)
(* fails: the flag of an owned lock stays set until its owner clears it.   *)
MutualExclusion ==
    \A c1, c2 \in Cores : \A d1, d2 \in Levels :
        \A l \in held[c1][d1] :
            flag[l] /\ (l \in held[c2][d2] => c1 = c2 /\ d1 = d2)

(* An interrupt handler never runs on top of a context of its core that    *)
(* owns a spinlock, is acquiring one or is in a critical section, and no   *)
(* core polls a lock that one of its own contexts owns: it would poll      *)
(* forever, for the owner cannot run again.                                *)
NoSelfDeadlock ==
    \A c \in Cores : \A d, e \in Levels :
        /\ d < top[c] => Quiet(c, d)
        /\ pc[c][d] \in {"tas", "spin"} => want[c][d] \notin held[c][e]

(* m_in_critical counts exactly the sections the running context is in (so *)
(* the assert of leave_critical() holds and a core that left everything    *)
(* takes interrupts again), and interrupts are off while it is not zero.   *)
CriticalBalance ==
    TypeOK /\ \A c \in Cores :
        /\ in_critical[c] = Pending(c, top[c])
        /\ iflag[c] => in_critical[c] = 0
        /\ int_enabled[c] /\ Quiet(c, 0) /\ top[c] = 0 => iflag[c]
=============================================================================
