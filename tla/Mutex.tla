------------------------------- MODULE Mutex -------------------------------
(***************************************************************************)
(* One Locking::Mutex (locking/Mutex.cpp): a flag m_locked, and a spinlock *)
(* m_lock that guards it where no scheduler runs and inside try_lock().    *)
(*                                                                         *)
(* Threads lock it the way Mutex::lock() does once their core has a        *)
(* scheduler: test the flag, block() if it is set, then set it.  The hlt   *)
(* of block() ends with any interrupt of the core, and the thread goes on  *)
(* to set the flag.  Its state stays Blocked all the same: once a tick has *)
(* taken it off its core, pick_next() switches to it only when a           *)
(* try_lock() of the mutex succeeds, wherever the thread is by then.  Boot *)
(* code on a core without a scheduler uses the spinlock instead.           *)
(*                                                                         *)
(* Spinlock::try_lock() is modelled as written: it returns the old value   *)
(* of the flag, so that it succeeds on a spinlock that was set before.     *)
(***************************************************************************)
EXTENDS Integers

CONSTANTS
    MutexThreads,  \* threads of scheduled cores
    Boot,          \* boot contexts, each on a core of its own without a scheduler
    CoreOf,        \* the core whose queue each thread is in
    IdleThread     \* stands for the idle thread of a core

ASSUME MutexAssumption ==
    /\ MutexThreads \cap Boot = {} /\ DOMAIN CoreOf = MutexThreads
    /\ IdleThread \notin MutexThreads

Contexts == MutexThreads \cup Boot
Processors == {CoreOf[t] : t \in MutexThreads}

VARIABLES
    m_lock,    \* the flag of the spinlock
    m_locked,  \* the flag of the mutex
    mutex_pc,  \* where each context is
    waiting,   \* threads whose state is Blocked, with their lock set
    poll,      \* where the try_lock() of each core is
    running,   \* the thread each core executes
    lockers    \* contexts that have called lock() (history)

mutexVars == <<m_lock, m_locked, mutex_pc, waiting, poll, running, lockers>>

PollSteps == {"no", "set", "unlock"}

MutexTypeOK ==
    /\ m_lock \in BOOLEAN /\ m_locked \in BOOLEAN
    /\ mutex_pc \in [Contexts -> {"out", "blocked", "take", "in", "set", "release",
                                  "clear", "release_out"}]
    /\ \A t \in MutexThreads : mutex_pc[t] \in {"out", "blocked", "take", "in"}
    /\ poll \in [Processors -> [at : PollSteps, thread : MutexThreads]]
    /\ running \in [Processors -> MutexThreads \cup {IdleThread}]
    /\ waiting \subseteq lockers \cap MutexThreads
    /\ lockers \subseteq Contexts

MutexInit ==
    /\ m_lock = FALSE /\ m_locked = FALSE
    /\ mutex_pc = [x \in Contexts |-> "out"]
    /\ running \in {r \in [Processors -> MutexThreads] : \A c \in Processors : CoreOf[r[c]] = c}
    /\ poll = [c \in Processors |-> [at |-> "no", thread |-> running[c]]]
    /\ waiting = {} /\ lockers = {}

----------------------------------------------------------------------------
(* A thread executes when its core runs it and is not in the scheduler.    *)
Occupies(t) == running[CoreOf[t]] = t /\ poll[CoreOf[t]].at = "no"

Move(x, p) == mutex_pc' = [mutex_pc EXCEPT ![x] = p]

(* Mutex::lock() in a thread: test m_locked, block or go on ...            *)
mutex_lock(t) ==
    /\ Occupies(t) /\ mutex_pc[t] = "out"
    /\ Move(t, IF m_locked THEN "blocked" ELSE "take")
    /\ waiting' = IF m_locked THEN waiting \cup {t} ELSE waiting
    /\ lockers' = lockers \cup {t}
    /\ UNCHANGED <<m_lock, m_locked, poll, running>>

(* ... hlt ends with an interrupt that does not switch, and the state is   *)
(* left Blocked ...                                                        *)
hlt_ends(t) ==
    /\ Occupies(t) /\ mutex_pc[t] = "blocked"
    /\ Move(t, "take")
    /\ UNCHANGED <<m_lock, m_locked, waiting, poll, running, lockers>>

(* ... and the flag is set without looking at it again.                    *)
lock_set(t) ==
    /\ Occupies(t) /\ mutex_pc[t] = "take"
    /\ m_locked' = TRUE
    /\ Move(t, "in")
    /\ UNCHANGED <<m_lock, waiting, poll, running, lockers>>

(* Mutex::unlock() in a thread.                                            *)
mutex_unlock(t) ==
    /\ Occupies(t) /\ mutex_pc[t] = "in"
    /\ m_locked' = FALSE
    /\ Move(t, "out")
    /\ UNCHANGED <<m_lock, waiting, poll, running, lockers>>

----------------------------------------------------------------------------
(* A tick switches to another thread that is Ready.                        *)
switch(t) ==
    /\ poll[CoreOf[t]].at = "no" /\ running[CoreOf[t]] # t /\ t \notin waiting
    /\ running' = [running EXCEPT ![CoreOf[t]] = t]
    /\ UNCHANGED <<m_lock, m_locked, mutex_pc, waiting, poll, lockers>>

(* A tick finds no other thread that is Ready or can be unblocked; the     *)
(* current one goes on if it is Running and the only one.                  *)
idle(c) ==
    /\ poll[c].at = "no" /\ running[c] # IdleThread
    /\ LET here == {t \in MutexThreads : CoreOf[t] = c}
       IN  here \ waiting \subseteq {running[c]} /\ here # {running[c]} \ waiting
    /\ running' = [running EXCEPT ![c] = IdleThread]
    /\ UNCHANGED <<m_lock, m_locked, mutex_pc, waiting, poll, lockers>>

(* A tick reaches a Blocked thread, which may be the one it interrupts:    *)
(* Mutex::try_lock() calls try_lock() of the spinlock, which sets its flag *)
(* in either case ...                                                      *)
try_lock(t) ==
    /\ poll[CoreOf[t]].at = "no" /\ t \in waiting
    /\ m_lock' = TRUE
    /\ poll' = IF m_lock
               THEN [poll EXCEPT ![CoreOf[t]] = [at |-> "set", thread |-> t]] ELSE poll
    /\ UNCHANGED <<m_locked, mutex_pc, waiting, running, lockers>>

(* ... then, had it succeeded, set m_locked ...                            *)
try_lock_set(c) ==
    /\ poll[c].at = "set"
    /\ m_locked' = TRUE
    /\ poll' = [poll EXCEPT ![c].at = "unlock"]
    /\ UNCHANGED <<m_lock, mutex_pc, waiting, running, lockers>>

(* ... and unlock the spinlock; the tick switches to the thread, which is  *)
(* Running then.                                                           *)
try_lock_unlock(c) ==
    /\ poll[c].at = "unlock"
    /\ m_lock' = FALSE
    /\ poll' = [poll EXCEPT ![c].at = "no"]
    /\ waiting' = waiting \ {poll[c].thread}
    /\ running' = [running EXCEPT ![c] = poll[c].thread]
    /\ mutex_pc' = [mutex_pc EXCEPT ![poll[c].thread] = IF @ = "blocked" THEN "take" ELSE @]
    /\ UNCHANGED <<m_locked, lockers>>

----------------------------------------------------------------------------
(* A defect: the flag is cleared before m_locked is set.                   *)
boot_set_early(b) ==
    /\ mutex_pc[b] \in {"set", "clear"}
    /\ m_locked' = (mutex_pc[b] = "set") /\ m_lock' = FALSE
    /\ Move(b, IF mutex_pc[b] = "set" THEN "release" ELSE "release_out")
    /\ UNCHANGED <<waiting, poll, running, lockers>>

(* Mutex::lock() and unlock() before a core has a scheduler: take m_lock,  *)
(* set or clear m_locked without looking at it, release m_lock.            *)
boot_spin(b) ==
    /\ mutex_pc[b] \in {"out", "in"} /\ ~m_lock
    /\ m_lock' = TRUE
    /\ Move(b, IF mutex_pc[b] = "out" THEN "set" ELSE "clear")
    /\ lockers' = lockers \cup {b}
    /\ UNCHANGED <<m_locked, waiting, poll, running>>

boot_set(b) ==
    /\ mutex_pc[b] \in {"set", "clear"}
    /\ m_locked' = (mutex_pc[b] = "set")
    /\ Move(b, IF mutex_pc[b] = "set" THEN "release" ELSE "release_out")
    /\ UNCHANGED <<m_lock, waiting, poll, running, lockers>>

boot_release(b) ==
    /\ mutex_pc[b] \in {"release", "release_out"}
    /\ m_lock' = FALSE
    /\ Move(b, IF mutex_pc[b] = "release" THEN "in" ELSE "out")
    /\ UNCHANGED <<m_locked, waiting, poll, running, lockers>>

Visit(t) == switch(t) \/ try_lock(t)

Poll(c) == try_lock_set(c) \/ try_lock_unlock(c)

MutexNext ==
    \/ \E t \in MutexThreads :
          mutex_lock(t) \/ hlt_ends(t) \/ lock_set(t) \/ mutex_unlock(t) \/ Visit(t)
    \/ \E c \in Processors : Poll(c) \/ idle(c)
    \/ \E b \in Boot : boot_spin(b) \/ boot_set(b) \/ boot_release(b)

MutexSpec == MutexInit /\ [][MutexNext]_mutexVars

(* Every tick of a core looks at its threads and goes on to the end of     *)
(* try_lock().                                                             *)
Visits(c) == \E t \in MutexThreads : CoreOf[t] = c /\ Visit(t)
MutexFairSpec ==
    MutexSpec /\ \A c \in Processors : WF_mutexVars(Visits(c)) /\ WF_mutexVars(Poll(c))

----------------------------------------------------------------------------
(* assert(is_locked()) in Spinlock::unlock(): m_lock is set whenever a     *)
(* poll or a boot context is about to release it.                          *)
SpinlockHeld ==
    (\E c \in Processors : poll[c].at = "unlock") \/
    (\E b \in Boot : mutex_pc[b] \in {"release", "release_out"})
        => m_lock

(* The spinlock excludes: at most one boot context or poll is inside the   *)
(* section that m_lock guards.                                             *)
InSection(x) ==
    \/ x \in Boot /\ mutex_pc[x] \in {"set", "clear", "release", "release_out"}
    \/ x \in Processors /\ poll[x].at # "no"
Guarded == \A x, y \in Boot \cup Processors : InSection(x) /\ InSection(y) => x = y

(* The mutex was used by boot contexts only, or by threads of one core.    *)
Together ==
    \/ lockers \subseteq Boot
    \/ \E c \in Processors : lockers \subseteq {t \in MutexThreads : CoreOf[t] = c}

(* The assertion of unlock() holds for the spinlock under the mutex, and   *)
(* at most one context is inside the section that it guards, as long as    *)
(* the mutex is shared at boot only or by the threads of one core.  (For   *)
(* the threads of two cores both fail.)                                    *)
UnlockAsserts == MutexTypeOK /\ (Together => SpinlockHeld /\ Guarded)
=============================================================================
