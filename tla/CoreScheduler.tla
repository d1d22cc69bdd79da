--------------------------- MODULE CoreScheduler ---------------------------
(***************************************************************************)
(* The round-robin scheduler of processes/CoreScheduler.cpp and the        *)
(* placement of new threads by processes/GlobalScheduler.cpp.              *)
(*                                                                         *)
(* Every core owns a vector m_running_threads, an index into it and a      *)
(* current thread.  The timer interrupt runs tick(); the loop of           *)
(* pick_next() takes one step per iteration, since other cores and nested  *)
(* interrupt handlers change thread states while it runs, none of it under *)
(* a lock.  Threads keep executing while their state says otherwise: only  *)
(* a tick takes a thread off its core.                                     *)
(*                                                                         *)
(* kvector's push_back() and erase() take several steps, because fork()    *)
(* runs start_thread() on one core, appends to the vector of another, and  *)
(* can be preempted by a tick in between: push_back() computes the new     *)
(* size, replaces an array that is too small, writes the element and sets  *)
(* m_size; erase() moves the elements and sets m_size.                     *)
(*                                                                         *)
(* Whether try_lock() on the mutex of a Blocked thread succeeds is left    *)
(* open here; module Mutex models it.                                      *)
(***************************************************************************)
EXTENDS Integers, FiniteSets, Sequences

CONSTANTS
    NumCores,  \* processors are numbered 0 .. NumCores - 1, 0 is the BSP
    Threads,   \* thread_t objects
    Idle,      \* stands for the idle thread of a core
    None,      \* nullptr
    SizeMod,   \* size_t arithmetic is modulo SizeMod (2^32 on i686)
    GrowTo,    \* the capacity reserve() gives a vector that needs a number of
               \* elements (max(4, next_power_of_two(n)) in the code)
    Placed,    \* the queue of each core once boot and earlier forks are done
    Calls      \* the scheduler calls that the code of each thread makes

SchedulerAssumption ==
    /\ NumCores \in Nat \ {0}
    /\ IsFiniteSet(Threads) /\ Idle \notin Threads /\ None \notin Threads /\ Idle # None
    /\ SizeMod \in Nat /\ SizeMod > Cardinality(Threads) + 1
    /\ Placed \in [0 .. NumCores - 1 -> Seq(Threads)]
    /\ \A c, d \in DOMAIN Placed : \A i \in DOMAIN Placed[c], j \in DOMAIN Placed[d] :
          Placed[c][i] = Placed[d][j] => c = d /\ i = j
    /\ GrowTo \in [0 .. Cardinality(Threads) + 1 -> Nat]
    /\ Calls \in [Threads -> SUBSET {"suspend", "block", "usleep", "fork", "exit"}]

CoreIds == 0 .. NumCores - 1
Cap == Cardinality(Threads) + 1    \* bound: slots of one vector
Slots == 0 .. Cap - 1
Sizes == 0 .. SizeMod - 1

States == {"Running", "Ready", "Blocked", "Suspended", "Sleeping", "Terminated"}

VARIABLES
    arr,      \* m_array of m_running_threads of each core
    size,     \* its m_size
    capacity, \* its m_capacity
    index,    \* m_current_thread_index
    current,  \* m_current_thread
    start,    \* the local of pick_next()
    next,     \* next_thread of tick()
    spc,      \* where tick() is on each core
    state,    \* thread_t::state
    tpc,      \* what the code of each thread is doing
    alarm,    \* threads with a wake-up event in the queue of each core
    push,     \* the append a forking thread has under way
    freed,    \* how often kfree() was called on each kernel stack
    exclusive,\* history: nobody has changed a vector while another did
    intact    \* history: nobody has used a vector while its array was replaced

schedulerVars ==
    <<arr, size, capacity, index, current, start, next, spc, state, tpc, alarm, push, freed,
      exclusive, intact>>

Arrays == [Slots -> Threads \cup {None}]
Unwritten == [i \in Slots |-> None]
NoPush == [thread |-> None, core |-> 0, count |-> 0, copy |-> Unwritten]

(* Inside push_back(): about to call reserve(), with the old array freed   *)
(* and not yet replaced, about to write the element, about to set m_size.  *)
Appends == {"reserve", "replace", "fill", "size"}

Points == Appends \cup {"new", "run", "halt", "alarm", "sleep", "exit"}
PushRecords == [thread : Threads \cup {None}, core : CoreIds, count : 0 .. Cap, copy : Arrays]

SchedulerTypeOK ==
    /\ arr \in [CoreIds -> Arrays]
    /\ size \in [CoreIds -> 0 .. Cap] /\ capacity \in [CoreIds -> Nat]
    /\ index \in [CoreIds -> Sizes] /\ start \in [CoreIds -> Sizes]
    /\ current \in [CoreIds -> Threads \cup {Idle, None}]
    /\ next \in [CoreIds -> Threads \cup {Idle, None}]
    /\ spc \in [CoreIds -> {"run", "pick", "erase", "save", "ready", "switch"}]
    /\ state \in [Threads -> States]
    /\ tpc \in [Threads -> Points]
    /\ alarm \in [CoreIds -> SUBSET Threads]
    /\ push \in [Threads -> PushRecords]
    /\ freed \in [Threads -> Nat] /\ exclusive \in BOOLEAN /\ intact \in BOOLEAN

(* The threads in the vector of a core.                                    *)
Queue(c) == {arr[c][i] : i \in {j \in Slots : j < size[c]}} \ {None}

(* The placed threads are queued and no core has ticked yet.               *)
SchedulerInit ==
    /\ arr = [c \in CoreIds |-> [i \in Slots |->
                IF i < Len(Placed[c]) THEN Placed[c][i + 1] ELSE None]]
    /\ size = [c \in CoreIds |-> Len(Placed[c])]
    /\ capacity = [c \in CoreIds |-> IF Placed[c] = <<>> THEN 0 ELSE GrowTo[Len(Placed[c])]]
    /\ index = [c \in CoreIds |-> 0] /\ start = [c \in CoreIds |-> 0]
    /\ current = [c \in CoreIds |-> None] /\ next = [c \in CoreIds |-> None]
    /\ spc = [c \in CoreIds |-> "run"]
    /\ state = [t \in Threads |-> "Ready"]
    /\ tpc = [t \in Threads |-> IF \E c \in CoreIds : t \in Queue(c) THEN "run" ELSE "new"]
    /\ alarm = [c \in CoreIds |-> {}]
    /\ push = [t \in Threads |-> NoPush]
    /\ freed = [t \in Threads |-> 0] /\ exclusive = TRUE /\ intact = TRUE

----------------------------------------------------------------------------
(* The code of thread t can take a step: it is what core c executes.       *)
Executes(c, t) == current[c] = t /\ spc[c] = "run"

(* GlobalScheduler: the first core with the fewest threads.                *)
pick_best_core ==
    CHOOSE c \in CoreIds :
        \A e \in CoreIds : size[c] < size[e] \/ (size[c] = size[e] /\ c <= e)

(* fork() in thread f starts thread t.  start_thread() calls push_back(),  *)
(* which computes the new size and looks whether there is room ...         *)
start_thread(c, f, t) ==
    /\ Executes(c, f) /\ tpc[f] = "run" /\ "fork" \in Calls[f]
    /\ tpc[t] = "new" /\ \A g \in Threads : push[g].thread # t
    /\ LET b == pick_best_core
           n == size[b] + 1
       IN  /\ push' = [push EXCEPT ![f] =
                         [thread |-> t, core |-> b, count |-> n, copy |-> Unwritten]]
           /\ tpc' = [tpc EXCEPT ![f] = IF capacity[b] >= n THEN "fill" ELSE "reserve"]
    /\ UNCHANGED <<arr, size, capacity, index, current, start, next, spc, state, alarm, freed>>

(* ... reserve() copies the elements to a new array and frees the old one, *)
(* which pick_next() goes on using ...                                     *)
reserve(c, f) ==
    /\ Executes(c, f) /\ tpc[f] = "reserve"
    /\ LET b == push[f].core IN
       /\ capacity' = [capacity EXCEPT ![b] = GrowTo[push[f].count]]
       /\ push' = [push EXCEPT ![f].copy =
                     [i \in Slots |-> IF i < size[b] THEN arr[b][i] ELSE None]]
    /\ tpc' = [tpc EXCEPT ![f] = "replace"]
    /\ UNCHANGED <<arr, size, index, current, start, next, spc, state, alarm, freed>>

(* ... until m_array is the new one ...                                    *)
reserve_replace(c, f) ==
    /\ Executes(c, f) /\ tpc[f] = "replace"
    /\ arr' = [arr EXCEPT ![push[f].core] = push[f].copy]
    /\ tpc' = [tpc EXCEPT ![f] = "fill"]
    /\ UNCHANGED <<size, capacity, index, current, start, next, spc, state, alarm, push, freed>>

(* resize(): the value goes to every slot from m_size to the new size.     *)
Fill(b, n, t) == [i \in Slots |-> IF size[b] <= i /\ i < n THEN t ELSE arr[b][i]]

(* A defect: the forking thread is queued again instead of the new one.    *)
start_thread_fill_parent(c, f) ==
    /\ Executes(c, f) /\ tpc[f] = "fill"
    /\ arr' = [arr EXCEPT ![push[f].core] = Fill(push[f].core, push[f].count, f)]
    /\ tpc' = [tpc EXCEPT ![f] = "size"]
    /\ UNCHANGED <<size, capacity, index, current, start, next, spc, state, alarm, push, freed>>

(* ... the element is written ...                                          *)
start_thread_fill(c, f) ==
    /\ Executes(c, f) /\ tpc[f] = "fill"
    /\ LET p == push[f] IN arr' = [arr EXCEPT ![p.core] = Fill(p.core, p.count, p.thread)]
    /\ tpc' = [tpc EXCEPT ![f] = "size"]
    /\ UNCHANGED <<size, capacity, index, current, start, next, spc, state, alarm, push, freed>>

(* ... and m_size becomes the size computed at first.                      *)
start_thread_size(c, f) ==
    /\ Executes(c, f) /\ tpc[f] = "size"
    /\ size' = [size EXCEPT ![push[f].core] = push[f].count]
    /\ tpc' = [tpc EXCEPT ![f] = "run", ![push[f].thread] = "run"]
    /\ push' = [push EXCEPT ![f] = NoPush]
    /\ UNCHANGED <<arr, capacity, index, current, start, next, spc, state, alarm, freed>>

----------------------------------------------------------------------------
(* Where a halted thread continues once its core takes any interrupt.      *)
AfterHalt(t) == IF tpc[t] = "halt" THEN "run" ELSE tpc[t]

Unhalt(c) ==
    tpc' = IF current[c] \in Threads
           THEN [tpc EXCEPT ![current[c]] = AfterHalt(current[c])]
           ELSE tpc

(* tick(): the timer interrupt, up to the loop of pick_next().             *)
tick(c) ==
    /\ spc[c] = "run"
    /\ Unhalt(c)
    /\ IF size[c] = 0
       THEN /\ next' = [next EXCEPT ![c] = Idle]
            /\ spc' = [spc EXCEPT ![c] = "save"]
            /\ UNCHANGED start
       ELSE /\ start' = [start EXCEPT ![c] = index[c]]
            /\ spc' = [spc EXCEPT ![c] = "pick"]
            /\ UNCHANGED next
    /\ UNCHANGED <<arr, size, capacity, index, current, state, alarm, push, freed>>

(* The loop condition of pick_next(), with the values it reads.            *)
Loop(c, i, s, n) ==
    IF i # s /\ n > 1
    THEN spc' = [spc EXCEPT ![c] = "pick"] /\ UNCHANGED next
    ELSE spc' = [spc EXCEPT ![c] = "save"] /\ next' = [next EXCEPT ![c] = Idle]

Pick(c, t) == spc' = [spc EXCEPT ![c] = "save"] /\ next' = [next EXCEPT ![c] = t]

(* m_current_thread_index moves on round the vector, and back after an     *)
(* erasure, where it can wrap below zero.                                  *)
Advance_stuck(c) == index[c] % size[c]
Advance(c) == ((index[c] + 1) % SizeMod) % size[c]
StepBack(c) == (index[c] - 1 + SizeMod) % SizeMod

(* A terminated thread is freed unless the core still runs on its stack.   *)
Erasable_current(c, t) == state[t] = "Terminated"
Erasable(c, t) == state[t] = "Terminated" /\ t # current[c]

(* One iteration of the loop of pick_next(): advance, look at one thread.  *)
(* (What it makes of a slot that was never written is not modelled.)       *)
pick_next(c) ==
    /\ spc[c] = "pick" /\ arr[c][Advance(c)] # None
    /\ LET i == Advance(c)
           t == arr[c][i]
       IN  /\ index' = [index EXCEPT ![c] = i]
           /\ \/ /\ state[t] = "Ready"
                 /\ Pick(c, t) /\ UNCHANGED freed
              \/ /\ state[t] = "Blocked"        \* next->lock->try_lock()
                 /\ Pick(c, t) \/ Loop(c, i, start[c], size[c])
                 /\ UNCHANGED freed
              \/ /\ Erasable(c, t)
                 /\ freed' = [freed EXCEPT ![t] = @ + 1]
                 /\ spc' = [spc EXCEPT ![c] = "erase"] /\ UNCHANGED next
              \/ /\ state[t] = "Terminated" /\ ~Erasable(c, t)
                 /\ Loop(c, i, start[c], size[c]) /\ UNCHANGED freed
              \/ /\ state[t] = "Running"
                 /\ IF size[c] = 1 THEN Pick(c, t) ELSE Loop(c, i, start[c], size[c])
                 /\ UNCHANGED freed
              \/ /\ state[t] \in {"Suspended", "Sleeping"}
                 /\ Loop(c, i, start[c], size[c]) /\ UNCHANGED freed
           /\ arr' = IF Erasable(c, t)
                     THEN [arr EXCEPT ![c] = [j \in Slots |->
                            IF i <= j /\ j + 1 < size[c] THEN @[j + 1] ELSE @[j]]]
                     ELSE arr
    /\ UNCHANGED <<size, capacity, current, start, state, tpc, alarm, push>>

(* The rest of erase() and of the Terminated case: m_size--, index--.      *)
pick_next_erased(c) ==
    /\ spc[c] = "erase"
    /\ LET n == size[c] - 1
           i == StepBack(c)
           s == IF index[c] = start[c] THEN (start[c] + 1) % n ELSE start[c]
       IN  /\ size' = [size EXCEPT ![c] = n]
           /\ IF n = 0
              THEN /\ Pick(c, Idle)
                   /\ UNCHANGED <<index, start>>
              ELSE /\ index' = [index EXCEPT ![c] = i]
                   /\ start' = [start EXCEPT ![c] = s]
                   /\ Loop(c, i, s, n)
    /\ UNCHANGED <<arr, capacity, current, state, tpc, alarm, push, freed>>

(* tick(): is the current thread still Running ...                         *)
tick_save(c) ==
    /\ spc[c] = "save"
    /\ spc' = [spc EXCEPT ![c] = IF current[c] \in Threads /\ state[current[c]] = "Running"
                                 THEN "ready" ELSE "switch"]
    /\ start' = [start EXCEPT ![c] = 0]
    /\ UNCHANGED <<arr, size, capacity, index, current, next, state, tpc, alarm, push, freed>>

(* ... then it becomes Ready, whatever has become of it meanwhile ...      *)
tick_ready(c) ==
    /\ spc[c] = "ready"
    /\ state' = [state EXCEPT ![current[c]] = "Ready"]
    /\ spc' = [spc EXCEPT ![c] = "switch"]
    /\ UNCHANGED <<arr, size, capacity, index, current, start, next, tpc, alarm, push, freed>>

(* ... the next one Running and current; then the deferred calls run, the  *)
(* wake-ups F whose time has come among them.                              *)
tick_switch(c, F) ==
    /\ spc[c] = "switch"
    /\ F \subseteq alarm[c]
    /\ current' = [current EXCEPT ![c] = next[c]]
    /\ state' = [t \in Threads |->
                   IF t = next[c] THEN "Running" ELSE IF t \in F THEN "Ready" ELSE state[t]]
    /\ alarm' = [alarm EXCEPT ![c] = @ \ F]
    /\ spc' = [spc EXCEPT ![c] = "run"] /\ next' = [next EXCEPT ![c] = None]
    /\ UNCHANGED <<arr, size, capacity, index, start, tpc, push, freed>>

----------------------------------------------------------------------------
(* A device or inter-processor interrupt that does not switch threads.     *)
device_interrupt(c) ==
    /\ spc[c] = "run" /\ current[c] \in Threads /\ tpc[current[c]] = "halt"
    /\ Unhalt(c)
    /\ UNCHANGED <<arr, size, capacity, index, current, start, next, spc, state, alarm, push, freed>>

(* suspend(): the logger, or a thread waiting for the disk, stops ...      *)
suspend(c, t) ==
    /\ Executes(c, t) /\ tpc[t] = "run" /\ "suspend" \in Calls[t]
    /\ state' = [state EXCEPT ![t] = "Suspended"]
    /\ tpc' = [tpc EXCEPT ![t] = "halt"]
    /\ UNCHANGED <<arr, size, capacity, index, current, start, next, spc, alarm, push, freed>>

(* ... and whoever logs, or the disk interrupt, on any core, resumes it.   *)
resume(t) ==
    /\ tpc[t] # "new" /\ "suspend" \in Calls[t] /\ state[t] # "Ready"
    /\ state' = [state EXCEPT ![t] = "Ready"]
    /\ UNCHANGED <<arr, size, capacity, index, current, start, next, spc, tpc, alarm, push, freed>>

(* block(): Mutex::lock() found the mutex locked.                          *)
block(c, t) ==
    /\ Executes(c, t) /\ tpc[t] = "run" /\ "block" \in Calls[t]
    /\ state' = [state EXCEPT ![t] = "Blocked"]
    /\ tpc' = [tpc EXCEPT ![t] = "halt"]
    /\ UNCHANGED <<arr, size, capacity, index, current, start, next, spc, alarm, push, freed>>

(* EventManager::usleep(): queue the wake-up on this core ...              *)
usleep(c, t) ==
    /\ Executes(c, t) /\ tpc[t] = "run" /\ "usleep" \in Calls[t]
    /\ alarm' = [alarm EXCEPT ![c] = @ \cup {t}]
    /\ tpc' = [tpc EXCEPT ![t] = "alarm"]
    /\ UNCHANGED <<arr, size, capacity, index, current, start, next, spc, state, push, freed>>

(* ... then set the state ...                                              *)
usleep_state(c, t) ==
    /\ Executes(c, t) /\ tpc[t] = "alarm"
    /\ state' = [state EXCEPT ![t] = "Sleeping"]
    /\ tpc' = [tpc EXCEPT ![t] = "sleep"]
    /\ UNCHANGED <<arr, size, capacity, index, current, start, next, spc, alarm, push, freed>>

(* ... and poll it.                                                        *)
usleep_return(c, t) ==
    /\ Executes(c, t) /\ tpc[t] = "sleep" /\ state[t] # "Sleeping"
    /\ tpc' = [tpc EXCEPT ![t] = "run"]
    /\ UNCHANGED <<arr, size, capacity, index, current, start, next, spc, state, alarm, push, freed>>

(* terminate(), and the last lines of Process::exit(): on behalf of the    *)
(* thread itself, of another core or of an interrupt handler.              *)
terminate(t) ==
    /\ tpc[t] # "new" /\ "exit" \in Calls[t] /\ state[t] # "Terminated"
    /\ state' = [state EXCEPT ![t] = "Terminated"]
    /\ UNCHANGED <<arr, size, capacity, index, current, start, next, spc, tpc, alarm, push, freed>>

(* terminate_current() and syscall$exit: terminate and never return.       *)
terminate_current(c, t) ==
    /\ Executes(c, t) /\ tpc[t] = "run" /\ "exit" \in Calls[t]
    /\ state' = [state EXCEPT ![t] = "Terminated"]
    /\ tpc' = [tpc EXCEPT ![t] = "exit"]
    /\ UNCHANGED <<arr, size, capacity, index, current, start, next, spc, alarm, push, freed>>

Tick(c) ==
    \/ tick(c) \/ pick_next(c) \/ pick_next_erased(c) \/ tick_save(c) \/ tick_ready(c)
    \/ \E F \in SUBSET Threads : tick_switch(c, F)

Thread(c, t) ==
    \/ suspend(c, t) \/ block(c, t) \/ terminate_current(c, t)
    \/ usleep(c, t) \/ usleep_state(c, t) \/ usleep_return(c, t)
    \/ \E n \in Threads : start_thread(c, t, n)
    \/ reserve(c, t) \/ reserve_replace(c, t)
    \/ start_thread_fill(c, t) \/ start_thread_size(c, t)

(* The appends to the vector of core c, and those that are under way: the  *)
(* threads that execute them were not freed.                               *)
Appenders(c) == {f \in Threads : push[f].thread # None /\ push[f].core = c}
Appending(c) == {f \in Appenders(c) : freed[f] = 0}

(* At most one append or erasure of each vector is under way.              *)
OneAtATime ==
    \A c \in CoreIds : \A f \in Appending(c) : spc[c] # "erase" /\ Appending(c) = {f}

(* While an append replaces the array of a vector, there is no other one   *)
(* and no erasure, and pick_next() does not read the array that was freed. *)
GrowsAlone ==
    \A c \in CoreIds : \A f \in Appenders(c) :
        /\ tpc[f] \in {"reserve", "replace"} => spc[c] # "erase" /\ Appenders(c) = {f}
        /\ tpc[f] = "replace" => spc[c] # "pick"

SchedulerStep ==
    \/ \E c \in CoreIds : Tick(c) \/ device_interrupt(c)
    \/ \E c \in CoreIds, t \in Threads : Thread(c, t)
    \/ \E t \in Threads : resume(t) \/ terminate(t)

Watched(A) ==
    A /\ exclusive' = (exclusive /\ OneAtATime') /\ intact' = (intact /\ GrowsAlone')

SchedulerNext == Watched(SchedulerStep)

SchedulerSpec == SchedulerInit /\ [][SchedulerNext]_schedulerVars

(* The local timer of every core keeps interrupting it and tick() runs to  *)
(* its end.                                                                *)
SchedulerFairSpec == SchedulerSpec /\ \A c \in CoreIds : WF_schedulerVars(Watched(Tick(c)))

----------------------------------------------------------------------------
(* Every slot that pick_next() can look at holds a thread, however appends *)
(* from other cores and erasures interleave.                               *)
SlotsFilled == \A c \in CoreIds, i \in Slots : i < size[c] => arr[c][i] # None

(* A core only ever switches between the threads of its own queue, so no   *)
(* two cores execute the same thread.                                      *)
OneCorePerThread ==
    \A c, d \in CoreIds : current[c] \in Threads /\ current[c] = current[d] => c = d

(* However appends from other cores, erasures and wrapping indices         *)
(* interleave, pick_next() looks at threads only, and no two cores execute *)
(* the same one, as long as no vector is used while reserve() replaces its *)
(* array.  (Nothing keeps others from using it.)                           *)
QueuesSound == SchedulerTypeOK /\ (intact => SlotsFilled /\ OneCorePerThread)

(* A kernel stack goes back to the heap once, and then no core executes on *)
(* it, is about to switch to it or has its thread queued: pick_next()      *)
(* frees a terminated thread only when it has moved off its stack.         *)
NoFreedStackInUse ==
    \A t \in Threads : freed[t] > 0 =>
        /\ freed[t] = 1
        /\ \A c \in CoreIds : t # current[c] /\ t # next[c]
        /\ \A c \in CoreIds : t \in Queue(c) => spc[c] = "erase"

(* No freed stack is used while the changes of each vector exclude each    *)
(* other, forks from other cores and the growth of a vector included.      *)
(* (Nothing makes them do so.)                                             *)
StackFreedUnused == exclusive /\ intact => NoFreedStackInUse

(* assert(id != 0) of BitmapHeap::free(): a stack is freed once.           *)
FreedOnce == \A t \in Threads : freed[t] <= 1

(* Round robin starves nobody: a queued Ready thread is made Running (or   *)
(* is terminated) even while others block, sleep, exit and are erased.     *)
ReadyRuns ==
    \A t \in Threads :
        (state[t] = "Ready" /\ \E c \in CoreIds : t \in Queue(c)) ~> state[t] # "Ready"
=============================================================================
