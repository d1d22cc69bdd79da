----------------------------- MODULE MCThreads -----------------------------
(***************************************************************************)
(* Locks and the scheduler, in five situations: spinlocks on two cores     *)
(* with interrupts; a mutex that two threads of one core share; one at     *)
(* boot, when no core has a scheduler yet and four contexts spin; the      *)
(* scheduler of one core of two, with the logger and the threads of two    *)
(* processes; and those of two cores that fork for each other.  Two more   *)
(* specifications show what goes wrong: a mutex shared by two cores, and a *)
(* process of a single core that forks.                                    *)
(***************************************************************************)
EXTENDS Spinlock, Mutex, CoreScheduler, TLC

CONSTANTS t1, t2, t3, b0, b1, b2, b3

VARIABLE situation

allVars == <<vars, situation, mutexVars, schedulerVars>>

(* What reserve() makes room for: powers of two, from 4 on as in the code, *)
(* or from 1 on, so that vectors of few threads grow.                      *)
FromFour == [n \in 0 .. 4 |-> 4]
FromOne == [n \in 0 .. 4 |-> CHOOSE p \in {1, 2, 4} : p >= n /\ (p = 1 \/ p < 2 * n)]

Pinned == t1 :> "cpu0" @@ t2 :> "cpu0" @@ t3 :> "cpu1"

(* Two cores that fork for each other; one that has all the threads, while *)
(* the other stays where it is; and a single core with a process that      *)
(* forks.                                                                  *)
Split == (0 :> <<t1>>) @@ (1 :> <<t2>>)
Forks == t1 :> {"fork", "exit"} @@ t2 :> {"fork", "exit"} @@ t3 :> {"exit"}
Loaded == INSTANCE CoreScheduler
    WITH Placed <- (0 :> <<t2, t3, t1>> @@ 1 :> <<>>),
         Calls <- (t1 :> {"suspend", "block"} @@ t2 :> {"usleep", "exit"}
                   @@ t3 :> {"block", "exit"})
LoadedOnly == UNCHANGED <<spc[1], current[1]>>
Single == INSTANCE CoreScheduler
    WITH NumCores <- 1, Placed <- (0 :> <<t1, t2>>)

ASSUME Assumptions ==
    /\ SchedulerAssumption /\ Loaded!SchedulerAssumption /\ Single!SchedulerAssumption

ThreadsInit ==
    /\ situation \in {"spinlock", "one core", "boot", "loaded", "forking"}
    /\ Init /\ MutexInit /\ running["cpu0"] = t1
    /\ IF situation = "loaded" THEN Loaded!SchedulerInit ELSE SchedulerInit

SpinlockStep ==
    situation = "spinlock" /\ Next /\ UNCHANGED <<situation, mutexVars, schedulerVars>>
BootStep ==
    situation = "boot" /\ MutexNext /\ lockers' \subseteq Boot
    /\ UNCHANGED <<situation, vars, schedulerVars, running>>
OnOneCore(A) ==
    situation = "one core" /\ A /\ lockers' \subseteq {t1, t2}
    /\ UNCHANGED <<situation, vars, schedulerVars>>
Scheduling(s, A) == situation = s /\ A /\ UNCHANGED <<situation, vars, mutexVars>>

ThreadsNext ==
    \/ SpinlockStep \/ OnOneCore(MutexNext) \/ BootStep
    \/ Scheduling("loaded", Loaded!SchedulerNext /\ LoadedOnly)
    \/ Scheduling("forking", SchedulerNext)

(* The timer goes on ticking: the fairness of CoreScheduler and of Mutex.  *)
ThreadsSpec ==
    /\ ThreadsInit /\ [][ThreadsNext]_allVars
    /\ WF_allVars(Scheduling("loaded", Loaded!Watched(Loaded!Tick(0))))
    /\ WF_allVars(OnOneCore(Visits("cpu0"))) /\ WF_allVars(OnOneCore(Poll("cpu0")))

(* Two cores that share a mutex, and a process of one core that forks.     *)
TwoCoresSpec ==
    /\ situation = "two cores" /\ Init /\ SchedulerInit /\ MutexInit
    /\ [][MutexNext /\ lockers' \subseteq {t1, t2, t3} /\ UNCHANGED <<situation, vars, schedulerVars>>]_allVars
SingleSpec ==
    /\ situation = "single" /\ Init /\ Single!SchedulerInit /\ MutexInit
    /\ [][Scheduling("single", Single!SchedulerNext)]_allVars

----------------------------------------------------------------------------
(* Nobody waits for a thread that never comes: a queued Ready thread is    *)
(* made Running (or is terminated) even while others block, sleep, exit    *)
(* and are erased; and a core that idles because its threads are Blocked   *)
(* on a mutex lets one of them through, though the try_lock() of its polls *)
(* fails on a free spinlock.  (Which one is not said: of several threads   *)
(* one can be passed over for ever.)                                       *)
EveryThreadProceeds ==
    /\ (situation = "loaded") => Loaded!ReadyRuns
    /\ LET Idles == situation = "one core" /\ running["cpu0"] = IdleThread
       IN  Idles ~> ~Idles
=============================================================================
