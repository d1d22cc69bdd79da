---------------------------- MODULE MCInterrupts ----------------------------
(***************************************************************************)
(* What interrupts a core, in five situations: broadcasts between three    *)
(* cores; a panic on them, during one broadcast; the queue of one core,    *)
(* pointer by pointer, with two writers; the timer of the bootstrap        *)
(* processor, whose intervals exceed the counter; and the timer of another *)
(* core.                                                                   *)
(***************************************************************************)
EXTENDS SmpMessages, SRMWQueue, TLC

CONSTANTS t1, t2, t3, m2

VARIABLES situation,
          m_scheduled_events, timer, raised, place, elapsed, next_interval,
          m_remaining_time_to_tick, m_deferred_calls, m_scheduler_initialized, threaded,
          m_cursor_tick_scheduled, m_cursor_on

timerVars == <<m_scheduled_events, timer, raised, place, elapsed, next_interval,
               m_remaining_time_to_tick, m_deferred_calls, m_scheduler_initialized, threaded,
               m_cursor_tick_scheduled, m_cursor_on>>
allVars == <<vars, queueVars, situation, timerVars>>

OnTwoCores == (t1 :> 0) @@ (t2 :> 1) @@ (t3 :> 1)

BspTimer == INSTANCE EventManager
    WITH SMALLEST_INTERVAL <- 5, CursorDelay <- 16, Quantum <- 2, MaxInterval <- 10, Wrap <- 32,
         Bsp <- TRUE, MaxEvents <- 3, pending <- raised, at <- place
ApTimer == INSTANCE EventManager
    WITH SMALLEST_INTERVAL <- 7, CursorDelay <- 33, Quantum <- 2, MaxInterval <- 40, Wrap <- 128,
         Bsp <- FALSE, MaxEvents <- 3, pending <- raised, at <- place

ASSUME Assumptions ==
    QueueAssumption /\ BspTimer!EventAssumption /\ ApTimer!EventAssumption

InterruptsInit ==
    /\ situation \in {"broadcast", "panic", "queue", "bsp", "ap"}
    /\ Init /\ QueueInit
    /\ IF situation = "ap" THEN ApTimer!Init ELSE BspTimer!Init

In(s, A) == situation = s /\ A /\ UNCHANGED situation
ForCores(s, A) == In(s, A) /\ UNCHANGED <<queueVars, timerVars>>
ForMessages(A) == ForCores("broadcast", A) \/ ForCores("panic", A)
ForQueue(A) == In("queue", A) /\ UNCHANGED <<vars, timerVars>>
ForTimer(s, A) == In(s, A) /\ UNCHANGED <<vars, queueVars>>

(* Nobody panics; or t1 and t2 may, and one message is broadcast.          *)
Calm == ~s_is_panicking /\ \A t \in Threads : at[t] # "set"
FewMessages == m2 \in unsent /\ at[t3] = "idle"

BroadcastStep == ForCores("broadcast", Next /\ Calm')
PanicStep == ForCores("panic", Next /\ FewMessages')
QueueStep == ForQueue(QueueNext)
BspStep == ForTimer("bsp", BspTimer!Next)
ApStep == ForTimer("ap", ApTimer!Next)

(* The fairness of the three modules.                                      *)
CoresFairness ==
    /\ \A c \in Cores : WF_allVars(ForMessages(Core(c)))
    /\ \A t \in Threads : SF_allVars(ForMessages(Broadcast(t))) /\ WF_allVars(ForMessages(Dying(t)))

QueueFairness ==
    /\ \A w \in Writers : WF_allVars(ForQueue(Writer(w) /\ pc[w] # "idle"))
    /\ \A r \in Readers : WF_allVars(ForQueue(Reader(r)))

TimerFairness ==
    /\ WF_allVars(ForTimer("ap", ApTimer!initialize))
    /\ WF_allVars(ForTimer("ap", ApTimer!Timer))

InterruptsSpec ==
    /\ InterruptsInit
    /\ [][BroadcastStep \/ PanicStep \/ QueueStep \/ BspStep \/ ApStep]_allVars
    /\ CoresFairness /\ QueueFairness /\ TimerFairness

----------------------------------------------------------------------------
(* The type invariants of the three modules.                               *)
TypesOK ==
    /\ TypeOK /\ QueueTypeOK
    /\ situation = "bsp" => BspTimer!TypeOK
    /\ situation = "ap" => ApTimer!TypeOK

(* Once its scheduler is up a core always has a tick to come: the one-shot *)
(* timer is running, or its interrupt pending, or its handler will start   *)
(* it; a core that lost it would run one thread for ever.  And no delay    *)
(* falls below zero, where the unsigned number becomes a delay of          *)
(* centuries.  (On the bootstrap processor one does.)                      *)
TickAlwaysComes ==
    /\ TypesOK
    /\ situation = "bsp" => BspTimer!TickToCome
    /\ situation = "ap" => ApTimer!TickToCome /\ ApTimer!DelaysShrink

(* Every message that is broadcast reaches every other core; and a panic   *)
(* stops all cores, also when two cores panic at the same time.            *)
EveryCoreHandlesAll ==
    /\ \A m \in Messages, c \in Cores :
         (situation = "broadcast" /\ \E t \in Threads : Home[t] # c /\ sending[t] = m)
             ~> (m \in handled[c])
    /\ s_is_panicking ~> (halted = Cores)

(* Every event in the queue of a timer is taken from it.                   *)
EveryEventFires == (situation = "ap") => ApTimer!EventsFire
=============================================================================
