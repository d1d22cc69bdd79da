---------------------------- MODULE EventManager ----------------------------
(***************************************************************************)
(* The timer events of one core: the queue of time/EventManager.cpp, the   *)
(* one-shot local APIC timer that drives it (APICTimer of                  *)
(* interrupts/LAPIC.cpp), and the two users it has on a core, which are    *)
(* the first tick of the scheduler (CoreScheduler::initialize()) and the   *)
(* blinking cursor (tty/FramebufferConsole.cpp).                           *)
(*                                                                         *)
(* The queue is a list of delays, each counted from the event before it.   *)
(* Its users run in a critical section, and nothing interrupts the timer's *)
(* handler that would use the queue.  Delays are unsigned numbers of      *)
(* nanoseconds that wrap around.                                           *)
(***************************************************************************)
EXTENDS Integers, Sequences, SequencesExt, FiniteSetsExt

CONSTANTS
    SMALLEST_INTERVAL,  \* of CoreScheduler.hpp, in nanoseconds
    CursorDelay,        \* delay of a cursor tick
    Quantum,            \* m_time_quantum: nanoseconds per count of the timer
    MaxInterval,        \* get_maximum_interval(), UINT32_MAX
    Wrap,               \* 2^64
    Bsp,                \* whether this is the bootstrap processor
    MaxEvents           \* bound: events queued or deferred

EventAssumption ==
    /\ {SMALLEST_INTERVAL, CursorDelay, Quantum, MaxInterval, Wrap, MaxEvents} \subseteq Nat \ {0}
    /\ Quantum <= SMALLEST_INTERVAL /\ SMALLEST_INTERVAL < CursorDelay
    /\ CursorDelay < Wrap /\ Bsp \in BOOLEAN

m_time_to_tick == SMALLEST_INTERVAL \div Quantum

VARIABLES
    m_scheduled_events,        \* the queue
    timer,                     \* [count, next]: current count, m_next_timer_tick
    pending,                   \* the timer's interrupt waits at the local APIC
    at,                        \* where the handler is
    elapsed, next_interval,    \* its locals
    m_remaining_time_to_tick,
    m_deferred_calls,
    m_scheduler_initialized,
    threaded,                  \* the core has switched to its first thread
    m_cursor_tick_scheduled,
    m_cursor_on

locals == <<at, elapsed, next_interval>>
cursor == <<m_cursor_tick_scheduled, m_cursor_on>>
vars == <<m_scheduled_events, timer, pending, locals, m_remaining_time_to_tick,
          m_deferred_calls, m_scheduler_initialized, threaded, cursor>>

Event == [call : {"kick", "cursor", "none"}, ns : 0 .. Wrap - 1]

(* Delays and counts are in range; the handler runs what is due only.      *)
TypeOK ==
    /\ m_scheduled_events \in Seq(Event)
    /\ timer.count \in 0 .. timer.next /\ timer.next <= MaxInterval
    /\ pending \in BOOLEAN /\ at \in {"idle", "event", "tick"}
    /\ elapsed \in Nat /\ next_interval \in Nat
    /\ m_remaining_time_to_tick \in 0 .. m_time_to_tick
    /\ m_deferred_calls \in Seq({"kick", "cursor", "none"})
    /\ {m_scheduler_initialized, threaded, m_cursor_tick_scheduled, m_cursor_on} \subseteq BOOLEAN

(* FramebufferConsole() has scheduled the first cursor tick on the         *)
(* bootstrap processor; on other cores the cursor is in any state.         *)
Init ==
    /\ m_scheduled_events = IF Bsp THEN <<[call |-> "cursor", ns |-> CursorDelay]>> ELSE <<>>
    /\ LET interval == IF Bsp THEN CursorDelay \div Quantum ELSE 0
       IN  timer = [count |-> interval, next |-> interval]
    /\ pending = FALSE
    /\ at = "idle" /\ elapsed = 0 /\ next_interval = 0
    /\ m_remaining_time_to_tick = IF Bsp THEN m_time_to_tick ELSE 0
    /\ m_deferred_calls = <<>>
    /\ m_scheduler_initialized = FALSE /\ threaded = FALSE
    /\ m_cursor_tick_scheduled \in BOOLEAN /\ m_cursor_on \in BOOLEAN
    /\ Bsp => m_cursor_tick_scheduled /\ m_cursor_on

----------------------------------------------------------------------------
(* The operators below take and return the pair of queue and timer.        *)

(* A new count is only written when it is the shorter one.                 *)
start(t, interval) ==
    IF interval < t.count \/ t.count = 0 THEN [count |-> interval, next |-> interval] ELSE t

stop(t) == (t.next - t.count) * Quantum

update_queue(q, ns) == [i \in DOMAIN q |-> [q[i] EXCEPT !.ns = (@ - ns) % Wrap]]

(* Starts the timer for the first event; one that is too far away gets     *)
(* empty events put before it.                                             *)
schedule_next_event(q, t) ==
    IF q = <<>> THEN [queue |-> q, timer |-> t]
    ELSE LET interval == q[1].ns \div Quantum
             longest == MaxInterval * Quantum
             needed_events == q[1].ns \div longest
         IN  IF interval <= MaxInterval THEN [queue |-> q, timer |-> start(t, interval)]
             ELSE [queue |-> [i \in 1 .. needed_events |-> [call |-> "none", ns |-> longest]]
                                 \o [q EXCEPT ![1].ns = @ - needed_events * longest],
                   timer |-> start(t, MaxInterval)]

Until(q, i) == ReduceSet(LAMBDA j, sum : q[j].ns + sum, 1 .. i, 0)

(* An event that is to come first brings the delays up to date, and is     *)
(* then put before the first event that is not earlier.                    *)
schedule_on(q, t, call, ns) ==
    LET first == q # <<>> /\ ns <= q[1].ns
        now == IF first THEN update_queue(q, stop(t)) ELSE q
        later == {i \in DOMAIN now : ns <= Until(now, i)}
        place == Min(later \cup {Len(now) + 1})
        rest == ns - Until(now, place - 1)
        moved == IF later = {} THEN now ELSE [now EXCEPT ![place].ns = @ - rest]
        inserted == InsertAt(moved, place, [call |-> call, ns |-> rest])
    IN  IF place = 1 THEN schedule_next_event(inserted, t) ELSE [queue |-> inserted, timer |-> t]

(* What a callback does to queue and timer: only a cursor tick that is     *)
(* still wanted schedules the next.                                        *)
Callback(call, q, t) ==
    IF call = "cursor" /\ m_cursor_on THEN schedule_on(q, t, "cursor", CursorDelay)
    ELSE [queue |-> q, timer |-> t]

Becomes(r) == m_scheduled_events' = r.queue /\ timer' = r.timer

CursorTicked(calls) ==
    m_cursor_tick_scheduled' =
        IF \E i \in DOMAIN calls : calls[i] = "cursor" THEN m_cursor_on ELSE m_cursor_tick_scheduled

----------------------------------------------------------------------------
(* The timer counts down to zero and raises its interrupt.  The interrupt  *)
(* is taken and handled before the timer, should it be started meanwhile,  *)
(* counts on: a count stands for a good part of a tick, 10 ms.             *)
Elapse ==
    /\ timer.count > 0 /\ ~pending /\ at = "idle" /\ Len(m_scheduled_events) <= MaxEvents
    /\ timer' = [timer EXCEPT !.count = @ - 1]
    /\ pending' = (timer.count = 1)
    /\ UNCHANGED <<m_scheduled_events, locals, m_remaining_time_to_tick, m_deferred_calls,
                   m_scheduler_initialized, threaded, cursor>>

(* CoreScheduler::initialize().                                            *)
initialize ==
    /\ ~m_scheduler_initialized /\ at = "idle"
    /\ m_scheduler_initialized' = TRUE
    /\ Becomes(schedule_on(m_scheduled_events, timer, "kick", SMALLEST_INTERVAL))
    /\ UNCHANGED <<pending, locals, m_remaining_time_to_tick, m_deferred_calls, threaded, cursor>>

(* FramebufferConsole::toggle_cursor(), by a thread of this core: a tick   *)
(* that is not scheduled is made up for with the old value of m_cursor_on. *)
toggle_cursor(on) ==
    LET calls == IF on /\ ~m_cursor_tick_scheduled THEN <<"cursor">> ELSE <<>>
    IN  /\ threaded /\ at = "idle"
        /\ Becomes(IF calls # <<>> THEN Callback("cursor", m_scheduled_events, timer)
                   ELSE [queue |-> m_scheduled_events, timer |-> timer])
        /\ CursorTicked(calls)
        /\ m_cursor_on' = on
        /\ UNCHANGED <<pending, locals, m_remaining_time_to_tick, m_deferred_calls,
                       m_scheduler_initialized, threaded>>

(* APICTimer::handle_interrupt(): reduce_by() takes the interval that was  *)
(* programmed last from the delays ...                                     *)
Due_exact(q) == q = <<>> \/ q[1].ns = 0
Due(q) == q = <<>> \/ q[1].ns \div Quantum = 0

handle_interrupt ==
    LET q == update_queue(m_scheduled_events, timer.next * Quantum)
    IN  /\ at = "idle" /\ pending
        /\ pending' = FALSE
        /\ elapsed' = timer.next
        /\ m_scheduled_events' = q
        /\ next_interval' = IF q = <<>> THEN 0 ELSE q[1].ns \div Quantum
        /\ at' = IF Due(q) THEN "event" ELSE "tick"
        /\ UNCHANGED <<timer, m_remaining_time_to_tick, m_deferred_calls, m_scheduler_initialized,
                       threaded, cursor>>

(* ... handle_event() calls, or defers, what is due, one event after the   *)
(* other, and starts the timer for the next ...                            *)
handle_event ==
    /\ at = "event"
    /\ IF m_scheduled_events = <<>>
       THEN /\ at' = "tick"
            /\ UNCHANGED <<m_scheduled_events, timer, m_deferred_calls, cursor>>
       ELSE LET call == m_scheduled_events[1].call
                rest == Tail(m_scheduled_events)
                r == IF m_scheduler_initialized THEN [queue |-> rest, timer |-> timer]
                     ELSE Callback(call, rest, timer)
                again == r.queue # <<>> /\ r.queue[1].ns = 0
            IN  /\ at' = IF again THEN "event" ELSE "tick"
                /\ Becomes(IF again THEN r ELSE schedule_next_event(r.queue, r.timer))
                /\ m_deferred_calls' = IF m_scheduler_initialized THEN Append(m_deferred_calls, call)
                                       ELSE m_deferred_calls
                /\ CursorTicked(IF m_scheduler_initialized THEN <<>> ELSE <<call>>)
                /\ UNCHANGED m_cursor_on
    /\ UNCHANGED <<pending, elapsed, next_interval, m_remaining_time_to_tick,
                   m_scheduler_initialized, threaded>>

(* ... and the rest of the handler counts down to the tick of the          *)
(* scheduler, which runs deferred calls unless it interrupted another      *)
(* handler, and starts the timer for the next tick or event.               *)
Interval_event(remaining, next) == next
Interval(remaining, next) ==
    LET sooner == IF remaining > 0 /\ (remaining < next \/ next = 0) THEN remaining ELSE next
    IN  IF sooner > m_time_to_tick \/ sooner = 0 THEN m_time_to_tick ELSE sooner

(* Deferred calls, of which at most one is a cursor tick.                  *)
process_deferred_queue ==
    IF \E i \in DOMAIN m_deferred_calls : m_deferred_calls[i] = "cursor"
    THEN Callback("cursor", m_scheduled_events, timer)
    ELSE [queue |-> m_scheduled_events, timer |-> timer]

tick(nested) ==
    LET remaining == Max({m_remaining_time_to_tick - elapsed, 0})
        calls == remaining = 0 /\ ~nested
        r == IF calls THEN process_deferred_queue
             ELSE [queue |-> m_scheduled_events, timer |-> timer]
    IN  /\ at = "tick" /\ m_scheduler_initialized
        /\ nested => Len(m_deferred_calls) < MaxEvents
        /\ m_remaining_time_to_tick' = IF remaining = 0 THEN m_time_to_tick ELSE remaining
        /\ threaded' = (threaded \/ remaining = 0)
        /\ m_deferred_calls' = IF calls THEN <<>> ELSE m_deferred_calls
        /\ CursorTicked(IF calls THEN m_deferred_calls ELSE <<>>)
        /\ Becomes([r EXCEPT !.timer = start(@, Interval(remaining, next_interval))])
        /\ at' = "idle"
        /\ UNCHANGED <<pending, elapsed, next_interval, m_scheduler_initialized, m_cursor_on>>

(* Before the scheduler runs, the handler starts the timer with what is    *)
(* left of the first delay.  That is zero, which stops it, once events     *)
(* were handled.                                                           *)
early_tick ==
    /\ at = "tick" /\ ~m_scheduler_initialized
    /\ timer' = start(timer, next_interval)
    /\ at' = "idle"
    /\ UNCHANGED <<m_scheduled_events, pending, elapsed, next_interval, m_remaining_time_to_tick,
                   m_deferred_calls, m_scheduler_initialized, threaded, cursor>>

(* The timer and its handler.                                              *)
Timer ==
    \/ Elapse
    \/ handle_interrupt
    \/ handle_event
    \/ \E nested \in BOOLEAN : tick(nested)
    \/ early_tick

Next == Timer \/ initialize \/ \E on \in BOOLEAN : toggle_cursor(on)

Spec == Init /\ [][Next]_vars

(* The timer counts, the core takes its interrupts, and boot goes on.      *)
Fairness == WF_vars(Timer) /\ WF_vars(initialize)

FairSpec == Spec /\ Fairness

----------------------------------------------------------------------------
(* Once its scheduler is up a core always has a tick to come: the one-shot *)
(* timer is running, or its interrupt pending, or its handler will start   *)
(* it.  A core that lost it would run one thread for ever.                 *)
TickToCome == m_scheduler_initialized => timer.count > 0 \/ pending \/ at # "idle"

(* No delay falls below zero, where the unsigned number becomes a delay of *)
(* centuries: an event is never later than asked for.                      *)
DelaysShrink == \A i \in DOMAIN m_scheduled_events : m_scheduled_events[i].ns <= CursorDelay

(* Every event in the queue is taken from it.                              *)
EventsFire ==
    \A call \in {"kick", "cursor"} :
        (\E i \in DOMAIN m_scheduled_events : m_scheduled_events[i].call = call)
            ~> (\A i \in DOMAIN m_scheduled_events : m_scheduled_events[i].call # call)
=============================================================================
