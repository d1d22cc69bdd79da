---------------------------- MODULE SmpMessages ----------------------------
(***************************************************************************)
(* Messages between cores (smp_broadcast() and smp_process_messages() of   *)
(* arch/i686/Processor.cpp) and the panic that uses them (panic.cpp).      *)
(*                                                                         *)
(* A broadcast queues the message for one core after the other and then    *)
(* raises the interprocessor interrupt on all of them.  The local APIC     *)
(* keeps one pending interrupt per core however often it is raised, and    *)
(* does not deliver it again before the handler of the last one has ended. *)
(* The queues are those of SRMWQueue, which implements Fifo.               *)
(***************************************************************************)
EXTENDS Integers, Sequences

CONSTANTS
    NumCores,
    Threads,
    Home,      \* the core of each thread
    Messages,  \* messages to be broadcast by threads, each once
    Panics,    \* threads that may panic
    Panic,     \* s_panic_message
    None

ASSUME SmpAssumption ==
    /\ NumCores \in Nat \ {0}
    /\ Home \in [Threads -> 0 .. NumCores - 1] /\ Panics \subseteq Threads
    /\ Panic \notin Messages /\ None \notin Messages \cup {Panic}

Cores == 0 .. NumCores - 1
All == Messages \cup {Panic}

VARIABLES
    m_queued_messages,
    pending,         \* interprocessor interrupts raised at each local APIC
    isr,             \* where the handler of each core is
    message,         \* message that the handler of each core has taken
    handled,         \* messages that each core has handled
    at,              \* where each thread is
    to,              \* core that each thread queues its message for next
    sending,         \* message each thread broadcasts
    unsent,          \* messages not broadcast yet
    s_is_panicking,
    s_trace_lock,    \* the core that holds it
    halted           \* cores that are in the endless halt loop

queues == <<m_queued_messages, pending>>
handlers == <<isr, message, handled>>
senders == <<at, to, sending, unsent>>
panics == <<s_is_panicking, s_trace_lock, halted>>
vars == <<queues, handlers, senders, panics>>

(* Queues hold messages, handlers and threads are at known places.         *)
TypeOK ==
    /\ m_queued_messages \in [Cores -> Seq(All)] /\ pending \in [Cores -> BOOLEAN]
    /\ isr \in [Cores -> {"none", "loop", "handle", "trace"}]
    /\ message \in [Cores -> All \cup {None}]
    /\ \A c \in Cores : (isr[c] = "handle") = (message[c] # None)
    /\ handled \in [Cores -> SUBSET Messages]
    /\ at \in [Threads -> {"idle", "queue", "poke", "set", "trace", "print"}]
    /\ to \in [Threads -> Cores]
    /\ sending \in [Threads -> All \cup {None}] /\ unsent \subseteq Messages
    /\ s_is_panicking \in BOOLEAN
    /\ s_trace_lock \in Cores \cup {None} /\ halted \subseteq Cores

Init ==
    /\ m_queued_messages = [c \in Cores |-> <<>>] /\ pending = [c \in Cores |-> FALSE]
    /\ isr = [c \in Cores |-> "none"]
    /\ message = [c \in Cores |-> None] /\ handled = [c \in Cores |-> {}]
    /\ at = [t \in Threads |-> "idle"] /\ to = [t \in Threads |-> 0]
    /\ sending = [t \in Threads |-> None] /\ unsent = Messages
    /\ s_is_panicking = FALSE /\ s_trace_lock = None /\ halted = {}

----------------------------------------------------------------------------
(* A thread in panic() has interrupts off and the core to itself.          *)
Panicking(t) == at[t] \in {"set", "trace", "print"} \/ sending[t] = Panic
CoreIsFree(c) ==
    c \notin halted /\ isr[c] = "none" /\ \A t \in Threads : Home[t] = c => ~Panicking(t)
Runs(t) == Home[t] \notin halted /\ (Panicking(t) \/ CoreIsFree(Home[t]))
Step(t, from, next) == Runs(t) /\ at[t] = from /\ at' = [at EXCEPT ![t] = next]

(* smp_broadcast(): one call of smp_enqueue_message() for every core but   *)
(* this one, the first core first ...                                      *)
smp_broadcast(t, m) ==
    /\ Step(t, "idle", "queue") /\ m \in unsent
    /\ unsent' = unsent \ {m}
    /\ sending' = [sending EXCEPT ![t] = m]
    /\ to' = [to EXCEPT ![t] = 0]
    /\ UNCHANGED <<queues, handlers, panics>>

smp_enqueue_message(t) ==
    LET last == to[t] = NumCores - 1 IN
    /\ Step(t, "queue", IF last THEN "poke" ELSE "queue")
    /\ to' = [to EXCEPT ![t] = IF last THEN @ ELSE @ + 1]
    /\ m_queued_messages' = IF to[t] = Home[t] THEN m_queued_messages
                            ELSE [m_queued_messages EXCEPT ![to[t]] = Append(@, sending[t])]
    /\ UNCHANGED <<pending, handlers, sending, unsent, panics>>

(* ... and then smp_poke_all(): the interrupt is raised at all others.     *)
Poked_self(t, c) == c = Home[t]
Poked(t, c) == c # Home[t]

smp_poke_all(t) ==
    /\ Step(t, "poke", IF sending[t] = Panic THEN "trace" ELSE "idle")
    /\ pending' = [c \in Cores |-> pending[c] \/ Poked(t, c)]
    /\ sending' = [sending EXCEPT ![t] = None]
    /\ UNCHANGED <<m_queued_messages, handlers, to, unsent, panics>>

(* The interrupt arrives and its handler enters smp_process_messages() ... *)
handle_interrupt(c) ==
    /\ CoreIsFree(c) /\ pending[c]
    /\ pending' = [pending EXCEPT ![c] = FALSE]
    /\ isr' = [isr EXCEPT ![c] = "loop"]
    /\ UNCHANGED <<m_queued_messages, message, handled, senders, panics>>

(* ... which takes messages until the queue is empty ...                   *)
smp_process_messages(c) ==
    LET empty == m_queued_messages[c] = <<>> IN
    /\ isr[c] = "loop"
    /\ isr' = [isr EXCEPT ![c] = IF empty THEN "none" ELSE "handle"]
    /\ message' = [message EXCEPT ![c] = IF empty THEN None ELSE Head(m_queued_messages[c])]
    /\ m_queued_messages' = [m_queued_messages EXCEPT ![c] = IF empty THEN @ ELSE Tail(@)]
    /\ UNCHANGED <<pending, handled, senders, panics>>

(* ... and handles each; PanicMessage goes on to the trace.                *)
AfterHandle_once(m) == IF m = Panic THEN "trace" ELSE "none"
AfterHandle(m) == IF m = Panic THEN "trace" ELSE "loop"

handle(c) ==
    /\ isr[c] = "handle"
    /\ handled' = [handled EXCEPT ![c] = @ \cup ({message[c]} \ {Panic})]
    /\ isr' = [isr EXCEPT ![c] = AfterHandle(message[c])]
    /\ message' = [message EXCEPT ![c] = None]
    /\ UNCHANGED <<queues, senders, panics>>

(* PanicMessage::handle() prints a trace under the lock and halts.         *)
print_stacktrace(c) ==
    /\ isr[c] = "trace" /\ c \notin halted /\ s_trace_lock = None
    /\ halted' = halted \cup {c}
    /\ UNCHANGED <<queues, handlers, senders, s_is_panicking, s_trace_lock>>

(* panic(): interrupts off; halt when another core panics already ...      *)
panic_test(t) ==
    /\ t \in Panics
    /\ Step(t, "idle", IF s_is_panicking THEN "idle" ELSE "set")
    /\ halted' = IF s_is_panicking THEN halted \cup {Home[t]} ELSE halted
    /\ UNCHANGED <<queues, handlers, to, sending, unsent, s_is_panicking, s_trace_lock>>

(* ... claim the panic and tell the others ...                             *)
panic_set(t) ==
    /\ Step(t, "set", "queue")
    /\ s_is_panicking' = TRUE
    /\ sending' = [sending EXCEPT ![t] = Panic]
    /\ to' = [to EXCEPT ![t] = 0]
    /\ UNCHANGED <<queues, handlers, unsent, s_trace_lock, halted>>

(* ... take the lock ...                                                   *)
panic_lock(t) ==
    /\ Step(t, "trace", "print") /\ s_trace_lock = None
    /\ s_trace_lock' = Home[t]
    /\ UNCHANGED <<queues, handlers, to, sending, unsent, s_is_panicking, halted>>

(* ... print everything, release it and halt.                              *)
panic_print(t) ==
    /\ Step(t, "print", "print")
    /\ s_trace_lock' = None
    /\ halted' = halted \cup {Home[t]}
    /\ UNCHANGED <<queues, handlers, to, sending, unsent, s_is_panicking>>

Core(c) ==
    handle_interrupt(c) \/ smp_process_messages(c) \/ handle(c) \/ print_stacktrace(c)
Broadcast(t) == smp_enqueue_message(t) \/ smp_poke_all(t)
Dying(t) == panic_set(t) \/ panic_lock(t) \/ panic_print(t)

Next ==
    \/ \E c \in Cores : Core(c)
    \/ \E t \in Threads :
        Broadcast(t) \/ Dying(t) \/ panic_test(t) \/ \E m \in Messages : smp_broadcast(t, m)

Spec == Init /\ [][Next]_vars

(* A core goes on with what it has begun: the handler of a raised          *)
(* interrupt, a broadcast (the thread gets its turn again between the      *)
(* handlers) and a panic.                                                  *)
FairSpec ==
    /\ Spec
    /\ \A c \in Cores : WF_vars(Core(c))
    /\ \A t \in Threads : SF_vars(Broadcast(t)) /\ WF_vars(Dying(t))

----------------------------------------------------------------------------
(* A queued message has an interrupt on its way: it is pending, or the     *)
(* handler has not seen the queue empty, or the sender has still to raise  *)
(* it.                                                                     *)
NoMessageForgotten ==
    \A c \in Cores :
        m_queued_messages[c] # <<>> =>
            \/ pending[c]
            \/ isr[c] # "none"
            \/ \E t \in Threads : Home[t] # c /\ (at[t] = "poke" \/ (at[t] = "queue" /\ to[t] > c))

(* The message m is at core c: handled, about to be, or queued.            *)
Arrived(m, c) ==
    \/ m \in handled[c]
    \/ message[c] = m
    \/ \E i \in 1 .. Len(m_queued_messages[c]) : m_queued_messages[c][i] = m

(* A message that was broadcast is at every core but the sender's, or the  *)
(* sender has not come to that core yet (smp_broadcast()).                 *)
NoMessageLost ==
    \A m \in Messages \ unsent : \E s \in Cores : \A c \in Cores \ {s} :
        \/ Arrived(m, c)
        \/ \E t \in Threads : Home[t] = s /\ at[t] = "queue" /\ sending[t] = m /\ to[t] <= c

(* A message that was broadcast is at every core but the sender's or has   *)
(* still to come to it, and whatever is queued has an interrupt on its     *)
(* way, also while cores panic.                                            *)
MessagesAnnounced == NoMessageForgotten /\ NoMessageLost
=============================================================================
