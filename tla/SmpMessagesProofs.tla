------------------------- MODULE SmpMessagesProofs -------------------------
(***************************************************************************)
(* Messages between cores, for every number of cores, threads and          *)
(* messages, in two parts.                                                 *)
(*                                                                         *)
(* Broadcast messages are neither lost nor forgotten.  Both properties are *)
(* preserved by every step once it is known what is on the way: a thread   *)
(* that queues or pokes has a message, so that queues hold messages only.  *)
(*                                                                         *)
(* The queue of a core is a ring of nodes that is changed pointer by       *)
(* pointer (SRMWQueue).  It does what a queue does that is changed at      *)
(* once, which is why m_queued_messages may be a sequence.  The invariant  *)
(* says where the pointers lead while one of them is being changed.        *)
(***************************************************************************)
EXTENDS SmpMessages, SRMWQueue, TLAPS

----------------------------------------------------------------------------
(* The messages in the queues.                                             *)

(* A thread that queues a message or is about to poke has one.             *)
SendersHaveMessage == \A t \in Threads : at[t] \in {"queue", "poke"} => sending[t] # None

Typed == TypeOK /\ SendersHaveMessage

----------------------------------------------------------------------------
(* The queues hold messages and everybody is at a known place.             *)
LEMMA TypedInit == Init => Typed
<1> SUFFICES ASSUME Init PROVE Typed
  BY Zenon
<1>1. m_queued_messages \in [Cores -> Seq(All)]
  BY DEF Init
<1>2. 0 \in Cores
  BY SmpAssumption DEF Cores
<1> QED BY Zenon, <1>1, <1>2, SmpAssumption DEF Init, Typed, TypeOK, SendersHaveMessage, All

(* smp_broadcast(), smp_enqueue_message() and smp_poke_all() keep types.   *)
LEMMA TypedBroadcast ==
    ASSUME Typed, NEW t \in Threads,
           (\E m \in Messages : smp_broadcast(t, m)) \/ Broadcast(t)
    PROVE  Typed'
<1> USE DEF Typed
<1>1. ASSUME NEW m \in Messages, smp_broadcast(t, m) PROVE Typed'
  <2>1. 0 \in Cores /\ m \in All /\ m # None
    BY SmpAssumption DEF Cores, All
  <2> QED
    BY Zenon, <1>1, <2>1
       DEF Step, smp_broadcast, TypeOK, SendersHaveMessage, queues, handlers, panics
<1>2. ASSUME smp_enqueue_message(t) PROVE Typed'
  <2>1. at[t] = "queue" /\ at' = [at EXCEPT ![t] = IF to[t] = NumCores - 1 THEN "poke" ELSE "queue"]
    BY Zenon, <1>2 DEF smp_enqueue_message, Step
  <2>2. sending[t] \in All
    BY Zenon, <2>1 DEF TypeOK, SendersHaveMessage
  <2>3. m_queued_messages' \in [Cores -> Seq(All)]
    BY <1>2, <2>2 DEF smp_enqueue_message, TypeOK
  <2>4. to' \in [Threads -> Cores]
    <3>1. to' = [to EXCEPT ![t] = IF to[t] = NumCores - 1 THEN to[t] ELSE to[t] + 1]
      BY Zenon, <1>2 DEF smp_enqueue_message
    <3>2. to[t] \in Cores /\ (to[t] # NumCores - 1 => to[t] + 1 \in Cores)
      BY SmpAssumption DEF TypeOK, Cores
    <3> QED BY Zenon, <3>1, <3>2 DEF TypeOK
  <2>5. at' \in [Threads -> {"idle", "queue", "poke", "set", "trace", "print"}]
    BY Zenon, <2>1 DEF TypeOK
  <2>6. UNCHANGED <<pending, isr, message, handled, sending, unsent, s_is_panicking, s_trace_lock,
                    halted>>
    BY Zenon, <1>2 DEF smp_enqueue_message, handlers, panics
  <2>7. SendersHaveMessage'
    BY Zenon, <2>1, <2>6 DEF TypeOK, SendersHaveMessage
  <2> QED BY Zenon, <2>3, <2>4, <2>5, <2>6, <2>7 DEF TypeOK
<1>3. ASSUME smp_poke_all(t) PROVE Typed'
  <2>1. /\ at[t] = "poke" /\ at' = [at EXCEPT ![t] = IF sending[t] = Panic THEN "trace" ELSE "idle"]
        /\ pending' = [c \in Cores |-> pending[c] \/ Poked(t, c)]
        /\ sending' = [sending EXCEPT ![t] = None]
        /\ UNCHANGED <<m_queued_messages, handlers, to, unsent, panics>>
    BY Zenon, <1>3 DEF smp_poke_all, Step
  <2>2. pending' \in [Cores -> BOOLEAN]
    BY <2>1, Zenon DEF TypeOK, Poked
  <2> QED BY Zenon, <2>1, <2>2 DEF TypeOK, SendersHaveMessage, handlers, panics
<1> QED BY Zenon, <1>1, <1>2, <1>3 DEF Broadcast

(* So do the handlers of a core.                                           *)
LEMMA TypedCore ==
    ASSUME Typed, NEW c \in Cores, Core(c)
    PROVE  Typed'
<1> USE DEF Typed
<1>1. ASSUME handle_interrupt(c) PROVE Typed'
  BY Zenon, <1>1 DEF handle_interrupt, CoreIsFree, TypeOK, SendersHaveMessage, senders, panics
<1>2. ASSUME smp_process_messages(c) PROVE Typed'
  <2>1. m_queued_messages' \in [Cores -> Seq(All)] /\ message' \in [Cores -> All \cup {None}]
    BY <1>2 DEF smp_process_messages, TypeOK
  <2>2. ASSUME NEW d \in Cores PROVE (isr'[d] = "handle") = (message'[d] # None)
    BY <1>2, SmpAssumption DEF smp_process_messages, TypeOK, All
  <2> QED BY Zenon, <1>2, <2>1, <2>2
             DEF smp_process_messages, TypeOK, SendersHaveMessage, senders, panics
<1>3. ASSUME handle(c) PROVE Typed'
  BY <1>3 DEF handle, AfterHandle, TypeOK, SendersHaveMessage, All, queues, senders, panics
<1>4. ASSUME print_stacktrace(c) PROVE Typed'
  BY Zenon, <1>4 DEF print_stacktrace, TypeOK, SendersHaveMessage, queues, handlers, senders
<1> QED BY Zenon, <1>1, <1>2, <1>3, <1>4 DEF Core

(* And panic().                                                            *)
LEMMA TypedPanic ==
    ASSUME Typed, NEW t \in Threads, Dying(t) \/ panic_test(t)
    PROVE  Typed'
<1> USE DEF Typed
<1>1. 0 \in Cores /\ Home[t] \in Cores /\ Panic \in All /\ Panic # None
  BY SmpAssumption DEF Cores, All
<1>2. ASSUME panic_test(t) PROVE Typed'
  BY Zenon, <1>1, <1>2 DEF Step, panic_test, TypeOK, SendersHaveMessage, queues, handlers
<1>3. ASSUME panic_set(t) PROVE Typed'
  BY Zenon, <1>1, <1>3 DEF Step, panic_set, TypeOK, SendersHaveMessage, queues, handlers
<1>4. ASSUME panic_lock(t) PROVE Typed'
  BY Zenon, <1>1, <1>4 DEF Step, panic_lock, TypeOK, SendersHaveMessage, queues, handlers
<1>5. ASSUME panic_print(t) PROVE Typed'
  BY Zenon, <1>1, <1>5 DEF Step, panic_print, TypeOK, SendersHaveMessage, queues, handlers
<1> QED BY Zenon, <1>2, <1>3, <1>4, <1>5 DEF Dying

(* Every step keeps the types.                                             *)
LEMMA TypedNext == Typed /\ [Next]_vars => Typed'
<1> SUFFICES ASSUME Typed, [Next]_vars PROVE Typed'
  BY Zenon
<1>1. CASE UNCHANGED vars
  BY Zenon, <1>1 DEF vars, queues, handlers, senders, panics, Typed, TypeOK, SendersHaveMessage
<1>2. CASE \E c \in Cores : Core(c)
  BY Zenon, <1>2, TypedCore
<1>3. CASE \E t \in Threads : (\E m \in Messages : smp_broadcast(t, m)) \/ Broadcast(t)
  BY Zenon, <1>3, TypedBroadcast
<1>4. CASE \E t \in Threads : Dying(t) \/ panic_test(t)
  BY Zenon, <1>4, TypedPanic
<1> QED BY Zenon, <1>1, <1>2, <1>3, <1>4 DEF Next

----------------------------------------------------------------------------
(* No message is forgotten: the announcement of a queued message never     *)
(* goes away before the handler has looked at the queue.                   *)

(* What announces a message in the queue of core c.                        *)
Announced(c) ==
    \/ pending[c]
    \/ isr[c] # "none"
    \/ \E t \in Threads : Home[t] # c /\ (at[t] = "poke" \/ (at[t] = "queue" /\ to[t] > c))

(* Every step keeps the announcements.                                     *)
LEMMA AnnouncedNext ==
    ASSUME Typed, NoMessageForgotten, [Next]_vars
    PROVE  NoMessageForgotten'
<1> SUFFICES ASSUME NEW c \in Cores, m_queued_messages'[c] # <<>>
             PROVE  Announced(c)'
  BY Zenon DEF NoMessageForgotten, Announced
<1>0. m_queued_messages[c] # <<>> => Announced(c)
  BY Zenon DEF NoMessageForgotten, Announced
<1>1. ASSUME UNCHANGED vars PROVE Announced(c)'
  BY Zenon, <1>0, <1>1 DEF vars, queues, handlers, senders, Announced
<1>2. ASSUME NEW d \in Cores, Core(d) PROVE Announced(c)'
  <2>1. UNCHANGED <<at, to>>
    BY Zenon, <1>2
       DEF Core, handle_interrupt, smp_process_messages, handle, print_stacktrace, senders
  <2>2. d = c => isr'[c] # "none" \/ (UNCHANGED <<m_queued_messages, isr, pending>>)
    BY Zenon, <1>2 DEF Core, handle_interrupt, smp_process_messages, handle, AfterHandle,
                print_stacktrace, Typed, TypeOK, queues, handlers
  <2>3. d # c => /\ m_queued_messages'[c] = m_queued_messages[c]
                 /\ pending'[c] = pending[c] /\ isr'[c] = isr[c]
    BY Zenon, <1>2 DEF Core, handle_interrupt, smp_process_messages, handle, print_stacktrace,
                Typed, TypeOK, queues, handlers
  <2> QED BY Zenon, <1>0, <2>1, <2>2, <2>3 DEF Announced
<1>3. ASSUME NEW t \in Threads, smp_enqueue_message(t) PROVE Announced(c)'
  <2>1. /\ at[t] = "queue"
        /\ at' = [at EXCEPT ![t] = IF to[t] = NumCores - 1 THEN "poke" ELSE "queue"]
        /\ to' = [to EXCEPT ![t] = IF to[t] = NumCores - 1 THEN to[t] ELSE to[t] + 1]
        /\ UNCHANGED <<pending, isr>>
    BY Zenon, <1>3 DEF smp_enqueue_message, Step, handlers
  <2>2. CASE m_queued_messages'[c] = m_queued_messages[c]
    BY SMTT(30), <1>0, <2>1, <2>2, SmpAssumption DEF Announced, Typed, TypeOK, Cores
  <2>3. CASE m_queued_messages'[c] # m_queued_messages[c]
    <3>1. to[t] = c /\ Home[t] # c
      BY Zenon, <1>3, <2>3 DEF smp_enqueue_message, Typed, TypeOK
    <3> QED BY <2>1, <3>1, SmpAssumption DEF Announced, Typed, TypeOK, Cores
  <2> QED BY Zenon, <2>2, <2>3
<1>4. ASSUME NEW t \in Threads, smp_poke_all(t) PROVE Announced(c)'
  <2>1. /\ at[t] = "poke" /\ at' = [at EXCEPT ![t] = IF sending[t] = Panic THEN "trace" ELSE "idle"]
        /\ pending'[c] = (pending[c] \/ c # Home[t])
        /\ UNCHANGED <<m_queued_messages, isr, to>>
    BY Zenon, <1>4 DEF smp_poke_all, Poked, Step, handlers
  <2> QED BY Zenon, <1>0, <2>1 DEF Announced, Typed, TypeOK
<1>5. ASSUME NEW t \in Threads, Dying(t) \/ panic_test(t) \/ \E m \in Messages : smp_broadcast(t, m)
      PROVE  Announced(c)'
  <2>1. /\ at[t] \notin {"queue", "poke"} /\ UNCHANGED <<m_queued_messages, pending, isr>>
        /\ \A u \in Threads \ {t} : at'[u] = at[u] /\ to'[u] = to[u]
    BY Zenon, <1>5 DEF Dying, panic_set, panic_lock, panic_print, panic_test, smp_broadcast, Step,
                queues, handlers, Typed, TypeOK
  <2> QED BY Zenon, <1>0, <2>1 DEF Announced
<1> QED BY Zenon, <1>1, <1>2, <1>3, <1>4, <1>5 DEF Next, Broadcast

----------------------------------------------------------------------------
(* No message is lost: what has arrived at a core stays there, and the     *)
(* sender goes past no core but its own without leaving the message.       *)

(* A message that has arrived at a core has still arrived after any step.  *)
LEMMA ArrivedStays ==
    ASSUME Typed, [Next]_vars, NEW m \in Messages, NEW c \in Cores, Arrived(m, c)
    PROVE  Arrived(m, c)'
<1> USE DEF Typed
<1>0. Len(m_queued_messages[c]) \in Nat
  BY DEF TypeOK
<1>1. ASSUME UNCHANGED <<m_queued_messages, message, handled>> PROVE Arrived(m, c)'
  BY Zenon, <1>1 DEF Arrived
<1>2. ASSUME smp_process_messages(c) PROVE Arrived(m, c)'
  <2> DEFINE q == m_queued_messages[c]
  <2>1. q \in Seq(All) /\ message[c] # m
    BY Zenon, <1>2, SmpAssumption DEF smp_process_messages, TypeOK
  <2>2. CASE q = <<>>
    <3>1. m_queued_messages'[c] = q /\ handled' = handled
      BY Zenon, <1>2, <2>2 DEF smp_process_messages, TypeOK
    <3> QED BY Zenon, <2>1, <2>2, <3>1 DEF Arrived
  <2>3. CASE q # <<>>
    <3>1. m_queued_messages'[c] = Tail(q) /\ handled' = handled /\ message'[c] = Head(q)
      BY Zenon, <1>2, <2>3 DEF smp_process_messages, TypeOK
    <3>2. ASSUME NEW i \in 1 .. Len(q), q[i] = m
          PROVE  Head(q) = m \/ \E j \in 1 .. Len(Tail(q)) : Tail(q)[j] = m
      <4>1. CASE i = 1
        BY <2>1, <2>3, <3>2, <4>1
      <4>2. CASE i # 1
        <5>1. i - 1 \in 1 .. Len(Tail(q)) /\ Tail(q)[i - 1] = q[i]
          BY <2>1, <2>3, <4>2
        <5> QED BY Zenon, <3>2, <5>1
      <4> QED BY Zenon, <4>1, <4>2
    <3> QED BY Zenon, <2>1, <3>1, <3>2 DEF Arrived
  <2> QED BY Zenon, <2>2, <2>3
<1>3. ASSUME handle(c) PROVE Arrived(m, c)'
  <2>1. /\ handled'[c] = handled[c] \cup ({message[c]} \ {Panic}) /\ message'[c] = None
        /\ m_queued_messages' = m_queued_messages
    BY Zenon, <1>3 DEF handle, TypeOK, queues
  <2>2. m # Panic
    BY Zenon, SmpAssumption
  <2> QED BY Zenon, <2>1, <2>2 DEF Arrived
<1>4. ASSUME NEW d \in Cores \ {c}, smp_process_messages(d) \/ handle(d) PROVE Arrived(m, c)'
  <2>1. /\ m_queued_messages'[c] = m_queued_messages[c]
        /\ message'[c] = message[c] /\ handled'[c] = handled[c]
    BY Zenon, <1>4 DEF smp_process_messages, handle, TypeOK, queues
  <2> QED BY Zenon, <2>1 DEF Arrived
<1>5. ASSUME NEW t \in Threads, smp_enqueue_message(t) PROVE Arrived(m, c)'
  <2> DEFINE q == m_queued_messages[c]
  <2>1. q \in Seq(All) /\ (at[t] = "queue" => sending[t] \in All) /\ at[t] = "queue"
    BY Zenon, <1>5 DEF TypeOK, SendersHaveMessage, smp_enqueue_message, Step
  <2>2. /\ m_queued_messages'[c] = q \/ m_queued_messages'[c] = Append(q, sending[t])
        /\ UNCHANGED <<message, handled>>
    BY Zenon, <1>5 DEF smp_enqueue_message, TypeOK, handlers
  <2>3. ASSUME NEW i \in 1 .. Len(q)
        PROVE  i \in 1 .. Len(Append(q, sending[t])) /\ Append(q, sending[t])[i] = q[i]
    BY <2>1
  <2> QED BY Zenon, <2>2, <2>3 DEF Arrived
<1>6. ASSUME NEW d \in Cores, handle_interrupt(d) \/ print_stacktrace(d) PROVE Arrived(m, c)'
  BY Zenon, <1>1, <1>6 DEF handle_interrupt, print_stacktrace, queues, handlers
<1>7. ASSUME NEW t \in Threads,
             smp_poke_all(t) \/ Dying(t) \/ panic_test(t) \/ \E n \in Messages : smp_broadcast(t, n)
      PROVE  Arrived(m, c)'
  BY Zenon, <1>1, <1>7 DEF smp_poke_all, Dying, panic_set, panic_lock, panic_print, panic_test,
                    smp_broadcast, queues, handlers
<1>8. ASSUME UNCHANGED vars PROVE Arrived(m, c)'
  BY Zenon, <1>1, <1>8 DEF vars, queues, handlers
<1> QED BY Zenon, <1>2, <1>3, <1>4, <1>5, <1>6, <1>7, <1>8 DEF Next, Core, Broadcast

(* The sender t of m, of core s, has not come to core c yet.               *)
ToCome(t, m, s, c) == Home[t] = s /\ at[t] = "queue" /\ sending[t] = m /\ to[t] <= c

(* When it comes to c, it leaves the message there.                        *)
LEMMA ToComeArrives ==
    ASSUME Typed, [Next]_vars, NEW m \in Messages, NEW s \in Cores, NEW c \in Cores \ {s},
           NEW t \in Threads, ToCome(t, m, s, c)
    PROVE  Arrived(m, c)' \/ ToCome(t, m, s, c)'
<1> USE DEF Typed
<1>1. ASSUME at'[t] = at[t] /\ to'[t] = to[t] /\ sending'[t] = sending[t]
      PROVE  ToCome(t, m, s, c)'
  BY Zenon, <1>1 DEF ToCome
<1>2. ASSUME smp_enqueue_message(t) PROVE Arrived(m, c)' \/ ToCome(t, m, s, c)'
  <2>1. CASE to[t] = c
    <3>1. /\ m_queued_messages[c] \in Seq(All) /\ m \in All
          /\ m_queued_messages'[c] = Append(m_queued_messages[c], m)
      BY Zenon, <1>2, <2>1 DEF smp_enqueue_message, TypeOK, ToCome, All
    <3>2. LET q == m_queued_messages[c] IN
          Len(q) + 1 \in 1 .. Len(Append(q, m)) /\ Append(q, m)[Len(q) + 1] = m
      BY <3>1
    <3> QED BY Zenon, <3>1, <3>2 DEF Arrived
  <2>2. CASE to[t] # c
    <3>1. to[t] \in Int /\ c \in Int /\ NumCores \in Int /\ to[t] < c /\ c <= NumCores - 1
      BY <2>2, SmpAssumption DEF ToCome, TypeOK, Cores
    <3>2. at'[t] = "queue" /\ to'[t] = to[t] + 1 /\ sending' = sending
      BY <1>2, <3>1 DEF smp_enqueue_message, Step, TypeOK
    <3> QED BY <3>1, <3>2 DEF ToCome
  <2> QED BY Zenon, <2>1, <2>2
<1>3. ASSUME NEW d \in Cores, Core(d) PROVE ToCome(t, m, s, c)'
  BY Zenon, <1>1, <1>3
     DEF Core, handle_interrupt, smp_process_messages, handle, print_stacktrace, senders
<1>4. ASSUME NEW u \in Threads,
             \/ Dying(u) \/ panic_test(u) \/ smp_poke_all(u) \/ (u # t /\ smp_enqueue_message(u))
             \/ \E n \in Messages : smp_broadcast(u, n)
      PROVE  ToCome(t, m, s, c)'
  <2>1. u # t
    BY Zenon, <1>4
       DEF Dying, panic_set, panic_lock, panic_print, panic_test, smp_poke_all, smp_broadcast,
                Step, ToCome
  <2>2. at'[t] = at[t] /\ to'[t] = to[t] /\ sending'[t] = sending[t]
    BY Zenon, <1>4, <2>1 DEF Dying, panic_set, panic_lock, panic_print, panic_test, smp_poke_all,
                smp_enqueue_message, smp_broadcast, Step, TypeOK
  <2> QED BY Zenon, <1>1, <2>2
<1>5. ASSUME UNCHANGED vars PROVE ToCome(t, m, s, c)'
  BY Zenon, <1>1, <1>5 DEF vars, senders
<1> QED BY Zenon, <1>2, <1>3, <1>4, <1>5 DEF Next, Broadcast

(* Every step keeps the messages.                                          *)
LEMMA LostNext ==
    ASSUME Typed, NoMessageLost, [Next]_vars
    PROVE  NoMessageLost'
<1> DEFINE Delivered(m, s) ==
        \A c \in Cores \ {s} : Arrived(m, c) \/ \E t \in Threads : ToCome(t, m, s, c)
<1> SUFFICES ASSUME NEW m \in Messages \ unsent' PROVE \E s \in Cores : Delivered(m, s)'
  BY Zenon DEF NoMessageLost, ToCome
<1>1. CASE m \notin unsent
  <2>1. PICK s \in Cores : Delivered(m, s)
    BY Zenon, <1>1 DEF NoMessageLost, ToCome
  <2>2. ASSUME NEW c \in Cores \ {s} PROVE Arrived(m, c)' \/ \E t \in Threads : ToCome(t, m, s, c)'
    <3>1. CASE Arrived(m, c)
      BY Zenon, <3>1, ArrivedStays
    <3>2. CASE \E t \in Threads : ToCome(t, m, s, c)
      <4>1. PICK t \in Threads : ToCome(t, m, s, c)
        BY Zenon, <3>2
      <4> QED BY Zenon, <4>1, ToComeArrives
    <3> QED BY Zenon, <2>1, <3>1, <3>2
  <2> QED BY Zenon, <2>2
<1>2. CASE m \in unsent
  <2>1. PICK t \in Threads : smp_broadcast(t, m)
    <3>1. ASSUME UNCHANGED unsent PROVE FALSE
      BY Zenon, <1>2, <3>1
    <3>2. ASSUME NEW t \in Threads, NEW n \in Messages, smp_broadcast(t, n) PROVE n = m
      BY Zenon, <1>2, <3>2 DEF smp_broadcast
    <3>3. \/ UNCHANGED unsent
          \/ \E t \in Threads, n \in Messages : smp_broadcast(t, n)
      BY Zenon DEF Next, Core, handle_interrupt, smp_process_messages, handle, print_stacktrace,
             Broadcast, smp_enqueue_message, smp_poke_all, Dying, panic_set, panic_lock,
             panic_print, panic_test, vars, senders
    <3> QED BY Zenon, <3>1, <3>2, <3>3
  <2>2. /\ at'[t] = "queue" /\ sending'[t] = m /\ to'[t] = 0
        /\ Home[t] \in Cores
    BY Zenon, <2>1, SmpAssumption DEF smp_broadcast, Step, Typed, TypeOK, Cores
  <2>3. \A c \in Cores : 0 <= c
    BY SmpAssumption DEF Cores
  <2>4. Delivered(m, Home[t])'
    BY Zenon, <2>2, <2>3 DEF ToCome
  <2> QED BY Zenon, <2>2, <2>4
<1> QED BY Zenon, <1>1, <1>2

----------------------------------------------------------------------------
Inductive == Typed /\ NoMessageForgotten /\ NoMessageLost

(* Nothing has been sent at the start, and every step keeps the invariant. *)
LEMMA InductiveHolds == Spec => []Inductive
<1>1. Init => Inductive
  <2>1. Init => NoMessageForgotten /\ NoMessageLost
    BY DEF Init, NoMessageForgotten, NoMessageLost
  <2> QED BY Zenon, <2>1, TypedInit DEF Inductive
<1>2. Inductive /\ [Next]_vars => Inductive'
  BY TypedNext, AnnouncedNext, LostNext DEF Inductive
<1> QED BY <1>1, <1>2, PTL DEF Spec

(* For every number of cores, threads and messages, and whoever panics: a  *)
(* message that was broadcast is at every core but the sender's, or the    *)
(* sender has not come to that core yet (smp_broadcast()); and a queued    *)
(* message has an interrupt on its way (smp_poke_all() after the queues    *)
(* are filled, smp_process_messages() until they are empty).               *)
THEOREM MessagesArrive == Spec => []MessagesAnnounced
BY InductiveHolds, PTL DEF Inductive, MessagesAnnounced

----------------------------------------------------------------------------
(* The queue of a core.                                                    *)

(* Writers are in put() and readers in get().                              *)
RingTyped ==
    /\ QueueTypeOK
    /\ \A w \in Writers : pc[w] \in {"idle", "lock", "link", "close", "tail"}
    /\ \A r \in Readers : pc[r] \in {"idle", "take", "unprev", "unlink", "data"}

(* A node is queued once, and only after its value was taken up.           *)
Order ==
    /\ \A i, j \in 1 .. Len(queue) : queue[i] = queue[j] => i = j
    /\ \A i \in 1 .. Len(queue) : queue[i] \notin unput

(* The next pointers lead through the queue, and from a closed last node   *)
(* back to the head.                                                       *)
Forward ==
    /\ \A i \in 0 .. Len(queue) - 1 : next[Place(i)] = Place(i + 1)
    /\ (\A w \in Writers : pc[w] # "close") => next[Place(Len(queue))] = head

(* The prev pointers lead back, except for the one that the thread in the  *)
(* locked section has not set yet or has set already.                      *)
Backward ==
    \A i \in 0 .. Len(queue) :
        \/ prev[Place(i + 1)] = Place(i)
        \/ i = 1 /\ \E r \in Readers : pc[r] = "unlink"
        \/ i = Len(queue) /\ \E w \in Writers : pc[w] \in {"close", "tail"}

(* The node belongs to t alone: it is new, and not linked.                 *)
Private(t) ==
    /\ node[t] \in Values \ unput
    /\ \A i \in 1 .. Len(queue) : queue[i] # node[t]

(* What a writer has done so far.                                          *)
Writing ==
    \A w \in Writers :
        /\ pc[w] \in {"lock", "link"} =>
              /\ Private(w)
              /\ \A x \in Writers \ {w} : pc[x] \in {"lock", "link"} => node[x] # node[w]
        /\ pc[w] = "link" => prev[node[w]] = Place(Len(queue))
        /\ pc[w] \in {"close", "tail"} =>
              /\ Len(queue) > 0 /\ node[w] = queue[Len(queue)]
              /\ prev[head] = Place(Len(queue) - 1)

(* What a reader has done so far; what it saw in the queue stays there.    *)
Reading ==
    \A r \in Readers :
        /\ pc[r] \in {"idle", "take"} => node[r] = Null
        /\ pc[r] \in {"take", "unprev", "unlink"} => Len(queue) > 0
        /\ pc[r] \in {"unprev", "unlink"} => node[r] = queue[1]
        /\ pc[r] = "unlink" => prev[Place(2)] = head
        /\ pc[r] = "data" =>
              /\ Private(r)
              /\ \A w \in Writers : pc[w] \in {"lock", "link"} => node[w] # node[r]

RingInductive == RingTyped /\ Order /\ Forward /\ Backward /\ Writing /\ Reading

(* The empty ring.                                                         *)
LEMMA RingInit == ASSUME QueueAssumption, QueueInit PROVE RingInductive
<1>1. Len(queue) = 0 /\ queue \in Seq(Values) /\ received \in Seq(Nodes)
  BY DEF QueueInit
<1>2. \A i \in {0, 1} : Place(i) = head
  BY <1>1 DEF Place
<1>3. RingTyped
  BY Zenon, <1>1 DEF QueueInit, RingTyped, QueueTypeOK, QueueAssumption, Nodes
<1>4. Order
  BY <1>1 DEF Order
<1>5. next[head] = head /\ prev[head] = head
  BY Zenon DEF QueueInit, Nodes
<1>6. Forward
  BY <1>1, <1>2, <1>5 DEF Forward
<1>7. Backward
  BY <1>1, <1>2, <1>5 DEF Backward
<1>8. Writing /\ Reading
  BY Zenon DEF QueueInit, Writing, Reading
<1> QED BY Zenon, <1>3, <1>4, <1>6, <1>7, <1>8 DEF RingInductive

(* The places are nodes, and differ.                                       *)
LEMMA Places ==
    ASSUME QueueAssumption, RingInductive
    PROVE  /\ Len(queue) \in Nat
           /\ \A i \in 1 .. Len(queue) :
                Place(i) = queue[i] /\ queue[i] \in Values /\ queue[i] # head
           /\ \A i \in Nat : i \notin 1 .. Len(queue) => Place(i) = head
           /\ \A i \in Nat : Place(i) \in Nodes
           /\ \A i, j \in 0 .. Len(queue) : Place(i) = Place(j) => i = j
<1>1. queue \in Seq(Values) /\ Len(queue) \in Nat
  BY DEF RingInductive, RingTyped, QueueTypeOK
<1>2. \A i \in 1 .. Len(queue) : Place(i) = queue[i] /\ queue[i] \in Values /\ queue[i] # head
  BY <1>1 DEF Place, QueueAssumption
<1>3. \A i \in Nat : i \notin 1 .. Len(queue) => Place(i) = head
  BY Zenon, <1>1 DEF Place
<1>4. \A i \in Nat : Place(i) \in Nodes
  BY Zenon, <1>2, <1>3 DEF Nodes
<1>5. \A i, j \in 0 .. Len(queue) : Place(i) = Place(j) => i = j
  BY <1>1, <1>2, <1>3 DEF RingInductive, Order
<1> QED BY Zenon, <1>1, <1>2, <1>3, <1>4, <1>5

(* A step that leaves the ring alone keeps it closed.                      *)
LEMMA RingKept ==
    ASSUME QueueAssumption, RingInductive, UNCHANGED <<next, prev, queue>>,
           \A w \in Writers : /\ pc'[w] = "close" <=> pc[w] = "close"
                              /\ pc'[w] = "tail" <=> pc[w] = "tail",
           \A r \in Readers : pc'[r] = "unlink" <=> pc[r] = "unlink"
    PROVE  Forward' /\ Backward' /\ \A i \in Nat : Place(i)' = Place(i)
<1>1. \A i \in Nat : Place(i)' = Place(i)
  BY Zenon DEF Place
<1>2. Len(queue) \in Nat
  BY Zenon, Places
<1>3. Forward'
  BY <1>1, <1>2 DEF RingInductive, Forward
<1>4. Backward'
  BY <1>1, <1>2 DEF RingInductive, Backward
<1> QED BY Zenon, <1>1, <1>3, <1>4

(* Pointers stay pointers, and the lock goes only from the thread inside.  *)
LEMMA TypesKept ==
    ASSUME QueueAssumption, RingInductive, NEW t \in Writers \cup Readers,
           NEW goal \in
             {"idle", "lock", "link", "close", "tail", "take", "unprev", "unlink", "data"},
           t \in Writers => goal \in {"idle", "lock", "link", "close", "tail"},
           t \in Readers => goal \in {"idle", "take", "unprev", "unlink", "data"},
           pc' = [pc EXCEPT ![t] = goal],
           next' \in [Nodes -> Nodes \cup {Null}],
           prev' \in [Nodes -> Nodes \cup {Null}],
           node' \in [Writers \cup Readers -> Nodes \cup {Null}],
           unput' \subseteq Values, received' \in Seq(Nodes), queue' \in Seq(Values),
           \/ /\ queue_lock' = queue_lock
              /\ goal \in {"link", "close", "tail", "unprev", "unlink"} => queue_lock = t
           \/ queue_lock = Null /\ queue_lock' = t
           \/ /\ queue_lock = t /\ queue_lock' = Null
              /\ goal \notin {"link", "close", "tail", "unprev", "unlink"}
    PROVE  RingTyped'
<1>1. /\ pc \in [Writers \cup Readers ->
                   {"idle", "lock", "link", "close", "tail", "take", "unprev", "unlink", "data"}]
      /\ queue_lock \in Writers \cup Readers \cup {Null}
      /\ \A u \in Writers \cup Readers :
           pc[u] \in {"link", "close", "tail", "unprev", "unlink"} => queue_lock = u
      /\ \A w \in Writers : pc[w] \in {"idle", "lock", "link", "close", "tail"}
      /\ \A r \in Readers : pc[r] \in {"idle", "take", "unprev", "unlink", "data"}
  BY Zenon DEF RingInductive, RingTyped, QueueTypeOK
<1>2. /\ pc' \in [Writers \cup Readers ->
                    {"idle", "lock", "link", "close", "tail", "take", "unprev", "unlink", "data"}]
      /\ pc'[t] = goal /\ \A u \in (Writers \cup Readers) \ {t} : pc'[u] = pc[u]
  BY Zenon, <1>1
<1>3. queue_lock' \in Writers \cup Readers \cup {Null}
  BY Zenon, <1>1
<1>4. \A u \in Writers \cup Readers :
          pc'[u] \in {"link", "close", "tail", "unprev", "unlink"} => queue_lock' = u
  BY <1>1, <1>2 DEF QueueAssumption
<1>5. /\ \A w \in Writers : pc'[w] \in {"idle", "lock", "link", "close", "tail"}
      /\ \A r \in Readers : pc'[r] \in {"idle", "take", "unprev", "unlink", "data"}
  BY Zenon, <1>1, <1>2
<1> QED BY Zenon, <1>2, <1>3, <1>4, <1>5 DEF RingTyped, QueueTypeOK

(* put() fills in a node that nobody else has.                             *)
LEMMA PutStep ==
    ASSUME QueueAssumption, RingInductive, NEW w \in Writers, NEW v \in Values, put(w, v)
    PROVE  RingInductive'
<1>1. /\ pc[w] = "idle" /\ pc'[w] = "lock"
      /\ \A u \in (Writers \cup Readers) \ {w} : pc'[u] = pc[u]
      /\ node'[w] = v /\ \A u \in (Writers \cup Readers) \ {w} : node'[u] = node[u]
  BY Zenon DEF put, At, RingInductive, RingTyped, QueueTypeOK
<1>2. /\ UNCHANGED <<next, prev, queue_lock, received, queue>>
      /\ unput' = unput \ {v} /\ v \in unput
  BY Zenon DEF put
<1>3. Forward' /\ Backward' /\ \A i \in Nat : Place(i)' = Place(i)
  BY Zenon, <1>1, <1>2, RingKept DEF QueueAssumption
<1>4. RingTyped'
  BY <1>1, <1>2
     DEF put, At, RingInductive, RingTyped, QueueTypeOK, QueueAssumption, Nodes
<1>5. Order'
  BY Zenon, <1>2 DEF RingInductive, Order
<1>6. Len(queue) \in Nat
  BY Zenon, Places
<1>7. Writing'
  BY <1>1, <1>2, <1>3, <1>6 DEF RingInductive, Order, Writing, Private, QueueAssumption
<1>8. Reading'
  BY <1>1, <1>2, <1>3, <1>6 DEF RingInductive, Order, Reading, Private, QueueAssumption
<1> QED BY Zenon, <1>3, <1>4, <1>5, <1>7, <1>8 DEF RingInductive

(* node->prev = head.prev, with the lock just taken: that is the last node.*)
LEMMA PrevStep ==
    ASSUME QueueAssumption, RingInductive, NEW w \in Writers, put_prev(w)
    PROVE  RingInductive'
<1>0. /\ Len(queue) \in Nat /\ \A i \in 1 .. Len(queue) : Place(i) = queue[i]
      /\ \A i \in Nat : i \notin 1 .. Len(queue) => Place(i) = head
  BY Zenon, Places
<1>1. /\ pc[w] = "lock" /\ pc'[w] = "link"
      /\ \A u \in (Writers \cup Readers) \ {w} : pc'[u] = pc[u]
  BY Zenon DEF put_prev, At, RingInductive, RingTyped, QueueTypeOK
<1>2. /\ UNCHANGED <<next, node, unput, received, queue>> /\ queue_lock = Null /\ queue_lock' = w
      /\ prev' = [prev EXCEPT ![node[w]] = prev[head]]
  BY SMTT(30) DEF put_prev, Lock
<1>3. /\ node[w] \in Values /\ node[w] # head /\ \A i \in 1 .. Len(queue) : queue[i] # node[w]
  BY Zenon, <1>1 DEF RingInductive, Writing, Private, QueueAssumption
<1>4. \A u \in Writers \cup Readers : pc[u] \notin {"link", "close", "tail", "unprev", "unlink"}
  BY Zenon, <1>2 DEF RingInductive, RingTyped, QueueTypeOK, QueueAssumption
<1>5. prev[head] = Place(Len(queue))
  <2>1. Place(Len(queue) + 1) = head
    BY <1>0
  <2> QED BY <1>0, <1>4, <2>1 DEF RingInductive, Backward
<1>6. \A i \in Nat : Place(i)' = Place(i)
  BY Zenon, <1>2 DEF Place
<1>7. prev'[node[w]] = prev[head] /\ \A m \in Nodes \ {node[w]} : prev'[m] = prev[m]
  BY SMTT(30), <1>2, <1>3 DEF RingInductive, RingTyped, QueueTypeOK, Nodes
<1>8. \A i \in Nat : prev'[Place(i)] = prev[Place(i)]
  BY <1>0, <1>3, <1>7, Places
<1>9. RingTyped'
  <2>1. prev' \in [Nodes -> Nodes \cup {Null}]
    BY Zenon, <1>2 DEF RingInductive, RingTyped, QueueTypeOK, Nodes
  <2>2. /\ next \in [Nodes -> Nodes \cup {Null}]
        /\ node \in [Writers \cup Readers -> Nodes \cup {Null}]
        /\ unput \subseteq Values /\ received \in Seq(Nodes) /\ queue \in Seq(Values)
    BY Zenon DEF RingInductive, RingTyped, QueueTypeOK
  <2>3. pc' = [pc EXCEPT ![w] = "link"] /\ w \notin Readers
    BY Zenon DEF put_prev, At, QueueAssumption
  <2> QED BY Zenon, <1>2, <2>1, <2>2, <2>3, TypesKept
<1>10. Order' /\ Forward'
  BY <1>0, <1>1, <1>2, <1>4, <1>6 DEF RingInductive, Order, Forward, QueueAssumption
<1>11. Backward'
  BY <1>0, <1>1, <1>2, <1>4, <1>6, <1>8 DEF RingInductive, Backward, QueueAssumption
<1>12. Writing'
  BY <1>0, <1>1, <1>2, <1>4, <1>5, <1>6, <1>7
     DEF RingInductive, Writing, Private, QueueAssumption
<1>13. Reading'
  BY <1>0, <1>1, <1>2, <1>4, <1>6, <1>7 DEF RingInductive, Reading, Private, QueueAssumption
<1> QED BY Zenon, <1>9, <1>10, <1>11, <1>12, <1>13 DEF RingInductive

(* head.prev->next = node: here the value enters the queue.                *)
LEMMA LinkStep ==
    ASSUME QueueAssumption, RingInductive, NEW w \in Writers, put_link(w)
    PROVE  RingInductive' /\ F!Put(node[w]) /\ node[w] \in Values
<1>n. PICK n \in Nat : n = Len(queue)
  BY Zenon, Places
<1>0. /\ \A i \in 1 .. n : Place(i) = queue[i] /\ queue[i] \in Values /\ queue[i] # head
      /\ \A i \in Nat : i \notin 1 .. n => Place(i) = head
      /\ \A i \in Nat : Place(i) \in Nodes
      /\ \A i, j \in 0 .. n : Place(i) = Place(j) => i = j
  BY Zenon, <1>n, Places
<1>1. /\ pc[w] = "link" /\ pc'[w] = "close"
      /\ \A u \in (Writers \cup Readers) \ {w} : pc'[u] = pc[u]
  BY Zenon DEF put_link, At, RingInductive, RingTyped, QueueTypeOK
<1>2. /\ UNCHANGED <<prev, queue_lock, node, unput, received>> /\ queue' = Append(queue, node[w])
      /\ next' = [next EXCEPT ![prev[head]] = node[w]]
  BY Zenon DEF put_link
<1>3. /\ node[w] \in Values \ unput /\ node[w] # head /\ \A i \in 1 .. n : queue[i] # node[w]
      /\ prev[node[w]] = Place(n)
      /\ \A x \in Writers \ {w} : pc[x] \in {"lock", "link"} => node[x] # node[w]
  BY Zenon, <1>n, <1>1 DEF RingInductive, Writing, Private, QueueAssumption
<1>4. /\ queue_lock = w
      /\ \A u \in (Writers \cup Readers) \ {w} :
           pc[u] \notin {"link", "close", "tail", "unprev", "unlink"}
  BY Zenon, <1>1 DEF RingInductive, RingTyped, QueueTypeOK
<1>5. \A r \in Readers : pc[r] # "unlink" /\ pc'[r] = pc[r]
  BY Zenon, <1>1, <1>4 DEF QueueAssumption
<1>6. prev[head] = Place(n)
  <2>1. Place(n + 1) = head
    BY <1>n, <1>0
  <2> QED BY <1>n, <1>0, <1>1, <1>4, <1>5, <2>1 DEF RingInductive, Backward
<1>7. /\ Len(queue)' = n + 1 /\ queue'[n + 1] = node[w]
      /\ \A i \in 1 .. n : queue'[i] = queue[i]
      /\ queue' \in Seq(Values)
  BY SMTT(30), <1>n, <1>2, <1>3 DEF RingInductive, RingTyped, QueueTypeOK
<1>8. /\ \A i \in 0 .. n : Place(i)' = Place(i)
      /\ Place(n + 1)' = node[w] /\ Place(n + 2)' = head
  BY SMTT(30), <1>n, <1>0, <1>7 DEF Place
<1>9. next'[Place(n)] = node[w] /\ \A m \in Nodes \ {Place(n)} : next'[m] = next[m]
  BY Zenon, <1>n, <1>0, <1>2, <1>6 DEF RingInductive, RingTyped, QueueTypeOK
<1>10. RingTyped'
  <2>1. next' \in [Nodes -> Nodes \cup {Null}]
    BY Zenon, <1>2, <1>3 DEF RingInductive, RingTyped, QueueTypeOK, Nodes
  <2>2. /\ prev \in [Nodes -> Nodes \cup {Null}]
        /\ node \in [Writers \cup Readers -> Nodes \cup {Null}]
        /\ unput \subseteq Values /\ received \in Seq(Nodes)
    BY Zenon DEF RingInductive, RingTyped, QueueTypeOK
  <2>3. pc' = [pc EXCEPT ![w] = "close"] /\ w \notin Readers
    BY Zenon DEF put_link, At, QueueAssumption
  <2> QED BY Zenon, <1>2, <1>4, <1>7, <2>1, <2>2, <2>3, TypesKept
<1>11. Order'
  BY <1>n, <1>0, <1>2, <1>3, <1>7 DEF RingInductive, Order
<1>12. Forward'
  <2>1. \A i \in 0 .. n - 1 : next'[Place(i)] = Place(i + 1)
    BY <1>n, <1>0, <1>9 DEF RingInductive, Forward
  <2>2. \A i \in 0 .. n : next'[Place(i)'] = Place(i + 1)'
    BY <1>n, <1>0, <1>8, <1>9, <2>1
  <2> QED BY <1>n, <1>0, <1>1, <1>7, <2>2 DEF Forward
<1>13. Backward'
  <2>1. \A i \in 0 .. n - 1 : prev[Place(i + 1)] = Place(i)
    BY <1>n, <1>0, <1>1, <1>4, <1>5 DEF RingInductive, Backward
  <2>2. \A i \in 0 .. n : prev'[Place(i + 1)'] = Place(i)'
    BY <1>n, <1>0, <1>2, <1>3, <1>8, <2>1
  <2> QED BY <1>n, <1>0, <1>1, <1>7, <2>2 DEF Backward
<1>14. Writing'
  BY <1>n, <1>0, <1>1, <1>2, <1>3, <1>4, <1>6, <1>7, <1>8
     DEF RingInductive, Writing, Private, QueueAssumption
<1>15. Reading'
  BY <1>n, <1>0, <1>1, <1>2, <1>3, <1>4, <1>5, <1>7
     DEF RingInductive, Reading, Private, QueueAssumption
<1>16. F!Put(node[w])
  BY Zenon, <1>2 DEF F!Put
<1> QED BY Zenon, <1>3, <1>10, <1>11, <1>12, <1>13, <1>14, <1>15, <1>16 DEF RingInductive

(* node->next = &head, for the node that has just become the last one.     *)
LEMMA CloseStep ==
    ASSUME QueueAssumption, RingInductive, NEW w \in Writers, put_close(w)
    PROVE  RingInductive'
<1>n. PICK n \in Nat : n = Len(queue)
  BY Zenon, Places
<1>0. /\ \A i \in 1 .. n : Place(i) = queue[i] /\ queue[i] \in Values
      /\ \A i \in Nat : Place(i) \in Nodes
      /\ \A i, j \in 0 .. n : Place(i) = Place(j) => i = j
  BY Zenon, <1>n, Places
<1>1. /\ pc[w] = "close" /\ pc'[w] = "tail"
      /\ \A u \in (Writers \cup Readers) \ {w} : pc'[u] = pc[u]
  BY Zenon DEF put_close, At, RingInductive, RingTyped, QueueTypeOK
<1>2. /\ UNCHANGED <<prev, queue_lock, node, unput, received, queue>>
      /\ next' = [next EXCEPT ![node[w]] = head]
  BY Zenon DEF put_close
<1>3. n > 0 /\ node[w] = queue[n] /\ prev[head] = Place(n - 1) /\ node[w] = Place(n)
  BY <1>n, <1>0, <1>1 DEF RingInductive, Writing
<1>4. /\ queue_lock = w
      /\ \A u \in (Writers \cup Readers) \ {w} :
           pc[u] \notin {"link", "close", "tail", "unprev", "unlink"}
  BY Zenon, <1>1 DEF RingInductive, RingTyped, QueueTypeOK
<1>5. \A r \in Readers : pc[r] # "unlink" /\ pc'[r] = pc[r]
  BY Zenon, <1>1, <1>4 DEF QueueAssumption
<1>6. \A i \in Nat : Place(i)' = Place(i)
  BY Zenon, <1>2 DEF Place
<1>7. next'[Place(n)] = head /\ \A m \in Nodes \ {Place(n)} : next'[m] = next[m]
  BY Zenon, <1>0, <1>2, <1>3 DEF RingInductive, RingTyped, QueueTypeOK
<1>8. RingTyped'
  <2>1. next' \in [Nodes -> Nodes \cup {Null}]
    BY Zenon, <1>2 DEF RingInductive, RingTyped, QueueTypeOK, Nodes
  <2>2. /\ prev \in [Nodes -> Nodes \cup {Null}]
        /\ node \in [Writers \cup Readers -> Nodes \cup {Null}]
        /\ unput \subseteq Values /\ received \in Seq(Nodes) /\ queue \in Seq(Values)
    BY Zenon DEF RingInductive, RingTyped, QueueTypeOK
  <2>3. pc' = [pc EXCEPT ![w] = "tail"] /\ w \notin Readers
    BY Zenon DEF put_close, At, QueueAssumption
  <2> QED BY Zenon, <1>2, <1>4, <2>1, <2>2, <2>3, TypesKept
<1>9. Order'
  BY Zenon, <1>2 DEF RingInductive, Order
<1>10. Forward'
  <2>1. \A i \in 0 .. n - 1 : next'[Place(i)] = Place(i + 1)
    BY <1>n, <1>0, <1>7 DEF RingInductive, Forward
  <2>2. \A i \in 0 .. n - 1 : next'[Place(i)'] = Place(i + 1)'
    BY <1>6, <2>1
  <2>3. Len(queue)' = n /\ next'[Place(n)'] = head
    BY Zenon, <1>n, <1>2, <1>6, <1>7
  <2> QED BY Zenon, <2>2, <2>3 DEF Forward
<1>11. Backward'
  <2>1. \A i \in 0 .. n : i # n => prev[Place(i + 1)] = Place(i)
    BY SMTT(30), <1>n, <1>4, <1>5 DEF RingInductive, Backward
  <2> QED BY <1>n, <1>1, <1>2, <1>6, <2>1 DEF Backward
<1>12. Writing'
  BY <1>n, <1>1, <1>2, <1>3, <1>4, <1>6 DEF RingInductive, Writing, Private, QueueAssumption
<1>13. Reading'
  BY Zenon, <1>n, <1>1, <1>2, <1>4, <1>5, <1>6 DEF RingInductive, Reading, Private, QueueAssumption
<1> QED BY Zenon, <1>8, <1>9, <1>10, <1>11, <1>12, <1>13 DEF RingInductive

(* head.prev = node, and the lock is released with the ring closed.        *)
LEMMA TailStep ==
    ASSUME QueueAssumption, RingInductive, NEW w \in Writers, put_tail(w)
    PROVE  RingInductive'
<1>n. PICK n \in Nat : n = Len(queue)
  BY Zenon, Places
<1>0. /\ \A i \in 1 .. n : Place(i) = queue[i] /\ queue[i] \in Values /\ queue[i] # head
      /\ \A i \in Nat : i \notin 1 .. n => Place(i) = head
      /\ \A i \in Nat : Place(i) \in Nodes
      /\ \A i, j \in 0 .. n : Place(i) = Place(j) => i = j
  BY Zenon, <1>n, Places
<1>1. /\ pc[w] = "tail" /\ pc'[w] = "idle"
      /\ \A u \in (Writers \cup Readers) \ {w} : pc'[u] = pc[u]
  BY Zenon DEF put_tail, At, RingInductive, RingTyped, QueueTypeOK
<1>2. /\ UNCHANGED <<next, node, unput, received, queue>> /\ queue_lock' = Null
      /\ prev' = [prev EXCEPT ![head] = node[w]]
  BY SMTT(30) DEF put_tail, Unlock
<1>3. n > 0 /\ node[w] = Place(n)
  BY <1>n, <1>0, <1>1 DEF RingInductive, Writing
<1>4. /\ queue_lock = w
      /\ \A u \in (Writers \cup Readers) \ {w} :
           pc[u] \notin {"link", "close", "tail", "unprev", "unlink"}
  BY Zenon, <1>1 DEF RingInductive, RingTyped, QueueTypeOK
<1>5. \A r \in Readers : pc[r] # "unlink" /\ pc'[r] = pc[r]
  BY Zenon, <1>1, <1>4 DEF QueueAssumption
<1>6. \A i \in Nat : Place(i)' = Place(i)
  BY Zenon, <1>2 DEF Place
<1>7. prev'[head] = Place(n) /\ \A m \in Nodes \ {head} : prev'[m] = prev[m]
  BY Zenon, <1>2, <1>3 DEF RingInductive, RingTyped, QueueTypeOK, Nodes
<1>8. RingTyped'
  <2>1. prev' \in [Nodes -> Nodes \cup {Null}]
    BY Zenon, <1>0, <1>2, <1>3 DEF RingInductive, RingTyped, QueueTypeOK
  <2>2. /\ next \in [Nodes -> Nodes \cup {Null}]
        /\ node \in [Writers \cup Readers -> Nodes \cup {Null}]
        /\ unput \subseteq Values /\ received \in Seq(Nodes) /\ queue \in Seq(Values)
    BY Zenon DEF RingInductive, RingTyped, QueueTypeOK
  <2>3. pc' = [pc EXCEPT ![w] = "idle"] /\ w \notin Readers
    BY Zenon DEF put_tail, At, QueueAssumption
  <2> QED BY Zenon, <1>2, <1>4, <2>1, <2>2, <2>3, TypesKept
<1>9. Order'
  BY Zenon, <1>2 DEF RingInductive, Order
<1>10. Forward'
  BY <1>n, <1>1, <1>2, <1>4, <1>6 DEF RingInductive, Forward
<1>11. Backward'
  <2>1. \A i \in 0 .. n : i # n => prev[Place(i + 1)] = Place(i)
    BY Zenon, <1>n, <1>4, <1>5 DEF RingInductive, Backward
  <2>2. \A i \in 0 .. n : prev'[Place(i + 1)] = Place(i)
    BY <1>0, <1>7, <2>1
  <2> QED BY <1>n, <1>2, <1>6, <2>2 DEF Backward
<1>12. Writing'
  BY <1>n, <1>1, <1>2, <1>4, <1>6 DEF RingInductive, Writing, Private, QueueAssumption
<1>13. Reading'
  BY Zenon, <1>n, <1>1, <1>2, <1>4, <1>5, <1>6 DEF RingInductive, Reading, Private, QueueAssumption
<1> QED BY Zenon, <1>8, <1>9, <1>10, <1>11, <1>12, <1>13 DEF RingInductive

(* empty() was false: there is a queued node, linked or closed.            *)
LEMMA GetStep ==
    ASSUME QueueAssumption, RingInductive, NEW r \in Readers, get(r)
    PROVE  RingInductive'
<1>1. /\ pc[r] = "idle" /\ pc'[r] = "take"
      /\ \A u \in (Writers \cup Readers) \ {r} : pc'[u] = pc[u]
  BY Zenon DEF get, At, RingInductive, RingTyped, QueueTypeOK
<1>2. UNCHANGED <<next, prev, queue_lock, node, unput, received, queue>> /\ next[head] # head
  BY Zenon DEF get, empty
<1>3. Len(queue) \in Nat /\ Len(queue) > 0
  <2>1. Len(queue) \in Nat /\ (Len(queue) = 0 => Place(Len(queue)) = head)
    BY Places
  <2> QED BY <1>2, <2>1 DEF RingInductive, Forward, Writing
<1>4. Forward' /\ Backward' /\ \A i \in Nat : Place(i)' = Place(i)
  BY Zenon, <1>1, <1>2, RingKept DEF QueueAssumption
<1>5. RingTyped'
  <2>1. /\ next \in [Nodes -> Nodes \cup {Null}]
        /\ prev \in [Nodes -> Nodes \cup {Null}]
        /\ node \in [Writers \cup Readers -> Nodes \cup {Null}]
        /\ unput \subseteq Values /\ received \in Seq(Nodes) /\ queue \in Seq(Values)
    BY Zenon DEF RingInductive, RingTyped, QueueTypeOK
  <2>2. pc' = [pc EXCEPT ![r] = "take"] /\ r \notin Writers
    BY Zenon DEF get, At, QueueAssumption
  <2> QED BY Zenon, <1>2, <2>1, <2>2, TypesKept
<1>6. Order' /\ Writing'
  BY <1>1, <1>2, <1>3, <1>4 DEF RingInductive, Order, Writing, Private, QueueAssumption
<1>7. Reading'
  BY Zenon, <1>1, <1>2, <1>3, <1>4 DEF RingInductive, Reading, Private, QueueAssumption
<1> QED BY Zenon, <1>4, <1>5, <1>6, <1>7 DEF RingInductive

(* Only its one reader takes nodes out, so that the first one is there.    *)
LEMMA TakeStep ==
    ASSUME QueueAssumption, RingInductive, NEW r \in Readers, get_take(r)
    PROVE  RingInductive'
<1>1. /\ pc[r] = "take" /\ pc'[r] = "unprev"
      /\ \A u \in (Writers \cup Readers) \ {r} : pc'[u] = pc[u]
  BY Zenon DEF get_take, At, RingInductive, RingTyped, QueueTypeOK
<1>2. /\ UNCHANGED <<next, prev, unput, received, queue>> /\ queue_lock = Null /\ queue_lock' = r
      /\ node' = [node EXCEPT ![r] = next[head]]
  BY SMTT(30) DEF get_take, Lock
<1>3. Len(queue) \in Nat /\ Len(queue) > 0
  BY SMTT(30), <1>1, Places DEF Reading, RingInductive
<1>4. next[head] = queue[1] /\ queue[1] \in Values
  <2>1. Place(0) = head /\ Place(1) = queue[1] /\ queue[1] \in Values
    BY <1>3, Places
  <2> QED BY <1>3, <2>1 DEF RingInductive, Forward
<1>5. node'[r] = queue[1] /\ \A u \in (Writers \cup Readers) \ {r} : node'[u] = node[u]
  BY SMTT(30), <1>2, <1>4 DEF RingInductive, RingTyped, QueueTypeOK
<1>6. Forward' /\ Backward' /\ \A i \in Nat : Place(i)' = Place(i)
  BY Zenon, <1>1, <1>2, RingKept DEF QueueAssumption
<1>7. RingTyped'
  <2>1. node' \in [Writers \cup Readers -> Nodes \cup {Null}]
    BY Zenon, <1>2, <1>4 DEF RingInductive, RingTyped, QueueTypeOK, Nodes
  <2>2. /\ next \in [Nodes -> Nodes \cup {Null}]
        /\ prev \in [Nodes -> Nodes \cup {Null}]
        /\ unput \subseteq Values /\ received \in Seq(Nodes) /\ queue \in Seq(Values)
    BY Zenon DEF RingInductive, RingTyped, QueueTypeOK
  <2>3. pc' = [pc EXCEPT ![r] = "unprev"] /\ r \notin Writers
    BY SMTT(30) DEF get_take, At, QueueAssumption
  <2> QED BY Zenon, <1>2, <2>1, <2>2, <2>3, TypesKept
<1>8. Order' /\ Writing'
  BY SMTT(30), <1>1, <1>2, <1>3, <1>5, <1>6
     DEF RingInductive, Order, Writing, Private, QueueAssumption
<1>9. Reading'
  BY Zenon, <1>1, <1>2, <1>3, <1>5, <1>6 DEF RingInductive, Reading, Private, QueueAssumption
<1> QED BY Zenon, <1>6, <1>7, <1>8, <1>9 DEF RingInductive

(* node->next->prev = &head, for the node behind the first one.            *)
LEMMA UnprevStep ==
    ASSUME QueueAssumption, RingInductive, NEW r \in Readers, get_prev(r)
    PROVE  RingInductive'
<1>n. PICK n \in Nat : n = Len(queue)
  BY Zenon, Places
<1>0. /\ \A i \in 1 .. n : Place(i) = queue[i] /\ queue[i] \in Values /\ queue[i] # head
      /\ \A i \in Nat : i \notin 1 .. n => Place(i) = head
      /\ \A i \in Nat : Place(i) \in Nodes
      /\ \A i, j \in 0 .. n : Place(i) = Place(j) => i = j
  BY Zenon, <1>n, Places
<1>1. /\ pc[r] = "unprev" /\ pc'[r] = "unlink"
      /\ \A u \in (Writers \cup Readers) \ {r} : pc'[u] = pc[u]
  BY Zenon DEF get_prev, At, RingInductive, RingTyped, QueueTypeOK
<1>2. /\ UNCHANGED <<next, queue_lock, node, unput, received, queue>>
      /\ prev' = [prev EXCEPT ![next[node[r]]] = head]
  BY Zenon DEF get_prev
<1>3. n > 0 /\ node[r] = queue[1] /\ node[r] = Place(1)
  BY <1>n, <1>0, <1>1 DEF RingInductive, Reading
<1>4. /\ queue_lock = r
      /\ \A u \in (Writers \cup Readers) \ {r} :
           pc[u] \notin {"link", "close", "tail", "unprev", "unlink"}
  BY Zenon, <1>1 DEF RingInductive, RingTyped, QueueTypeOK
<1>5. \A w \in Writers : pc[w] \notin {"link", "close", "tail"} /\ pc'[w] = pc[w]
  BY Zenon, <1>1, <1>4 DEF QueueAssumption
<1>6. next[node[r]] = Place(2)
  BY <1>n, <1>0, <1>3, <1>5 DEF RingInductive, Forward
<1>7. \A i \in Nat : Place(i)' = Place(i)
  BY Zenon, <1>2 DEF Place
<1>8. prev'[Place(2)] = head /\ \A m \in Nodes \ {Place(2)} : prev'[m] = prev[m]
  BY Zenon, <1>0, <1>2, <1>6 DEF RingInductive, RingTyped, QueueTypeOK
<1>9. RingTyped'
  <2>1. prev' \in [Nodes -> Nodes \cup {Null}]
    BY Zenon, <1>2 DEF RingInductive, RingTyped, QueueTypeOK, Nodes
  <2>2. /\ next \in [Nodes -> Nodes \cup {Null}]
        /\ node \in [Writers \cup Readers -> Nodes \cup {Null}]
        /\ unput \subseteq Values /\ received \in Seq(Nodes) /\ queue \in Seq(Values)
    BY SMTT(30) DEF RingInductive, RingTyped, QueueTypeOK
  <2>3. pc' = [pc EXCEPT ![r] = "unlink"] /\ r \notin Writers
    BY Zenon DEF get_prev, At, QueueAssumption
  <2> QED BY Zenon, <1>2, <1>4, <2>1, <2>2, <2>3, TypesKept
<1>10. Order' /\ Forward'
  BY <1>n, <1>1, <1>2, <1>5, <1>7 DEF RingInductive, Order, Forward
<1>11. Backward'
  <2> SUFFICES ASSUME NEW i \in 0 .. n, i # 1 PROVE prev'[Place(i + 1)] = Place(i)
    BY <1>n, <1>1, <1>2, <1>7 DEF Backward
  <2>1. prev[Place(i + 1)] = Place(i)
    BY Zenon, <1>n, <1>5 DEF RingInductive, Backward
  <2>2. Place(i + 1) # Place(2)
    BY SMTT(30), <1>0, <1>3
  <2> QED BY <1>0, <1>8, <2>1, <2>2
<1>12. Writing'
  BY SMTT(30), <1>n, <1>1, <1>2, <1>5, <1>7 DEF RingInductive, Writing, Private
<1>13. Reading'
  BY Zenon, <1>n, <1>1, <1>2, <1>3, <1>5, <1>7, <1>8
     DEF RingInductive, Reading, Private, QueueAssumption
<1> QED BY Zenon, <1>9, <1>10, <1>11, <1>12, <1>13 DEF RingInductive

(* head.next = node->next: here the value leaves the queue.                *)
LEMMA UnlinkStep ==
    ASSUME QueueAssumption, RingInductive, NEW r \in Readers, get_unlink(r)
    PROVE  RingInductive' /\ F!Get
<1>n. PICK n \in Nat : n = Len(queue)
  BY Zenon, Places
<1>0. /\ \A i \in 1 .. n : Place(i) = queue[i] /\ queue[i] \in Values /\ queue[i] # head
      /\ \A i \in Nat : i \notin 1 .. n => Place(i) = head
      /\ \A i \in Nat : Place(i) \in Nodes
      /\ \A i, j \in 0 .. n : Place(i) = Place(j) => i = j
  BY Zenon, <1>n, Places
<1>1. /\ pc[r] = "unlink" /\ pc'[r] = "data"
      /\ \A u \in (Writers \cup Readers) \ {r} : pc'[u] = pc[u]
  BY Zenon DEF get_unlink, At, RingInductive, RingTyped, QueueTypeOK
<1>2. /\ UNCHANGED <<prev, node, unput>> /\ queue_lock' = Null
      /\ next' = [next EXCEPT ![head] = next[node[r]]]
      /\ received' = Append(received, node[r]) /\ queue' = Tail(queue)
  BY SMTT(30) DEF get_unlink, Unlock
<1>3. /\ n > 0 /\ node[r] = queue[1] /\ node[r] = Place(1) /\ prev[Place(2)] = head
      /\ queue # <<>> /\ Head(queue) = queue[1]
  BY <1>n, <1>0, <1>1 DEF RingInductive, Reading, RingTyped, QueueTypeOK
<1>4. /\ queue_lock = r
      /\ \A u \in (Writers \cup Readers) \ {r} :
           pc[u] \notin {"link", "close", "tail", "unprev", "unlink"}
  BY SMTT(30), <1>1 DEF RingInductive, RingTyped, QueueTypeOK
<1>5. \A w \in Writers : pc[w] \notin {"link", "close", "tail"} /\ pc'[w] = pc[w]
  BY Zenon, <1>1, <1>4 DEF QueueAssumption
<1>6. next[node[r]] = Place(2)
  BY <1>n, <1>0, <1>3, <1>5 DEF RingInductive, Forward
<1>7. /\ Len(queue)' = n - 1 /\ queue' \in Seq(Values)
      /\ \A i \in 1 .. n - 1 : queue'[i] = queue[i + 1]
  BY <1>n, <1>2, <1>3 DEF RingInductive, RingTyped, QueueTypeOK
<1>8. Place(0)' = head /\ \A i \in 1 .. n : Place(i)' = Place(i + 1)
  BY <1>0, <1>3, <1>7 DEF Place
<1>9. next'[head] = Place(2) /\ \A m \in Nodes \ {head} : next'[m] = next[m]
  BY Zenon, <1>2, <1>6 DEF RingInductive, RingTyped, QueueTypeOK, Nodes
<1>10. RingTyped'
  <2>1. next' \in [Nodes -> Nodes \cup {Null}]
    <3>1. next[node[r]] \in Nodes
      BY <1>0, <1>6
    <3> QED BY Zenon, <1>2, <3>1 DEF RingInductive, RingTyped, QueueTypeOK
  <2>2. received' \in Seq(Nodes)
    BY <1>0, <1>2, <1>3 DEF RingInductive, RingTyped, QueueTypeOK
  <2>3. /\ prev \in [Nodes -> Nodes \cup {Null}]
        /\ node \in [Writers \cup Readers -> Nodes \cup {Null}]
        /\ unput \subseteq Values
    BY Zenon DEF RingInductive, RingTyped, QueueTypeOK
  <2>4. pc' = [pc EXCEPT ![r] = "data"] /\ r \notin Writers
    BY Zenon DEF get_unlink, At, QueueAssumption
  <2> QED BY Zenon, <1>2, <1>4, <1>7, <2>1, <2>2, <2>3, <2>4, TypesKept
<1>11. Order'
  BY SMTT(30), <1>n, <1>2, <1>3, <1>7 DEF RingInductive, Order
<1>12. Forward'
  <2>1. \A i \in 1 .. n - 2 : next'[Place(i)'] = Place(i + 1)'
    BY <1>n, <1>0, <1>8, <1>9 DEF RingInductive, Forward
  <2>2. n > 1 => next'[Place(0)'] = Place(1)'
    BY <1>8, <1>9
  <2>3. next'[Place(n - 1)'] = head
    BY <1>n, <1>0, <1>3, <1>5, <1>8, <1>9 DEF RingInductive, Forward
  <2> QED BY <1>3, <1>7, <2>1, <2>2, <2>3 DEF Forward
<1>13. Backward'
  <2>1. \A i \in 1 .. n - 1 : prev'[Place(i + 1)'] = Place(i)'
    BY SMTT(30), <1>n, <1>2, <1>5, <1>8 DEF RingInductive, Backward
  <2>2. prev'[Place(1)'] = Place(0)'
    BY <1>2, <1>3, <1>8
  <2> QED BY <1>3, <1>7, <2>1, <2>2 DEF Backward
<1>14. Writing'
  BY <1>n, <1>1, <1>2, <1>3, <1>5, <1>7 DEF RingInductive, Writing, Private
<1>15. Reading'
  <2>1. \A s \in Readers : s = r
    BY Zenon DEF QueueAssumption
  <2>2. node[r] \in Values \ unput
    BY <1>n, <1>0, <1>3 DEF RingInductive, Order
  <2>3. \A i \in 1 .. n - 1 : queue'[i] # node[r]
    BY SMTT(30), <1>n, <1>3, <1>7 DEF RingInductive, Order
  <2>4. \A w \in Writers : pc[w] \in {"lock", "link"} => node[w] # node[r]
    BY <1>n, <1>3 DEF RingInductive, Writing, Private
  <2> QED BY Zenon, <1>1, <1>2, <1>5, <1>7, <2>1, <2>2, <2>3, <2>4 DEF Reading, Private
<1>16. F!Get
  BY Zenon, <1>2, <1>3 DEF F!Get
<1> QED BY Zenon, <1>10, <1>11, <1>12, <1>13, <1>14, <1>15, <1>16 DEF RingInductive

(* The deleted node is in no place of the ring and in no other hands.      *)
LEMMA DeleteStep ==
    ASSUME QueueAssumption, RingInductive, NEW r \in Readers, get_delete(r)
    PROVE  RingInductive'
<1>n. PICK n \in Nat : n = Len(queue)
  BY Zenon, Places
<1>0. /\ \A i \in 1 .. n : Place(i) = queue[i]
      /\ \A i \in Nat : i \notin 1 .. n => Place(i) = head
      /\ \A i \in Nat : Place(i) \in Nodes
  BY Zenon, <1>n, Places
<1>1. /\ pc[r] = "data" /\ pc'[r] = "idle"
      /\ \A u \in (Writers \cup Readers) \ {r} : pc'[u] = pc[u]
      /\ node'[r] = Null /\ \A u \in (Writers \cup Readers) \ {r} : node'[u] = node[u]
  BY SMTT(30) DEF get_delete, At, RingInductive, RingTyped, QueueTypeOK
<1>2. /\ node[r] \in Values /\ node[r] # head /\ \A i \in 1 .. n : queue[i] # node[r]
      /\ \A w \in Writers : pc[w] \in {"lock", "link"} => node[w] # node[r]
  BY Zenon, <1>n, <1>1 DEF RingInductive, Reading, Private, QueueAssumption
<1>3. /\ UNCHANGED <<queue_lock, unput, received, queue>>
      /\ next' = [next EXCEPT ![node[r]] = Null] /\ prev' = [prev EXCEPT ![node[r]] = Null]
      /\ node' = [node EXCEPT ![r] = Null]
  BY Zenon, <1>2 DEF get_delete
<1>4. \A m \in Nodes \ {node[r]} : next'[m] = next[m] /\ prev'[m] = prev[m]
  BY Zenon, <1>2, <1>3 DEF RingInductive, RingTyped, QueueTypeOK, Nodes
<1>5. \A i \in Nat : Place(i)' = Place(i) /\ Place(i) # node[r]
  BY SMTT(30), <1>0, <1>2, <1>3 DEF Place
<1>6. \A i \in Nat : /\ next'[Place(i)'] = next[Place(i)]
                     /\ prev'[Place(i)'] = prev[Place(i)]
  BY SMTT(30), <1>0, <1>4, <1>5
<1>7. \A w \in Writers : pc'[w] = pc[w] /\ node'[w] = node[w]
  BY Zenon, <1>1 DEF QueueAssumption
<1>8. RingTyped'
  <2>1. /\ next' \in [Nodes -> Nodes \cup {Null}]
        /\ prev' \in [Nodes -> Nodes \cup {Null}]
        /\ node' \in [Writers \cup Readers -> Nodes \cup {Null}]
    BY Zenon, <1>3 DEF RingInductive, RingTyped, QueueTypeOK
  <2>2. unput \subseteq Values /\ received \in Seq(Nodes) /\ queue \in Seq(Values)
    BY Zenon DEF RingInductive, RingTyped, QueueTypeOK
  <2>3. pc' = [pc EXCEPT ![r] = "idle"] /\ r \notin Writers
    BY Zenon DEF get_delete, At, QueueAssumption
  <2> QED BY Zenon, <1>3, <2>1, <2>2, <2>3, TypesKept
<1>9. Order'
  BY Zenon, <1>3 DEF RingInductive, Order
<1>10. Forward'
  BY SMTT(30), <1>n, <1>3, <1>5, <1>6, <1>7 DEF RingInductive, Forward
<1>11. Backward'
  BY SMTT(30), <1>n, <1>1, <1>3, <1>5, <1>6, <1>7 DEF RingInductive, Backward
<1>12. Writing'
  <2>1. \A w \in Writers : pc[w] = "link" => prev'[node[w]] = prev[node[w]]
    BY Zenon, <1>2, <1>4 DEF RingInductive, Writing, Private, Nodes
  <2>2. prev'[head] = prev[head]
    BY SMTT(30), <1>2, <1>4 DEF Nodes
  <2> QED BY SMTT(30), <1>n, <1>3, <1>5, <1>7, <2>1, <2>2 DEF RingInductive, Writing, Private
<1>13. Reading'
  BY Zenon, <1>n, <1>1, <1>3 DEF QueueAssumption, Reading
<1> QED BY Zenon, <1>8, <1>9, <1>10, <1>11, <1>12, <1>13 DEF RingInductive

(* Every store keeps the invariant of the ring.                            *)
LEMMA RingInductiveHolds == ASSUME QueueAssumption PROVE QueueSpec => []RingInductive
<1>1. RingInductive /\ [QueueNext]_queueVars => RingInductive'
  <2> SUFFICES ASSUME RingInductive, [QueueNext]_queueVars PROVE RingInductive'
    BY Zenon
  <2>1. ASSUME NEW w \in Writers, Writer(w) PROVE RingInductive'
    BY Zenon, <2>1, PutStep, PrevStep, LinkStep, CloseStep, TailStep DEF Writer
  <2>2. ASSUME NEW r \in Readers, Reader(r) PROVE RingInductive'
    BY Zenon, <2>2, GetStep, TakeStep, UnprevStep, UnlinkStep, DeleteStep DEF Reader
  <2>3. CASE UNCHANGED queueVars
    <3>1. Forward' /\ Backward' /\ \A i \in Nat : Place(i)' = Place(i)
      BY Zenon, <2>3, RingKept DEF queueVars
    <3>2. RingTyped' /\ Order'
      BY Zenon, <2>3 DEF queueVars, RingInductive, RingTyped, QueueTypeOK, Order
    <3>3. Len(queue) \in Nat
      BY SMTT(30), Places
    <3>4. Writing' /\ Reading'
      BY <2>3, <3>1, <3>3 DEF queueVars, RingInductive, Writing, Reading, Private
    <3> QED BY Zenon, <3>1, <3>2, <3>4 DEF RingInductive
  <2> QED BY <2>1, <2>2, <2>3 DEF QueueNext
<1> QED BY <1>1, RingInit, PTL DEF QueueSpec

(* A store is a step of the abstract queue, or none.                       *)
LEMMA StepsMap ==
    ASSUME QueueAssumption, RingInductive, [QueueNext]_queueVars
    PROVE  [F!Next]_<<queue, received>>
<1>1. ASSUME NEW w \in Writers, Writer(w) PROVE F!Next \/ UNCHANGED <<queue, received>>
  <2>1. CASE put_link(w)
    BY Zenon, <2>1, LinkStep DEF F!Next
  <2>2. CASE ~put_link(w)
    BY Zenon, <1>1, <2>2 DEF Writer, put, put_prev, put_close, put_tail
  <2> QED BY Zenon, <2>1, <2>2
<1>2. ASSUME NEW r \in Readers, Reader(r) PROVE F!Next \/ UNCHANGED <<queue, received>>
  <2>1. CASE get_unlink(r)
    BY Zenon, <2>1, UnlinkStep DEF F!Next
  <2>2. CASE ~get_unlink(r)
    BY Zenon, <1>2, <2>2 DEF Reader, get, get_take, get_prev, get_delete
  <2> QED BY Zenon, <2>1, <2>2
<1> QED BY Zenon, <1>1, <1>2 DEF QueueNext, queueVars

(* For every number of writers and values, and the one reader that the     *)
(* queue is made for: the stores of put() and get() implement a first-in   *)
(* first-out queue, whatever order the threads execute them in.  get()     *)
(* never takes the head for a node, though empty() takes no lock, and the  *)
(* ring is closed whenever the lock is free (libk/srmw_queue.hpp).         *)
THEOREM QueueImplementsFifo == ASSUME QueueAssumption PROVE QueueSpec => QueueIsFifo
<1>1. RingInductive => GetAsserts /\ RingClosed
  <2> SUFFICES ASSUME RingInductive PROVE GetAsserts /\ RingClosed
    BY SMTT(30)
  <2>1. GetAsserts
    <3> SUFFICES ASSUME NEW r \in Readers PROVE node[r] # head
      BY Zenon DEF GetAsserts
    <3>1. pc[r] \in {"idle", "take", "unprev", "unlink", "data"}
      BY SMTT(30) DEF RingInductive, RingTyped
    <3>2. pc[r] \in {"unprev", "unlink"} => node[r] # head
      BY Places DEF RingInductive, Reading
    <3> QED BY Zenon, <3>1, <3>2 DEF RingInductive, Reading, Private, QueueAssumption
  <2>2. RingClosed
    <3> SUFFICES ASSUME queue_lock = Null PROVE
            \A i \in 0 .. Len(queue) : /\ next[Place(i)] = Place(i + 1)
                                        /\ prev[Place(i + 1)] = Place(i)
      BY Zenon DEF RingClosed
    <3>1. \A u \in Writers \cup Readers : pc[u] \notin {"close", "tail", "unlink"}
      BY Zenon DEF RingInductive, RingTyped, QueueTypeOK, QueueAssumption
    <3>2. Len(queue) \in Nat /\ Place(Len(queue) + 1) = head
      BY Places
    <3> QED BY <3>1, <3>2 DEF RingInductive, Forward, Backward
  <2> QED BY Zenon, <2>1, <2>2
<1>2. QueueInit => F!Init
  BY Zenon DEF QueueInit, F!Init
<1>3. RingInductive /\ [QueueNext]_queueVars => [F!Next]_<<queue, received>>
  BY StepsMap
<1> QED BY <1>1, <1>2, <1>3, RingInductiveHolds, PTL
   DEF QueueSpec, QueueIsFifo, ImplementsFifo, F!Spec
=============================================================================
