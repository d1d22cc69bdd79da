----------------------------- MODULE SRMWQueue -----------------------------
(***************************************************************************)
(* LibK::SRMWQueue (include/libk/srmw_queue.hpp), the queue for one reader *)
(* and many writers that carries log messages, interprocessor messages and *)
(* deferred calls: a ring of nodes through the member head, whose pointers *)
(* are changed under a spinlock, and an empty() that takes no lock.        *)
(*                                                                         *)
(* Every store to a pointer is a step of its own.  The node of a value is  *)
(* named by the value.  A reader loops as smp_process_messages(),          *)
(* process_deferred_queue() and print_log_messages() do: while the queue   *)
(* is not empty, get().                                                    *)
(***************************************************************************)
EXTENDS Naturals, Sequences

CONSTANTS
    Writers,
    Readers,  \* one, as the name of the class asks for
    Values,   \* values to be put, each by one call; also the nodes
    head,
    Null

QueueAssumption ==
    /\ head \notin Values /\ Null \notin Values \cup {head}
    /\ Writers \cap Readers = {} /\ Null \notin Writers \cup Readers
    /\ \A r, s \in Readers : r = s

Nodes == Values \cup {head}

VARIABLES
    next, prev,  \* pointers of the nodes; Null stands for an unset pointer
    queue_lock,  \* who holds the spinlock
    pc,          \* where each writer and reader is
    node,        \* the local variable node of put() and get()
    unput,       \* values that no writer has taken up yet
    received,    \* values that get() returned, in order
    queue        \* history: values that put() has linked and get() not yet unlinked

queueVars == <<next, prev, queue_lock, pc, node, unput, received, queue>>

(* Pointers point at nodes, and only a thread inside the lock is past it.  *)
QueueTypeOK ==
    /\ next \in [Nodes -> Nodes \cup {Null}] /\ prev \in [Nodes -> Nodes \cup {Null}]
    /\ queue_lock \in Writers \cup Readers \cup {Null}
    /\ pc \in [Writers \cup Readers ->
                 {"idle", "lock", "link", "close", "tail", "take", "unprev", "unlink", "data"}]
    /\ node \in [Writers \cup Readers -> Nodes \cup {Null}]
    /\ unput \subseteq Values
    /\ received \in Seq(Nodes) /\ queue \in Seq(Values)
    /\ \A t \in Writers \cup Readers :
        pc[t] \in {"link", "close", "tail", "unprev", "unlink"} => queue_lock = t

QueueInit ==
    /\ next = [n \in Nodes |-> IF n = head THEN head ELSE Null]
    /\ prev = next
    /\ queue_lock = Null
    /\ pc = [t \in Writers \cup Readers |-> "idle"]
    /\ node = [t \in Writers \cup Readers |-> Null]
    /\ unput = Values
    /\ received = <<>> /\ queue = <<>>

----------------------------------------------------------------------------
empty_single == next[head] = prev[head]
empty == next[head] = head

At(t, from, to) == pc[t] = from /\ pc' = [pc EXCEPT ![t] = to]

Lock(t) == queue_lock = Null /\ queue_lock' = t
Unlock(t) == queue_lock' = Null

(* put(): the node is allocated and filled in ...                          *)
put(w, v) ==
    /\ At(w, "idle", "lock") /\ v \in unput
    /\ unput' = unput \ {v}
    /\ node' = [node EXCEPT ![w] = v]
    /\ UNCHANGED <<next, prev, queue_lock, received, queue>>

(* ... under the lock, node->prev = head.prev ...                          *)
put_prev(w) ==
    /\ At(w, "lock", "link") /\ Lock(w)
    /\ prev' = [prev EXCEPT ![node[w]] = prev[head]]
    /\ UNCHANGED <<next, node, unput, received, queue>>

(* ... head.prev->next = node, which makes empty() false ...               *)
put_link(w) ==
    /\ At(w, "link", "close")
    /\ next' = [next EXCEPT ![prev[head]] = node[w]]
    /\ queue' = Append(queue, node[w])
    /\ UNCHANGED <<prev, queue_lock, node, unput, received>>

(* ... node->next = &head ...                                              *)
put_close(w) ==
    /\ At(w, "close", "tail")
    /\ next' = [next EXCEPT ![node[w]] = head]
    /\ UNCHANGED <<prev, queue_lock, node, unput, received, queue>>

(* ... and head.prev = node; unlock.                                       *)
put_tail(w) ==
    /\ At(w, "tail", "idle") /\ Unlock(w)
    /\ prev' = [prev EXCEPT ![head] = node[w]]
    /\ UNCHANGED <<next, node, unput, received, queue>>

(* The loop of the reader: empty() and the assertion of get() read the     *)
(* same pointer without the lock.                                          *)
get(r) ==
    /\ At(r, "idle", "take") /\ ~empty
    /\ UNCHANGED <<next, prev, queue_lock, node, unput, received, queue>>

(* get(): lock and take head.next ...                                      *)
get_take(r) ==
    /\ At(r, "take", "unprev") /\ Lock(r)
    /\ node' = [node EXCEPT ![r] = next[head]]
    /\ UNCHANGED <<next, prev, unput, received, queue>>

(* ... node->next->prev = &head ...                                        *)
get_prev(r) ==
    /\ At(r, "unprev", "unlink")
    /\ prev' = [prev EXCEPT ![next[node[r]]] = head]
    /\ UNCHANGED <<next, queue_lock, node, unput, received, queue>>

(* ... head.next = node->next; unlock ...                                  *)
get_unlink_twice(r) ==
    /\ At(r, "unlink", "data") /\ Unlock(r)
    /\ received' = Append(received, node[r]) /\ queue' = Tail(queue)
    /\ UNCHANGED <<next, prev, node, unput>>
get_unlink(r) ==
    /\ At(r, "unlink", "data") /\ Unlock(r)
    /\ next' = [next EXCEPT ![head] = next[node[r]]]
    /\ received' = Append(received, node[r]) /\ queue' = Tail(queue)
    /\ UNCHANGED <<prev, node, unput>>

(* ... and the node is deleted.                                            *)
get_delete(r) ==
    /\ At(r, "data", "idle")
    /\ next' = [next EXCEPT ![node[r]] = IF node[r] = head THEN @ ELSE Null]
    /\ prev' = [prev EXCEPT ![node[r]] = IF node[r] = head THEN @ ELSE Null]
    /\ node' = [node EXCEPT ![r] = Null]
    /\ UNCHANGED <<queue_lock, unput, received, queue>>

Writer(w) ==
    \/ \E v \in Values : put(w, v)
    \/ put_prev(w) \/ put_link(w) \/ put_close(w) \/ put_tail(w)
Reader(r) == get(r) \/ get_take(r) \/ get_prev(r) \/ get_unlink(r) \/ get_delete(r)

QueueNext == (\E w \in Writers : Writer(w)) \/ (\E r \in Readers : Reader(r))

QueueSpec == QueueInit /\ [][QueueNext]_queueVars

(* A thread inside the queue goes on (the spinlock turns interrupts off),  *)
(* one that waits for the spinlock polls it, and the reader comes back.    *)
QueueFairSpec ==
    /\ QueueSpec
    /\ \A w \in Writers : WF_queueVars(Writer(w) /\ pc[w] # "idle")
    /\ \A r \in Readers : WF_queueVars(Reader(r))

----------------------------------------------------------------------------
(* The ring of nodes implements the abstract queue: put() takes effect     *)
(* with its store to head.prev->next, get() with its store to head.next.   *)
F == INSTANCE Fifo
ImplementsFifo == F!Spec

(* The assertion of get() at the moment it counts: the node that get()     *)
(* takes under the lock is not the head of the ring.                       *)
GetAsserts == \A r \in Readers : node[r] # head

(* The places of the ring: the queued nodes, with the head on both sides.  *)
Place(i) == IF i \in 1 .. Len(queue) THEN queue[i] ELSE head

(* While nobody holds the lock, the ring goes from the head through the    *)
(* queued nodes in their order and back to the head, in both directions.   *)
RingClosed ==
    queue_lock = Null =>
        \A i \in 0 .. Len(queue) : next[Place(i)] = Place(i + 1) /\ prev[Place(i + 1)] = Place(i)

(* Pointer by pointer, the ring is a first-in first-out queue: get() never *)
(* takes the head of the ring for a node, the ring is closed between the   *)
(* locked sections, and no interleaving loses, repeats or reorders values. *)
QueueIsFifo == [](GetAsserts /\ RingClosed) /\ ImplementsFifo

(* Again and again all values that writers have taken up are received.     *)
EveryValueArrives ==
    []<>(\A v \in Values \ unput : \E k \in DOMAIN received : received[k] = v)
=============================================================================
