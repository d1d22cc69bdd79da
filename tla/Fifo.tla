-------------------------------- MODULE Fifo --------------------------------
(***************************************************************************)
(* What LibK::SRMWQueue promises: values come out in the order in which    *)
(* they went in, each of them once.                                        *)
(***************************************************************************)
EXTENDS Sequences

CONSTANT Values

VARIABLES
    queue,     \* values that were put and not yet taken
    received   \* values that were taken, in this order

Init == queue = <<>> /\ received = <<>>

Put(v) == queue' = Append(queue, v) /\ UNCHANGED received

Get ==
    /\ queue # <<>>
    /\ queue' = Tail(queue)
    /\ received' = Append(received, Head(queue))

Next == Get \/ \E v \in Values : Put(v)

Spec == Init /\ [][Next]_<<queue, received>>
=============================================================================
