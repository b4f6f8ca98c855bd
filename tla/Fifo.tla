-------------------------------- MODULE Fifo --------------------------------
(***************************************************************************)
(* What a bounded queue promises: values come out in the order in which    *)
(* they went in, each once, and never more than its capacity are inside.   *)
(***************************************************************************)
EXTENDS Naturals, Sequences

CONSTANTS Values, Capacity

VARIABLES
    queue,          \* what is inside
    last            \* what came out last

Init == queue = <<>> /\ last \notin Values

Put(v) == Len(queue) < Capacity /\ queue' = Append(queue, v) /\ UNCHANGED last

Get == queue # <<>> /\ last' = Head(queue) /\ queue' = Tail(queue)

Next == Get \/ \E v \in Values : Put(v)

Spec == Init /\ [][Next]_<<queue, last>>
=============================================================================
