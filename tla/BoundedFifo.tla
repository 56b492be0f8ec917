------------------------------ MODULE BoundedFifo ------------------------------
(***************************************************************************)
(* What a bounded queue promises: elements leave in the order they came    *)
(* in, none is lost, none is invented, and at most Capacity are waiting.   *)
(* The event queue of the process kernel (os/sys/process.c) and the index  *)
(* ring buffer (os/lib/ringbufindex.c) are shown to implement it.          *)
(***************************************************************************)
EXTENDS Naturals, Sequences

CONSTANTS
  Elem,      (* what may be queued       *)
  Capacity   (* how much may be waiting  *)

VARIABLE queue

TypeOK == queue \in Seq(Elem)

Init == queue = << >>

Put(e) ==
  /\ Len(queue) < Capacity
  /\ queue' = Append(queue, e)

Get ==
  /\ queue # << >>
  /\ queue' = Tail(queue)

Next == Get \/ \E e \in Elem : Put(e)

Spec == Init /\ [][Next]_queue
================================================================================
