----------------------------- MODULE RingBufIndex ------------------------------
(***************************************************************************)
(* os/lib/ringbufindex.c: a ring buffer that hands out indices, shared     *)
(* without a lock by one producer and one consumer, one of them an         *)
(* interrupt handler (os/net/mac/tsch/tsch-queue.c, tsch-slot-operation.c).*)
(*                                                                         *)
(* The library keeps put_ptr and get_ptr only; the elements live in an     *)
(* array of the caller, filled between peek_put and put and used between   *)
(* peek_get and get.  Every call is one or more steps here: a step reads   *)
(* the other side's pointer, or writes its own, never both.                *)
(***************************************************************************)
EXTENDS Naturals, Sequences, Circular

CONSTANTS
  Elem,   (* the elements of the caller's array                           *)
  Size    (* ringbufindex_init's size, a power of two of at most 128      *)

ASSUME SizeAssumption == Size \in Nat \ {0}

VARIABLES
  put_ptr,   (* written by the producer only                              *)
  get_ptr,   (* written by the consumer only                              *)
  slots,     (* the caller's array                                        *)
  prod,      (* the producer's step                                       *)
  cons       (* the consumer's step                                       *)

vars == <<put_ptr, get_ptr, slots, prod, cons>>

Index == 0 .. Size - 1

\* (x - y) & mask and (x + 1) & mask, with mask = size - 1 for a power of two
Diff(x, y) == (x + Size - y) % Size
Succ(x) == (x + 1) % Size

\* mutant of Full
FullOffByOne == Diff(put_ptr, get_ptr) = Size
Full == Diff(put_ptr, get_ptr) = Size - 1
Empty == Diff(put_ptr, get_ptr) = 0

(* ringbufindex_init *)
Init ==
  /\ put_ptr = 0
  /\ get_ptr = 0
  /\ slots \in [Index -> Elem]
  /\ prod = "idle"
  /\ cons = "idle"

--------------------------------------------------------------------------------
(* The producer.                                                           *)

(* ringbufindex_peek_put: -1 when full, else the index of the free slot    *)
PeekPut ==
  /\ prod = "idle"
  /\ ~Full
  /\ prod' = "fill"
  /\ UNCHANGED <<put_ptr, get_ptr, slots, cons>>

(* the caller writes the element at the index it was given                 *)
Fill(e) ==
  /\ prod = "fill"
  /\ slots' = [slots EXCEPT ![put_ptr] = e]
  /\ prod' = "put"
  /\ UNCHANGED <<put_ptr, get_ptr, cons>>

(* the caller has no element for it after all                              *)
PutLeave ==
  /\ prod = "fill"
  /\ prod' = "idle"
  /\ UNCHANGED <<put_ptr, get_ptr, slots, cons>>

(* ringbufindex_put, its test: 0 when full, the element is not inserted    *)
PutTest ==
  /\ prod = "put"
  /\ prod' = IF Full THEN "idle" ELSE "advance"
  /\ UNCHANGED <<put_ptr, get_ptr, slots, cons>>

(* ringbufindex_put, its write                                             *)
PutAdvance ==
  /\ prod = "advance"
  /\ put_ptr' = Succ(put_ptr)
  /\ prod' = "idle"
  /\ UNCHANGED <<get_ptr, slots, cons>>

--------------------------------------------------------------------------------
(* The consumer.                                                           *)

(* ringbufindex_peek_get: -1 when empty, else the index of the first       *)
PeekGet ==
  /\ cons = "idle"
  /\ ~Empty
  /\ cons' = "use"
  /\ UNCHANGED <<put_ptr, get_ptr, slots, prod>>

(* the caller is done with the element; ringbufindex_get, its test         *)
GetTest ==
  /\ cons = "use"
  /\ cons' = IF Empty THEN "idle" ELSE "advance"
  /\ UNCHANGED <<put_ptr, get_ptr, slots, prod>>

(* ringbufindex_get, its write                                             *)
GetAdvance ==
  /\ cons = "advance"
  /\ get_ptr' = Succ(get_ptr)
  /\ cons' = "idle"
  /\ UNCHANGED <<put_ptr, slots, prod>>

Producer == PeekPut \/ PutLeave \/ (\E e \in Elem : Fill(e)) \/ PutTest \/ PutAdvance
Consumer == PeekGet \/ GetTest \/ GetAdvance
Next == Producer \/ Consumer

Spec == Init /\ [][Next]_vars

--------------------------------------------------------------------------------
(* Properties.                                                             *)

TypeOK ==
  /\ put_ptr \in Index
  /\ get_ptr \in Index
  /\ slots \in [Index -> Elem]
  /\ prod \in {"idle", "fill", "put", "advance"}
  /\ cons \in {"idle", "use", "advance"}

(* The slot the producer writes is never one the consumer may be reading:  *)
(* an element is stable from the moment put publishes it until get.        *)
SlotsDisjoint ==
  (prod # "idle" /\ cons # "idle") => put_ptr # get_ptr

(* A peek that found room, or an element, is still right when put or get   *)
(* tests again: neither can be refused after its peek succeeded.           *)
PeekStable ==
  /\ prod # "idle" => ~Full
  /\ cons # "idle" => ~Empty

(* The elements between get_ptr and put_ptr are a FIFO of Size - 1 places. *)
Waiting == Contents(Size, slots, get_ptr, Diff(put_ptr, get_ptr))
Fifo == INSTANCE BoundedFifo WITH queue <- Waiting, Capacity <- Size - 1
FifoSpec == Fifo!Spec
================================================================================
