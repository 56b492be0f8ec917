------------------------------- MODULE Circular --------------------------------
(***************************************************************************)
(* A queue kept in an array used as a circle: n elements of slots, the     *)
(* first of them at index first, of an array of size elements.  This is    *)
(* how process.c keeps its events and how the users of ringbufindex keep   *)
(* their packets.                                                          *)
(***************************************************************************)
EXTENDS Naturals, Sequences

\* the index n places after first
Place(size, first, n) == (first + n) % size

\* the queue itself, oldest element first
Contents(size, slots, first, n) ==
  [i \in 1 .. n |-> slots[Place(size, first, i - 1)]]
================================================================================
