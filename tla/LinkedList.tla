------------------------------ MODULE LinkedList -------------------------------
(***************************************************************************)
(* Singly linked lists whose next pointers are fields of the elements, as  *)
(* the process list, the timer list and os/lib/list.c keep them.  An       *)
(* element that left a list keeps a next pointer of its own.               *)
(***************************************************************************)

\* The elements of Node a traversal from pointer c visits: the least set
\* that holds c and is closed under next; null ends a list.
Reachable(Node, null, next, c) ==
  {x \in Node : \A S \in SUBSET Node :
     (c \in S \cup {null} /\ \A y \in S : next[y] \in S \cup {null}) => x \in S}
================================================================================
