------------------------------- MODULE DataLemmas ------------------------------
(***************************************************************************)
(* The two data structures that the components share.  What a circular     *)
(* queue does to the sequence it stands for, for every size: a write to a  *)
(* free place is invisible, a write behind the last element appends it, an *)
(* advance of first removes the head.  And what a traversal of a linked    *)
(* list visits, from any pointer into it, when an element is put at its    *)
(* head or taken out of it.                                                *)
(***************************************************************************)
EXTENDS Circular, LinkedList, Integers, SequenceTheorems, TLAPS

(* Reduction modulo size of a number below 2 * size, the only one a        *)
(* circular buffer ever reduces.                                           *)
LEMMA ModOnce ==
  ASSUME NEW size \in Nat, size > 0, NEW x \in Nat, x < 2 * size
  PROVE  x % size = IF x < size THEN x ELSE x - size
<1>1. CASE x < size
  BY <1>1
<1>2. CASE x >= size
  BY <1>2
<1> QED
  BY <1>1, <1>2

(* A place is an index of the array, and different offsets below size are  *)
(* different places.                                                       *)
LEMMA PlaceIs ==
  ASSUME NEW size \in Nat, size > 0, NEW first \in 0 .. size - 1, NEW n \in 0 .. size - 1
  PROVE  /\ Place(size, first, n) \in 0 .. size - 1
         /\ Place(size, first, n) = IF first + n < size THEN first + n
                                                        ELSE first + n - size
         /\ \A m \in 0 .. size - 1 :
              m # n => Place(size, first, m) # Place(size, first, n)
<1>1. ASSUME NEW k \in 0 .. size - 1
      PROVE  Place(size, first, k) = IF first + k < size THEN first + k ELSE first + k - size
  <2> DEFINE x == first + k
  <2>1. x \in Nat /\ x < 2 * size
    OBVIOUS
  <2> HIDE DEF x
  <2>2. x % size = IF x < size THEN x ELSE x - size
    BY <2>1, ModOnce
  <2> QED
    BY <2>2 DEF Place, x
<1>2. \A k \in 0 .. size - 1 : Place(size, first, k) \in 0 .. size - 1
  BY <1>1
<1>3. \A m \in 0 .. size - 1 : m # n => Place(size, first, m) # Place(size, first, n)
  BY <1>1
<1> QED
  BY <1>1, <1>2, <1>3

(* Sequences given as functions, compared place by place.                  *)
LEMMA FunctionAppend ==
  ASSUME NEW S, NEW n \in Nat, NEW f \in [1 .. n -> S], NEW g \in [1 .. n + 1 -> S],
         \A i \in 1 .. n : g[i] = f[i]
  PROVE  g = Append(f, g[n + 1])
<1>1. f \in Seq(S) /\ Len(f) = n
  OBVIOUS
<1>2. g \in Seq(S) /\ Len(g) = n + 1 /\ g[n + 1] \in S
  OBVIOUS
<1>3. /\ Append(f, g[n + 1]) \in Seq(S)
      /\ Len(Append(f, g[n + 1])) = n + 1
      /\ \A i \in 1 .. n : Append(f, g[n + 1])[i] = f[i]
      /\ Append(f, g[n + 1])[n + 1] = g[n + 1]
  BY <1>1, <1>2
<1>4. \A i \in 1 .. n + 1 : Append(f, g[n + 1])[i] = g[i]
  <2> TAKE i \in 1 .. n + 1
  <2>1. CASE i \in 1 .. n
    BY <1>3, <2>1
  <2>2. CASE i = n + 1
    BY <1>3, <2>2
  <2> QED
    BY <2>1, <2>2
<1> QED
  BY <1>2, <1>3, <1>4, SeqEqual

LEMMA FunctionTail ==
  ASSUME NEW S, NEW n \in Nat, n > 0, NEW f \in [1 .. n -> S], NEW g \in [1 .. n - 1 -> S],
         \A i \in 1 .. n - 1 : g[i] = f[i + 1]
  PROVE  f # << >> /\ Head(f) = f[1] /\ g = Tail(f)
<1>1. f \in Seq(S) /\ Len(f) = n
  OBVIOUS
<1>2. f # << >> /\ Head(f) = f[1]
  BY <1>1
<1>3. g \in Seq(S) /\ Len(g) = n - 1
  <2>1. n - 1 \in Nat
    OBVIOUS
  <2> QED
    BY <2>1
<1>4. /\ Tail(f) \in Seq(S)
      /\ Len(Tail(f)) = n - 1
      /\ \A i \in 1 .. n - 1 : Tail(f)[i] = f[i + 1]
  BY <1>1, <1>2, HeadTailProperties
<1>5. g = Tail(f)
  BY <1>3, <1>4, SeqEqual
<1> QED
  BY <1>2, <1>5

(* The queue is a sequence of n elements.                                  *)
LEMMA ContentsIs ==
  ASSUME NEW S, NEW size \in Nat, size > 0, NEW slots \in [0 .. size - 1 -> S],
         NEW first \in 0 .. size - 1, NEW n \in 0 .. size
  PROVE  Contents(size, slots, first, n) \in [1 .. n -> S]
<1>1. \A i \in 1 .. n : slots[Place(size, first, i - 1)] \in S
  <2> SUFFICES ASSUME NEW i \in 1 .. n
               PROVE  Place(size, first, i - 1) \in 0 .. size - 1
    OBVIOUS
  <2>1. i - 1 \in 0 .. size - 1
    OBVIOUS
  <2> QED
    BY <2>1, PlaceIs
<1> QED
  BY <1>1 DEF Contents

(* A write to the place behind the last element changes no element.        *)
LEMMA WriteFree ==
  ASSUME NEW S, NEW size \in Nat, size > 0, NEW slots \in [0 .. size - 1 -> S],
         NEW first \in 0 .. size - 1, NEW n \in 0 .. size - 1, NEW e \in S
  PROVE  Contents(size, [slots EXCEPT ![Place(size, first, n)] = e], first, n)
           = Contents(size, slots, first, n)
<1> DEFINE after == [slots EXCEPT ![Place(size, first, n)] = e]
<1>1. \A i \in 1 .. n : /\ i - 1 \in 0 .. size - 1
                        /\ i - 1 # n
  OBVIOUS
<1>2. \A i \in 1 .. n : /\ Place(size, first, i - 1) \in 0 .. size - 1
                        /\ Place(size, first, i - 1) # Place(size, first, n)
  BY <1>1, PlaceIs
<1>3. \A i \in 1 .. n : after[Place(size, first, i - 1)] = slots[Place(size, first, i - 1)]
  BY <1>2
<1> QED
  BY <1>3 DEF Contents

(* Counting one element more appends the one in that place.               *)
LEMMA CountAppends ==
  ASSUME NEW S, NEW size \in Nat, size > 0, NEW slots \in [0 .. size - 1 -> S],
         NEW first \in 0 .. size - 1, NEW n \in 0 .. size - 1
  PROVE  /\ Contents(size, slots, first, n + 1)
              = Append(Contents(size, slots, first, n), slots[Place(size, first, n)])
         /\ Len(Contents(size, slots, first, n)) = n
<1> DEFINE old == Contents(size, slots, first, n)
           new == Contents(size, slots, first, n + 1)
<1>1. n \in Nat /\ n \in 0 .. size /\ n + 1 \in 0 .. size
  OBVIOUS
<1>2. old \in [1 .. n -> S] /\ Len(old) = n
  <2>1. old \in [1 .. n -> S]
    BY <1>1, ContentsIs
  <2> HIDE DEF old
  <2> QED
    BY <1>1, <2>1
<1>3. new \in [1 .. n + 1 -> S]
  BY <1>1, ContentsIs
<1>4. \A i \in 1 .. n : new[i] = old[i]
  BY <1>1 DEF Contents
<1>5. new[n + 1] = slots[Place(size, first, n)]
  <2>1. n + 1 \in 1 .. n + 1 /\ (n + 1) - 1 = n
    OBVIOUS
  <2> QED
    BY <2>1 DEF Contents
<1> HIDE DEF old, new
<1>6. new = Append(old, new[n + 1])
  BY <1>1, <1>2, <1>3, <1>4, FunctionAppend
<1> QED
  BY <1>2, <1>5, <1>6 DEF old, new

(* Advancing first and counting one element less removes the head.         *)
LEMMA AdvanceRemoves ==
  ASSUME NEW S, NEW size \in Nat, size > 0, NEW slots \in [0 .. size - 1 -> S],
         NEW first \in 0 .. size - 1, NEW n \in 1 .. size
  PROVE  /\ Contents(size, slots, first, n) # << >>
         /\ Head(Contents(size, slots, first, n)) = slots[first]
         /\ Contents(size, slots, Place(size, first, 1), n - 1)
              = Tail(Contents(size, slots, first, n))
<1> DEFINE second == Place(size, first, 1)
           old == Contents(size, slots, first, n)
           new == Contents(size, slots, second, n - 1)
<1>1. second = IF first = size - 1 THEN 0 ELSE first + 1
  <2> DEFINE x == first + 1
  <2>1. x \in Nat /\ x < 2 * size
    OBVIOUS
  <2> HIDE DEF x
  <2>2. x % size = IF x < size THEN x ELSE x - size
    BY <2>1, ModOnce
  <2> QED
    BY <2>2 DEF Place, x
<1>2. second \in 0 .. size - 1
  BY <1>1
<1>3. n \in Nat /\ n > 0 /\ n \in 0 .. size /\ n - 1 \in 0 .. size
  OBVIOUS
<1>4. old \in [1 .. n -> S]
  BY <1>3, ContentsIs
<1>5. new \in [1 .. n - 1 -> S]
  <2> HIDE DEF second
  <2> QED
    BY <1>2, <1>3, ContentsIs
<1>6. ASSUME NEW i \in 1 .. n - 1
      PROVE  new[i] = old[i + 1]
  <2>1. /\ i - 1 \in 0 .. size - 1 /\ i \in 0 .. size - 1
        /\ i + 1 \in 1 .. n /\ (i + 1) - 1 = i
    OBVIOUS
  <2>2. Place(size, first, i) = IF first + i < size THEN first + i ELSE first + i - size
    BY <2>1, PlaceIs
  <2>3. Place(size, second, i - 1)
          = IF second + (i - 1) < size THEN second + (i - 1) ELSE second + (i - 1) - size
    <3> HIDE DEF second
    <3> QED
      BY <1>2, <2>1, PlaceIs
  <2>4. Place(size, second, i - 1) = Place(size, first, i)
    <3> HIDE DEF second
    <3> QED
      BY <1>1, <2>2, <2>3
  <2>5. new[i] = slots[Place(size, second, i - 1)]
    <3> HIDE DEF second
    <3> QED
      BY DEF Contents
  <2>6. old[i + 1] = slots[Place(size, first, i)]
    BY <2>1 DEF Contents
  <2> QED
    BY <2>4, <2>5, <2>6
<1>7. old[1] = slots[first]
  <2>1. Place(size, first, 0) = first
    BY PlaceIs
  <2>2. 1 \in 1 .. n /\ 1 - 1 = 0
    OBVIOUS
  <2> QED
    BY <2>1, <2>2 DEF Contents
<1> HIDE DEF old, new
<1>8. old # << >> /\ Head(old) = old[1] /\ new = Tail(old)
  BY <1>3, <1>4, <1>5, <1>6, FunctionTail
<1> QED
  BY <1>7, <1>8 DEF old, new

--------------------------------------------------------------------------------
(* Linked lists.  No element before c is visited from c, so nothing is     *)
(* known about elements that left a list and kept a pointer into it except *)
(* what follows from the pointers.                                         *)

LEMMA ReachNull ==
  ASSUME NEW Node, NEW null, NEW next
  PROVE  Reachable(Node, null, next, null) = {}
<1>1. {} \in SUBSET Node /\ null \in {} \cup {null} /\ \A y \in {} : next[y] \in {} \cup {null}
  OBVIOUS
<1> QED
  BY <1>1, Zenon DEF Reachable

(* What is visited from a pointer is the least set that holds it and is    *)
(* closed under next.                                                      *)
LEMMA ReachLeast ==
  ASSUME NEW Node, NEW null, NEW next, NEW c, NEW S \in SUBSET Node,
         c \in S \cup {null}, \A y \in S : next[y] \in S \cup {null}
  PROVE  Reachable(Node, null, next, c) \subseteq S
BY DEF Reachable

LEMMA ReachClosed ==
  ASSUME NEW Node, NEW null, null \notin Node, NEW next \in [Node -> Node \cup {null}],
         NEW c \in Node \cup {null}
  PROVE  LET R == Reachable(Node, null, next, c)
         IN  R \subseteq Node /\ c \in R \cup {null} /\ \A y \in R : next[y] \in R \cup {null}
<1> DEFINE R == Reachable(Node, null, next, c)
<1>1. R \subseteq Node
  BY DEF Reachable
<1>2. c \in R \cup {null}
  BY DEF Reachable
<1>3. ASSUME NEW y \in R, next[y] # null
      PROVE  next[y] \in R
  <2>1. next[y] \in Node
    BY <1>1, <1>3
  <2>2. ASSUME NEW S \in SUBSET Node, c \in S \cup {null}, \A z \in S : next[z] \in S \cup {null}
        PROVE  next[y] \in S
    <3>1. y \in S
      BY <1>3, <2>2 DEF Reachable
    <3> QED
      BY <1>3, <2>2, <3>1
  <2> QED
    BY <2>1, <2>2 DEF Reachable
<1> QED
  BY <1>1, <1>2, <1>3

(* A traversal visits the element it stands on, and what it visits from    *)
(* the next one.                                                           *)
LEMMA ReachStep ==
  ASSUME NEW Node, NEW null, null \notin Node, NEW next \in [Node -> Node \cup {null}],
         NEW c \in Node
  PROVE  Reachable(Node, null, next, c) = {c} \cup Reachable(Node, null, next, next[c])
<1> DEFINE R == Reachable(Node, null, next, c)
           T == Reachable(Node, null, next, next[c])
<1>1. next[c] \in Node \cup {null}
  OBVIOUS
<1>2. T \subseteq Node /\ next[c] \in T \cup {null} /\ \A y \in T : next[y] \in T \cup {null}
  BY <1>1, ReachClosed
<1>3. R \subseteq Node /\ c \in R \cup {null} /\ \A y \in R : next[y] \in R \cup {null}
  BY ReachClosed
<1> HIDE DEF R, T
<1>4. R \subseteq {c} \cup T
  <2> DEFINE S == {c} \cup T
  <2>1. S \in SUBSET Node /\ c \in S \cup {null} /\ \A y \in S : next[y] \in S \cup {null}
    BY <1>2
  <2> HIDE DEF S
  <2>2. R \subseteq S
    BY <2>1, ReachLeast DEF R
  <2> QED
    BY <2>2 DEF S
<1>5. T \subseteq R
  <2>1. R \in SUBSET Node /\ next[c] \in R \cup {null}
    BY <1>3
  <2> QED
    BY <1>3, <2>1, ReachLeast DEF T
<1> QED
  BY <1>3, <1>4, <1>5 DEF R, T

(* A traversal from a visited element visits nothing else.                 *)
LEMMA ReachFurther ==
  ASSUME NEW Node, NEW null, null \notin Node, NEW next \in [Node -> Node \cup {null}],
         NEW c \in Node \cup {null}, NEW d \in Reachable(Node, null, next, c) \cup {null}
  PROVE  /\ Reachable(Node, null, next, d) \subseteq Reachable(Node, null, next, c)
         /\ d # null => next[d] \in Reachable(Node, null, next, c) \cup {null}
<1>1. LET R == Reachable(Node, null, next, c)
      IN  R \subseteq Node /\ \A y \in R : next[y] \in R \cup {null}
  BY ReachClosed
<1> QED
  BY <1>1, ReachLeast

(* What is visited depends on the next pointers of what is visited only.   *)
LEMMA ReachSame ==
  ASSUME NEW Node, NEW null, null \notin Node, NEW next \in [Node -> Node \cup {null}],
         NEW next2 \in [Node -> Node \cup {null}], NEW c \in Node \cup {null},
         \A y \in Reachable(Node, null, next, c) : next2[y] = next[y]
  PROVE  Reachable(Node, null, next2, c) = Reachable(Node, null, next, c)
<1> DEFINE R == Reachable(Node, null, next, c)
           T == Reachable(Node, null, next2, c)
<1>1. R \subseteq Node /\ c \in R \cup {null} /\ \A y \in R : next[y] \in R \cup {null}
  BY ReachClosed
<1>2. T \subseteq Node /\ c \in T \cup {null} /\ \A y \in T : next2[y] \in T \cup {null}
  BY ReachClosed
<1>3. \A y \in R : next2[y] = next[y]
  OBVIOUS
<1> HIDE DEF R, T
<1>4. T \subseteq R
  <2>1. \A y \in R : next2[y] \in R \cup {null}
    BY <1>1, <1>3
  <2> QED
    BY <1>1, <2>1, ReachLeast DEF T
<1>5. R \subseteq T
  <2>1. \A y \in T : next[y] \in T \cup {null}
    BY <1>2, <1>3, <1>4
  <2> QED
    BY <1>2, <2>1, ReachLeast DEF R
<1> QED
  BY <1>4, <1>5 DEF R, T

(* An element x is taken out of a list: those of On that stood before it   *)
(* are linked to the one after it.  Wherever a traversal stands, also on   *)
(* an element that left the list before, it goes on to visit what it would *)
(* have, except perhaps x.                                                 *)
Without(Node, On, next, x) ==
  [y \in Node |-> IF y \in On /\ next[y] = x THEN next[x] ELSE next[y]]

LEMMA ReachWithout ==
  ASSUME NEW Node, NEW null, null \notin Node, NEW next \in [Node -> Node \cup {null}],
         NEW On, NEW x \in Node, NEW c \in Node \cup {null}
  PROVE  /\ Reachable(Node, null, Without(Node, On, next, x), c) \subseteq Reachable(Node, null, next, c)
         /\ Reachable(Node, null, next, c)
              \subseteq Reachable(Node, null, Without(Node, On, next, x), c) \cup {x}
<1> DEFINE next2 == Without(Node, On, next, x)
           R == Reachable(Node, null, next, c)
           T == Reachable(Node, null, next2, c)
<1>1. R \subseteq Node /\ c \in R \cup {null} /\ \A y \in R : next[y] \in R \cup {null}
  BY ReachClosed
<1>2. /\ next2 \in [Node -> Node \cup {null}]
      /\ \A y \in Node : next2[y] = next[y] \/ (next[y] = x /\ next2[y] = next[x])
  BY DEF Without
<1> HIDE DEF next2
<1>3. T \subseteq Node /\ c \in T \cup {null} /\ \A y \in T : next2[y] \in T \cup {null}
  BY <1>2, ReachClosed
<1> HIDE DEF R, T
<1>4. T \subseteq R
  <2>1. ASSUME NEW y \in R
        PROVE  next2[y] \in R \cup {null}
    <3>1. next[y] \in R \cup {null} /\ y \in Node
      BY <1>1
    <3>2. CASE next2[y] = next[y]
      BY <3>1, <3>2
    <3>3. CASE next[y] = x /\ next2[y] = next[x]
      BY <1>1, <3>1, <3>3
    <3> QED
      BY <1>2, <3>1, <3>2, <3>3
  <2> QED
    BY <1>1, <2>1, ReachLeast DEF T
<1>5. R \subseteq T \cup {x}
  <2> DEFINE S == IF next[x] \in T \cup {null} THEN T \cup {x} ELSE T
  <2>1. S \in SUBSET Node /\ c \in S \cup {null}
    BY <1>3
  <2>2. ASSUME NEW y \in S
        PROVE  next[y] \in S \cup {null}
    <3>1. CASE y \in T
      <4>1. next2[y] \in T \cup {null} /\ y \in Node
        BY <1>3, <3>1
      <4>2. next[y] \in T \cup {null} \/ (next[y] = x /\ next[x] \in T \cup {null})
        BY <1>2, <4>1
      <4> QED
        BY <4>2
    <3>2. CASE y = x /\ next[x] \in T \cup {null}
      BY <3>2
    <3> QED
      BY <2>2, <3>1, <3>2
  <2> HIDE DEF S
  <2>3. R \subseteq S
    BY <2>1, <2>2, ReachLeast DEF R
  <2> QED
    BY <2>3 DEF S
<1> QED
  BY <1>4, <1>5 DEF R, T, next2

(* No element of the list from h is visited again from the one after it.   *)
Acyclic(Node, null, next, h) ==
  \A y \in Reachable(Node, null, next, h) : y \notin Reachable(Node, null, next, next[y])

(* The list without x, if x is on it and is visited once: nothing else is  *)
(* lost, and it still has no cycle.                                        *)
LEMMA ListWithout ==
  ASSUME NEW Node, NEW null, null \notin Node, NEW next \in [Node -> Node \cup {null}],
         NEW h \in Node \cup {null}, Acyclic(Node, null, next, h), NEW x \in Node,
         x \notin Reachable(Node, null, next, next[x])
  PROVE  LET On == Reachable(Node, null, next, h)
             next2 == Without(Node, On, next, x)
             h2 == IF h = x THEN next[x] ELSE h
         IN  /\ Reachable(Node, null, next2, h2) = On \ {x}
             /\ Acyclic(Node, null, next2, h2)
<1> DEFINE On == Reachable(Node, null, next, h)
           next2 == Without(Node, On, next, x)
           h2 == IF h = x THEN next[x] ELSE h
           T == Reachable(Node, null, next2, h2)
<1>1. On \subseteq Node /\ h \in On \cup {null} /\ \A y \in On : next[y] \in On \cup {null}
  BY ReachClosed
<1>2. /\ next2 \in [Node -> Node \cup {null}]
      /\ \A y \in On : next2[y] = IF next[y] = x THEN next[x] ELSE next[y]
  BY <1>1 DEF Without
<1>3. next[x] # x
  <2>1. x \in Reachable(Node, null, next, x)
    BY ReachClosed
  <2> QED
    BY <2>1
<1>4. h2 \in Node \cup {null}
  OBVIOUS
<1>5. T \subseteq On \ {x}
  <2> DEFINE S == On \ {x}
  <2>1. S \in SUBSET Node /\ h2 \in S \cup {null}
    BY <1>1, <1>3
  <2>2. \A y \in S : next2[y] \in S \cup {null}
    BY <1>1, <1>2, <1>3
  <2> HIDE DEF S, next2, h2
  <2>3. T \subseteq S
    BY <2>1, <2>2, ReachLeast
  <2> QED
    BY <2>3 DEF S
<1>6. \A c \in Node \cup {null} :
        /\ Reachable(Node, null, next2, c) \subseteq Reachable(Node, null, next, c)
        /\ Reachable(Node, null, next, c) \subseteq Reachable(Node, null, next2, c) \cup {x}
  BY ReachWithout
<1>7. On \subseteq T \cup {x}
  <2>1. CASE h = x
    <3>1. On = {x} \cup Reachable(Node, null, next, next[x])
      BY <2>1, ReachStep
    <3>2. T = Reachable(Node, null, next2, next[x])
      BY <2>1
    <3>3. next[x] \in Node \cup {null}
      OBVIOUS
    <3> HIDE DEF On, T, next2
    <3> QED
      BY <1>6, <3>1, <3>2, <3>3
  <2>2. CASE h # x
    <3>1. T = Reachable(Node, null, next2, h)
      BY <2>2
    <3> HIDE DEF T, next2
    <3> QED
      BY <1>6, <3>1
  <2> QED
    BY <2>1, <2>2
<1>8. T = On \ {x}
  BY <1>5, <1>7
<1>9. ASSUME NEW y \in T
      PROVE  y \notin Reachable(Node, null, next2, next2[y])
  <2>1. y \in On /\ y \in Node /\ next[y] \in Node \cup {null} /\ next[x] \in Node \cup {null}
    BY <1>1, <1>5, <1>9
  <2>2. y \notin Reachable(Node, null, next, next[y])
    BY <2>1 DEF Acyclic
  <2> HIDE DEF T, next2, On, h2
  <2>3. CASE next2[y] = next[y]
    BY <1>6, <2>1, <2>2, <2>3
  <2>4. CASE next[y] = x /\ next2[y] = next[x]
    <3>1. Reachable(Node, null, next, next[x]) \subseteq Reachable(Node, null, next, x)
      BY ReachStep
    <3> QED
      BY <1>6, <2>1, <2>2, <2>4, <3>1
  <2> QED
    BY <1>2, <2>1, <2>3, <2>4
<1> HIDE DEF next2, h2, On
<1>10. Acyclic(Node, null, next2, h2)
  BY <1>9 DEF Acyclic
<1> QED
  BY <1>8, <1>10 DEF next2, h2, On

(* A new element at the head: a traversal that would not visit it goes on  *)
(* as before.                                                              *)
LEMMA ListPush ==
  ASSUME NEW Node, NEW null, null \notin Node, NEW next \in [Node -> Node \cup {null}],
         NEW h \in Node \cup {null}, Acyclic(Node, null, next, h), NEW x \in Node,
         x \notin Reachable(Node, null, next, h),
         NEW next2 \in [Node -> Node \cup {null}], next2[x] = h,
         \A y \in Node \ {x} : next2[y] = next[y]
  PROVE  /\ Reachable(Node, null, next2, x) = {x} \cup Reachable(Node, null, next, h)
         /\ Acyclic(Node, null, next2, x)
         /\ \A c \in Node \cup {null} :
              x \notin Reachable(Node, null, next, c)
                => Reachable(Node, null, next2, c) = Reachable(Node, null, next, c)
<1> DEFINE On == Reachable(Node, null, next, h)
<1>1. next2[x] = h /\ \A y \in Node \ {x} : next2[y] = next[y]
  OBVIOUS
<1>2. ASSUME NEW c \in Node \cup {null}, x \notin Reachable(Node, null, next, c)
      PROVE  Reachable(Node, null, next2, c) = Reachable(Node, null, next, c)
  <2>1. \A y \in Reachable(Node, null, next, c) : y \in Node \ {x}
    BY <1>2 DEF Reachable
  <2> QED
    BY <1>1, <2>1, ReachSame
<1>3. Reachable(Node, null, next2, x) = {x} \cup On
  <2>1. Reachable(Node, null, next2, x) = {x} \cup Reachable(Node, null, next2, next2[x])
    BY <1>1, ReachStep
  <2> QED
    BY <1>1, <1>2, <2>1
<1>4. ASSUME NEW y \in {x} \cup On
      PROVE  y \notin Reachable(Node, null, next2, next2[y])
  <2>1. CASE y = x
    BY <1>1, <1>2, <2>1
  <2>2. CASE y # x
    <3>1. y \in On /\ y \in Node \ {x} /\ next2[y] = next[y]
      BY <1>1, <1>4, <2>2 DEF Reachable
    <3>2. y \notin Reachable(Node, null, next, next[y])
      BY <3>1 DEF Acyclic
    <3>3. Reachable(Node, null, next, next[y]) \subseteq On /\ next[y] \in Node \cup {null}
      BY <3>1, ReachFurther, ReachClosed
    <3> QED
      BY <1>2, <3>1, <3>2, <3>3
  <2> QED
    BY <2>1, <2>2
<1>5. Acyclic(Node, null, next2, x)
  BY <1>3, <1>4 DEF Acyclic
<1> QED
  BY <1>2, <1>3, <1>5

(* Of two elements of a list one comes after the other.                    *)
LEMMA ListOrder ==
  ASSUME NEW Node, NEW null, null \notin Node, NEW next \in [Node -> Node \cup {null}],
         NEW h \in Node \cup {null},
         NEW x \in Reachable(Node, null, next, h), NEW y \in Reachable(Node, null, next, h)
  PROVE  x \in Reachable(Node, null, next, y) \/ y \in Reachable(Node, null, next, x)
<1> DEFINE On == Reachable(Node, null, next, h)
           S == {z \in On : x \in Reachable(Node, null, next, z) \/ z \in Reachable(Node, null, next, x)}
<1>1. On \subseteq Node /\ h \in On \cup {null} /\ \A z \in On : next[z] \in On \cup {null}
  BY ReachClosed
<1>2. S \in SUBSET Node /\ h \in S \cup {null}
  BY <1>1
<1>3. ASSUME NEW z \in S
      PROVE  next[z] \in S \cup {null}
  <2>1. z \in Node /\ x \in Node /\ next[z] \in On \cup {null}
    BY <1>1
  <2>2. CASE z \in Reachable(Node, null, next, x)
    <3>1. next[z] \in Reachable(Node, null, next, x) \cup {null}
      BY <2>1, <2>2, ReachClosed
    <3> QED
      BY <2>1, <3>1
  <2>3. CASE z # x /\ x \in Reachable(Node, null, next, z)
    <3>1. x \in Reachable(Node, null, next, next[z])
      BY <2>1, <2>3, ReachStep
    <3> QED
      BY <2>1, <3>1
  <2>4. x \in Reachable(Node, null, next, x)
    BY <2>1, ReachStep
  <2> QED
    BY <2>2, <2>3, <2>4
<1> HIDE DEF S
<1>4. On \subseteq S
  BY <1>2, <1>3, ReachLeast
<1> QED
  BY <1>4 DEF S

(* No two elements of a list point to the same one, and none to the head.  *)
LEMMA ListBefore ==
  ASSUME NEW Node, NEW null, null \notin Node, NEW next \in [Node -> Node \cup {null}],
         NEW h \in Node \cup {null}, Acyclic(Node, null, next, h),
         NEW y \in Reachable(Node, null, next, h), next[y] # null
  PROVE  /\ next[y] # h
         /\ \A z \in Reachable(Node, null, next, h) : next[z] = next[y] => z = y
<1>1. Reachable(Node, null, next, h) \subseteq Node
  BY ReachClosed
<1>2. \A z \in Reachable(Node, null, next, h) : z \notin Reachable(Node, null, next, next[z])
  BY DEF Acyclic
<1>3. ASSUME NEW z \in Reachable(Node, null, next, h), next[z] = next[y], z # y
      PROVE  FALSE
  <2>1. z \in Reachable(Node, null, next, y) \/ y \in Reachable(Node, null, next, z)
    BY ListOrder
  <2>2. /\ Reachable(Node, null, next, y) = {y} \cup Reachable(Node, null, next, next[y])
        /\ Reachable(Node, null, next, z) = {z} \cup Reachable(Node, null, next, next[z])
    BY <1>1, ReachStep
  <2> QED
    BY <1>2, <1>3, <2>1, <2>2
<1> QED
  BY <1>2, <1>3

(* The first element of S that is visited from c.                          *)
FirstOf(Node, null, next, S, c) ==
  LET f == S \cap Reachable(Node, null, next, c)
  IN  IF f = {} THEN null ELSE CHOOSE x \in f : f \subseteq Reachable(Node, null, next, x)

LEMMA FirstIs ==
  ASSUME NEW Node, NEW null, null \notin Node, NEW next \in [Node -> Node \cup {null}],
         NEW S, NEW c \in Node \cup {null}
  PROVE  LET f == S \cap Reachable(Node, null, next, c)
             x == FirstOf(Node, null, next, S, c)
         IN  IF f = {} THEN x = null ELSE x \in f /\ f \subseteq Reachable(Node, null, next, x)
<1> DEFINE R == Reachable(Node, null, next, c)
           f == S \cap R
           B == {y \in R : f \subseteq Reachable(Node, null, next, y)}
<1>1. R \subseteq Node /\ c \in R \cup {null} /\ \A y \in R : next[y] \in R \cup {null}
  BY ReachClosed
<1>2. ASSUME f # {}, B \cap f = {}
      PROVE  FALSE
  <2>1. c # null
    BY <1>2, ReachNull
  <2>2. B \in SUBSET Node /\ c \in B
    BY <1>1, <2>1
  <2>3. ASSUME NEW y \in B
        PROVE  next[y] \in B \cup {null}
    <3>1. y \in Node /\ next[y] \in R \cup {null} /\ f \subseteq Reachable(Node, null, next, y) /\ y \notin f
      BY <1>1, <1>2
    <3>2. Reachable(Node, null, next, y) = {y} \cup Reachable(Node, null, next, next[y])
      BY <3>1, ReachStep
    <3>3. f \subseteq Reachable(Node, null, next, next[y])
      BY <3>1, <3>2
    <3> QED
      BY <3>1, <3>3
  <2> HIDE DEF B
  <2>4. R \subseteq B
    BY <2>2, <2>3, ReachLeast
  <2> QED
    BY <1>2, <2>4
<1> QED
  BY <1>2 DEF FirstOf

(* What stays of a list when each element of S is linked to the next of S. *)
LEMMA ListOnly ==
  ASSUME NEW Node, NEW null, null \notin Node, NEW next \in [Node -> Node \cup {null}],
         NEW h \in Node \cup {null}, Acyclic(Node, null, next, h),
         NEW S, S \subseteq Reachable(Node, null, next, h),
         NEW next2 \in [Node -> Node \cup {null}],
         \A x \in S : next2[x] = FirstOf(Node, null, next, S, next[x])
  PROVE  /\ Reachable(Node, null, next2, FirstOf(Node, null, next, S, h)) = S
         /\ Acyclic(Node, null, next2, FirstOf(Node, null, next, S, h))
<1> DEFINE V(c) == Reachable(Node, null, next, c)
           T(c) == Reachable(Node, null, next2, c)
           F(c) == FirstOf(Node, null, next, S, c)
           On == V(h)
<1>1. On \subseteq Node /\ h \in On \cup {null} /\ \A y \in On : next[y] \in On \cup {null}
  BY ReachClosed
<1>2. \A c \in Node \cup {null} :
        IF S \cap V(c) = {} THEN F(c) = null ELSE F(c) \in S \cap V(c) /\ S \cap V(c) \subseteq V(F(c))
  BY FirstIs
<1>3. \A y \in On : V(y) = {y} \cup V(next[y]) /\ y \notin V(next[y])
  BY <1>1, ReachStep DEF Acyclic
<1>4. \A c \in On \cup {null} : V(c) \subseteq On
  <2>1. V(null) = {}
    BY ReachNull
  <2>2. \A c \in On : V(c) \subseteq On
    BY ReachFurther
  <2> QED
    BY <2>1, <2>2
<1>5. \A x \in S : x \in On /\ next2[x] = F(next[x])
  OBVIOUS
<1>7. \A c, y \in Node \cup {null} : y \in V(c) => V(y) \subseteq V(c)
  BY ReachFurther
<1>8. \A c \in Node \cup {null} : V(c) \subseteq Node
  BY ReachClosed
\* an element of S is the first of S from itself
<1>9. ASSUME NEW x \in S
      PROVE  F(x) = x
  <2>1. x \in On /\ x \in Node /\ next[x] \in Node \cup {null}
    BY <1>1
  <2>2. x \in S \cap V(x)
    BY <1>3, <2>1
  <2> HIDE DEF F, V
  <2>3. F(x) \in S /\ F(x) \in V(x) /\ x \in V(F(x))
    BY <1>2, <2>1, <2>2
  <2>4. ASSUME F(x) # x
        PROVE  FALSE
    <3>1. F(x) \in V(next[x])
      BY <1>3, <2>1, <2>3, <2>4
    <3>2. V(F(x)) \subseteq V(next[x])
      BY <1>1, <1>5, <1>7, <2>1, <2>3, <3>1
    <3> QED
      BY <1>3, <2>1, <2>3, <3>2
  <2> QED
    BY <2>4
\* what is not in S is passed over
<1>10. ASSUME NEW y \in On, y \notin S
       PROVE  F(y) = F(next[y])
  <2> DEFINE G(f) == IF f = {} THEN null ELSE CHOOSE x \in f : f \subseteq V(x)
  <2>1. S \cap V(y) = S \cap V(next[y])
    BY <1>3, <1>10
  <2>2. F(y) = G(S \cap V(y)) /\ F(next[y]) = G(S \cap V(next[y]))
    BY DEF FirstOf
  <2> HIDE DEF G, F, V
  <2> QED
    BY <2>1, <2>2
<1>11. F(null) = null
  BY <1>2, ReachNull
<1>12. ASSUME NEW c \in On \cup {null}
       PROVE  T(F(c)) = S \cap V(c)
  <2> DEFINE U == S \cap V(c)
  <2>1. c \in Node \cup {null}
    BY <1>1
  <2>2. T(F(c)) \subseteq U
    <3>1. U \in SUBSET Node /\ F(c) \in U \cup {null}
      BY <1>1, <1>2, <2>1
    <3>2. ASSUME NEW y \in U
          PROVE  next2[y] \in U \cup {null}
      <4>1. y \in On /\ y \in Node /\ next[y] \in Node \cup {null} /\ next2[y] = F(next[y])
        BY <1>1
      <4>2. V(y) \subseteq V(c) /\ V(next[y]) \subseteq V(y)
        BY <1>3, <1>7, <2>1, <4>1
      <4> HIDE DEF F, V
      <4> QED
        BY <1>2, <4>1, <4>2
    <3> HIDE DEF U, F, V
    <3> QED
      BY <3>1, <3>2, ReachLeast
  <2>3. U \subseteq T(F(c))
    <3> DEFINE W == {y \in V(c) : IF y \in S THEN y \in T(F(c)) ELSE F(y) \in T(F(c)) \cup {null}}
    <3>1. F(c) \in Node \cup {null}
      BY <1>1, <1>2, <2>1
    <3>2. F(c) \in T(F(c)) \cup {null} /\ \A y \in T(F(c)) : next2[y] \in T(F(c)) \cup {null}
      BY <3>1, ReachClosed
    <3>3. V(c) \subseteq Node /\ c \in V(c) \cup {null} /\ \A y \in V(c) : next[y] \in V(c) \cup {null}
      BY <2>1, ReachClosed
    <3>4. V(c) \subseteq On
      BY <1>4
    <3> HIDE DEF F, V, T
    <3>5. c \in W \cup {null}
      BY <1>9, <3>2, <3>3
    <3>6. ASSUME NEW y \in W
          PROVE  next[y] \in W \cup {null}
      <4>1. next[y] \in V(c) \cup {null} /\ y \in On
        BY <3>3, <3>4
      <4>2. F(next[y]) \in T(F(c)) \cup {null}
        BY <1>5, <1>10, <3>2, <4>1
      <4> QED
        BY <1>9, <4>1, <4>2
    <3>7. W \in SUBSET Node
      BY <3>3
    <3> HIDE DEF W
    <3>8. V(c) \subseteq W
      BY <3>5, <3>6, <3>7, ReachLeast DEF V
    <3> QED
      BY <3>8 DEF W
  <2> QED
    BY <2>2, <2>3
<1>13. T(F(h)) = S
  <2>1. S \subseteq V(h)
    OBVIOUS
  <2> HIDE DEF T, F, V
  <2> QED
    BY <1>1, <1>12, <2>1
<1>14. ASSUME NEW y \in S
       PROVE  y \notin T(next2[y])
  <2>1. y \in On /\ next2[y] = F(next[y]) /\ next[y] \in On \cup {null}
    BY <1>1
  <2> HIDE DEF T, F, V
  <2> QED
    BY <1>3, <1>12, <2>1
<1> QED
  BY <1>13, <1>14 DEF Acyclic
================================================================================
