---------------------------- MODULE TschQueueProofs ----------------------------
(***************************************************************************)
(* Theorems about the index ring buffer, for every Size and every set of   *)
(* elements, and about TSCH's queues over it, for any packets, neighbors,  *)
(* links, limits and sizes.  Those about the ring alone speak of its own   *)
(* Spec and take nothing from TschAssumption.                              *)
(***************************************************************************)
EXTENDS TschQueue, DataLemmas, FiniteSetTheorems, WellFoundedInduction

(* The occupancy and the next index, without the modulo.                   *)
LEMMA DiffIs ==
  ASSUME NEW x \in Index, NEW y \in Index
  PROVE  Diff(x, y) = IF x >= y THEN x - y ELSE x + Size - y
<1> DEFINE z == x + Size - y
<1>1. z \in Nat /\ z < 2 * Size /\ Size \in Nat /\ Size > 0 /\ x \in Nat /\ y \in Nat
  BY SizeAssumption DEF Index
<1> HIDE DEF z
<1>2. z % Size = IF z < Size THEN z ELSE z - Size
  BY <1>1, ModOnce
<1> QED
  BY <1>1, <1>2 DEF Diff, z

LEMMA SuccIs ==
  ASSUME NEW x \in Index
  PROVE  /\ Succ(x) = IF x = Size - 1 THEN 0 ELSE x + 1
         /\ Succ(x) \in Index
<1>1. Size \in Nat /\ Size > 0 /\ x \in Nat /\ x < Size
  BY SizeAssumption DEF Index
<1> DEFINE z == x + 1
<1>2. z \in Nat /\ z < 2 * Size
  BY <1>1
<1> HIDE DEF z
<1>3. z % Size = IF z < Size THEN z ELSE z - Size
  BY <1>1, <1>2, ModOnce
<1> QED
  BY <1>1, <1>3 DEF Succ, Index, z

(* Advancing one pointer changes the occupancy by one.                     *)
LEMMA DiffStep ==
  ASSUME NEW p \in Index, NEW g \in Index
  PROVE  /\ Diff(p, g) \in 0 .. Size - 1
         /\ Diff(p, g) = 0 <=> p = g
         /\ Diff(p, g) # Size - 1 => Diff(Succ(p), g) = Diff(p, g) + 1
         /\ Diff(p, g) # 0 => Diff(p, Succ(g)) = Diff(p, g) - 1
<1>1. Size \in Nat /\ Size > 0 /\ p \in 0 .. Size - 1 /\ g \in 0 .. Size - 1
  BY SizeAssumption DEF Index
<1>2. Succ(p) \in Index /\ Succ(g) \in Index
  BY SuccIs
<1>3. /\ Diff(p, g) = IF p >= g THEN p - g ELSE p + Size - g
      /\ Diff(Succ(p), g) = IF Succ(p) >= g THEN Succ(p) - g ELSE Succ(p) + Size - g
      /\ Diff(p, Succ(g)) = IF p >= Succ(g) THEN p - Succ(g) ELSE p + Size - Succ(g)
  BY <1>2, DiffIs
<1>4. /\ Succ(p) = IF p = Size - 1 THEN 0 ELSE p + 1
      /\ Succ(g) = IF g = Size - 1 THEN 0 ELSE g + 1
  BY SuccIs
<1> QED
  BY <1>1, <1>3, <1>4

LEMMA InitRing == Init => TypeOK /\ PeekStable
BY SizeAssumption DEF Init, TypeOK, Index, PeekStable

LEMMA TypeKept == TypeOK /\ [Next]_vars => TypeOK'
BY SuccIs DEF TypeOK, Next, vars, Producer, Consumer, PeekPut, PutLeave, Fill,
   PutTest, PutAdvance, PeekGet, GetTest, GetAdvance

(* The pointers stay in the buffer and the steps in their order.           *)
THEOREM TypeCorrect == Spec => []TypeOK
BY InitRing, TypeKept, PTL DEF Spec

(* What one side does can only help the other: the occupancy only grows    *)
(* under the producer and only shrinks under the consumer.                 *)
LEMMA PeekKept ==
  ASSUME TypeOK, PeekStable, [Next]_vars
  PROVE  PeekStable'
<1> USE DEF PeekStable, Full, Empty
<1> DEFINE D == Diff(put_ptr, get_ptr)
<1>1. /\ Size \in Nat /\ D \in 0 .. Size - 1
      /\ D # Size - 1 => Diff(Succ(put_ptr), get_ptr) = D + 1
      /\ D # 0 => Diff(put_ptr, Succ(get_ptr)) = D - 1
  BY DiffStep, SizeAssumption DEF TypeOK
<1>2. CASE PutAdvance
  BY <1>1, <1>2 DEF PutAdvance
<1>3. CASE GetAdvance
  BY <1>1, <1>3 DEF GetAdvance
<1>4. CASE PeekPut \/ PutLeave \/ (\E e \in Elem : Fill(e)) \/ PutTest
  BY <1>4 DEF PeekPut, PutLeave, Fill, PutTest
<1>5. CASE PeekGet \/ GetTest
  BY <1>5 DEF PeekGet, GetTest
<1>6. CASE UNCHANGED vars
  BY <1>6 DEF vars
<1> QED
  BY <1>2, <1>3, <1>4, <1>5, <1>6 DEF Next, Producer, Consumer

(* A peek that found room, or an element, is still right when put or get   *)
(* tests again, for every interleaving of producer and consumer.           *)
THEOREM PeekHolds == Spec => []PeekStable
<1>1. TypeOK /\ PeekStable /\ [Next]_vars => PeekStable'
  BY PeekKept
<1> QED
  BY <1>1, InitRing, TypeCorrect, PTL DEF Spec

(* An element the consumer uses is never overwritten under its hands.      *)
THEOREM SlotsStayDisjoint == Spec => []SlotsDisjoint
<1>1. TypeOK /\ PeekStable => SlotsDisjoint
  BY DiffStep DEF TypeOK, PeekStable, SlotsDisjoint, Empty
<1> QED
  BY <1>1, TypeCorrect, PeekHolds, PTL

--------------------------------------------------------------------------------
(* The ring buffer implements a bounded FIFO.                              *)

(* The pointers as a place and an occupancy.                               *)
LEMMA Pointers ==
  ASSUME TypeOK
  PROVE  /\ Size \in Nat /\ Size > 0
         /\ put_ptr \in 0 .. Size - 1 /\ get_ptr \in 0 .. Size - 1
         /\ slots \in [0 .. Size - 1 -> Elem]
         /\ Diff(put_ptr, get_ptr) \in 0 .. Size - 1
         /\ Place(Size, get_ptr, Diff(put_ptr, get_ptr)) = put_ptr
<1> DEFINE n == Diff(put_ptr, get_ptr)
<1>1. /\ put_ptr \in 0 .. Size - 1 /\ get_ptr \in 0 .. Size - 1
      /\ slots \in [0 .. Size - 1 -> Elem] /\ Size \in Nat /\ Size > 0
  BY SizeAssumption DEF TypeOK, Index
<1>2. /\ n = IF put_ptr >= get_ptr THEN put_ptr - get_ptr ELSE put_ptr + Size - get_ptr
      /\ n \in 0 .. Size - 1
  BY DiffIs, DiffStep DEF TypeOK
<1> HIDE DEF n
<1>3. Place(Size, get_ptr, n) = IF get_ptr + n < Size THEN get_ptr + n
                                                      ELSE get_ptr + n - Size
  BY <1>1, <1>2, PlaceIs
<1>4. Place(Size, get_ptr, n) = put_ptr
  BY <1>1, <1>2, <1>3
<1> QED
  BY <1>1, <1>2, <1>4 DEF n

(* put publishes the element just filled, behind all the others.           *)
LEMMA PutAppends ==
  ASSUME TypeOK, PeekStable, PutAdvance
  PROVE  /\ Waiting' = Append(Waiting, slots[put_ptr]) /\ slots[put_ptr] \in Elem
         /\ Len(Waiting) < Size - 1
<1> DEFINE n == Diff(put_ptr, get_ptr)
<1>1. /\ Size \in Nat /\ Size > 0 /\ n \in 0 .. Size - 1 /\ get_ptr \in 0 .. Size - 1
      /\ put_ptr \in 0 .. Size - 1 /\ slots \in [0 .. Size - 1 -> Elem]
      /\ Place(Size, get_ptr, n) = put_ptr
  BY Pointers
<1>2. n < Size - 1
  BY <1>1 DEF PeekStable, PutAdvance, Full
<1>3. Diff(put_ptr, get_ptr)' = n + 1 /\ get_ptr' = get_ptr /\ slots' = slots
  BY <1>2, DiffStep DEF PutAdvance, TypeOK
<1> HIDE DEF n
<1>4. /\ Contents(Size, slots, get_ptr, n + 1)
           = Append(Contents(Size, slots, get_ptr, n), slots[Place(Size, get_ptr, n)])
      /\ Len(Contents(Size, slots, get_ptr, n)) = n
  BY <1>1, CountAppends
<1> QED
  BY <1>1, <1>2, <1>3, <1>4 DEF Waiting, n

(* The head is what the consumer was given.                                *)
LEMMA WaitingIs ==
  ASSUME TypeOK
  PROVE  /\ Waiting \in Seq(Elem)
         /\ ~Empty => Waiting # << >> /\ Head(Waiting) = slots[get_ptr]
<1> DEFINE n == Diff(put_ptr, get_ptr)
<1>1. /\ Size \in Nat /\ Size > 0 /\ n \in 0 .. Size - 1
      /\ get_ptr \in 0 .. Size - 1 /\ slots \in [0 .. Size - 1 -> Elem]
  BY Pointers
<1>2. Empty <=> n = 0
  BY DEF Empty
<1> HIDE DEF n
<1>3. n \in 0 .. Size
  BY <1>1
<1>4. Contents(Size, slots, get_ptr, n) \in [1 .. n -> Elem]
  BY <1>1, <1>3, ContentsIs
<1>5. Contents(Size, slots, get_ptr, n) \in Seq(Elem)
  BY <1>1, <1>4
<1>6. n # 0 => /\ Contents(Size, slots, get_ptr, n) # << >>
               /\ Head(Contents(Size, slots, get_ptr, n)) = slots[get_ptr]
  <2> SUFFICES ASSUME n # 0
               PROVE  /\ Contents(Size, slots, get_ptr, n) # << >>
                      /\ Head(Contents(Size, slots, get_ptr, n)) = slots[get_ptr]
    OBVIOUS
  <2>1. n \in 1 .. Size
    BY <1>1
  <2> QED
    BY <1>1, <2>1, AdvanceRemoves
<1> QED
  BY <1>2, <1>5, <1>6 DEF Waiting, n

(* get removes the element at the head.                                    *)
LEMMA GetRemoves ==
  ASSUME TypeOK, PeekStable, GetAdvance
  PROVE  Waiting # << >> /\ Waiting' = Tail(Waiting)
<1> DEFINE n == Diff(put_ptr, get_ptr)
<1>1. /\ Size \in Nat /\ Size > 0 /\ n \in 1 .. Size
      /\ get_ptr \in 0 .. Size - 1 /\ slots \in [0 .. Size - 1 -> Elem]
  BY Pointers DEF PeekStable, GetAdvance, Empty
<1>2. /\ Diff(put_ptr, get_ptr)' = n - 1 /\ slots' = slots
      /\ get_ptr' = Place(Size, get_ptr, 1)
  BY <1>1, DiffStep DEF GetAdvance, TypeOK, Succ, Place
<1> HIDE DEF n
<1>3. /\ Contents(Size, slots, get_ptr, n) # << >>
      /\ Contents(Size, slots, Place(Size, get_ptr, 1), n - 1)
           = Tail(Contents(Size, slots, get_ptr, n))
  BY <1>1, AdvanceRemoves
<1> QED
  BY <1>2, <1>3 DEF Waiting, n

(* The element being filled is not yet in the queue.                       *)
LEMMA FillUnseen ==
  ASSUME TypeOK, NEW e \in Elem, Fill(e)
  PROVE  Waiting' = Waiting
<1> DEFINE n == Diff(put_ptr, get_ptr)
<1>1. /\ Size \in Nat /\ Size > 0 /\ n \in 0 .. Size - 1 /\ get_ptr \in 0 .. Size - 1
      /\ slots \in [0 .. Size - 1 -> Elem]
      /\ Place(Size, get_ptr, n) = put_ptr
  BY Pointers
<1>3. /\ Diff(put_ptr, get_ptr)' = n /\ get_ptr' = get_ptr
      /\ slots' = [slots EXCEPT ![Place(Size, get_ptr, n)] = e]
  BY <1>1 DEF Fill
<1> HIDE DEF n
<1>4. Contents(Size, [slots EXCEPT ![Place(Size, get_ptr, n)] = e], get_ptr, n)
        = Contents(Size, slots, get_ptr, n)
  BY <1>1, WriteFree
<1> QED
  BY <1>3, <1>4 DEF Waiting, n

LEMMA InitFifo == Init => Fifo!Init
<1> SUFFICES ASSUME Init PROVE Waiting = << >>
  BY DEF Fifo!Init
<1>1. Diff(put_ptr, get_ptr) = 0
  BY DiffStep, SizeAssumption DEF Init, Index
<1> QED
  BY <1>1 DEF Waiting, Contents

LEMMA StepFifo ==
  ASSUME TypeOK, PeekStable, [Next]_vars
  PROVE  [Fifo!Next]_Waiting
<1>1. CASE \E e \in Elem : Fill(e)
  BY <1>1, FillUnseen
<1>2. CASE PutAdvance
  BY <1>2, PutAppends DEF Fifo!Next, Fifo!Put
<1>3. CASE GetAdvance
  BY <1>3, GetRemoves DEF Fifo!Next, Fifo!Get
<1>4. CASE PeekPut \/ PutLeave \/ PutTest \/ PeekGet \/ GetTest \/ UNCHANGED vars
  BY <1>4 DEF PeekPut, PutLeave, PutTest, PeekGet, GetTest, vars, Waiting
<1> QED
  BY <1>1, <1>2, <1>3, <1>4 DEF Next, Producer, Consumer

(* The ring buffer implements a bounded FIFO, whatever the interleaving of *)
(* producer and consumer.                                                  *)
THEOREM ImplementsFifo == Spec => FifoSpec
<1>1. TypeOK /\ PeekStable /\ [Next]_vars => [Fifo!Next]_Waiting
  BY StepFifo
<1> QED
  BY <1>1, InitFifo, TypeCorrect, PeekHolds, PTL DEF Spec, FifoSpec, Fifo!Spec

--------------------------------------------------------------------------------
(* Queues of packets, in which no packet is twice.                         *)

Els(s) == {s[i] : i \in DOMAIN s}
Once(s) == \A i, j \in DOMAIN s : s[i] = s[j] => i = j

LEMMA QueueAppend ==
  ASSUME NEW q \in Seq(Packet), NEW e \in Packet
  PROVE  /\ Append(q, e) \in Seq(Packet) /\ Append(q, e) # << >>
         /\ Els(Append(q, e)) = Els(q) \cup {e}
         /\ Once(q) /\ e \notin Els(q) => Once(Append(q, e))
<1> DEFINE s == Append(q, e)
<1>1. /\ s \in Seq(Packet) /\ s # << >> /\ Len(s) = Len(q) + 1 /\ Len(q) \in Nat
      /\ DOMAIN q = 1 .. Len(q) /\ DOMAIN s = 1 .. Len(q) + 1
      /\ s[Len(q) + 1] = e /\ \A i \in 1 .. Len(q) : s[i] = q[i]
  OBVIOUS
<1> HIDE DEF s
<1>2. Els(s) = Els(q) \cup {e}
  <2>1. \A i \in 1 .. Len(q) : i \in 1 .. Len(q) + 1
    BY <1>1
  <2>2. \A i \in 1 .. Len(q) + 1 : i \in 1 .. Len(q) \/ i = Len(q) + 1
    BY <1>1
  <2>3. Len(q) + 1 \in 1 .. Len(q) + 1
    BY <1>1
  <2> QED
    BY <1>1, <2>1, <2>2, <2>3 DEF Els
<1>3. ASSUME Once(q), e \notin Els(q)
      PROVE  Once(s)
  <2> SUFFICES ASSUME NEW i \in 1 .. Len(q) + 1, NEW j \in 1 .. Len(q) + 1, s[i] = s[j]
               PROVE  i = j
    BY <1>1 DEF Once
  <2>1. /\ i \in 1 .. Len(q) \/ i = Len(q) + 1
        /\ j \in 1 .. Len(q) \/ j = Len(q) + 1
    BY <1>1
  <2>2. \A h \in 1 .. Len(q) : q[h] # e
    BY <1>1, <1>3 DEF Els
  <2> QED
    BY <1>1, <1>3, <2>1, <2>2 DEF Once
<1> QED
  BY <1>1, <1>2, <1>3 DEF s

LEMMA QueueTail ==
  ASSUME NEW q \in Seq(Packet), q # << >>
  PROVE  /\ Tail(q) \in Seq(Packet) /\ Head(q) \in Els(q) /\ Head(q) \in Packet
         /\ Once(q) => Once(Tail(q)) /\ Els(Tail(q)) = Els(q) \ {Head(q)}
<1> DEFINE s == Tail(q)
<1>1. /\ s \in Seq(Packet) /\ Head(q) = q[1] /\ Head(q) \in Packet
      /\ Len(q) \in Nat /\ Len(q) > 0 /\ DOMAIN q = 1 .. Len(q) /\ DOMAIN s = 1 .. Len(q) - 1
      /\ \A i \in 1 .. Len(q) - 1 : s[i] = q[i + 1]
  OBVIOUS
<1> HIDE DEF s
<1>2. 1 \in 1 .. Len(q) /\ Head(q) \in Els(q)
  BY <1>1 DEF Els
<1>3. ASSUME Once(q)
      PROVE  Once(s) /\ Els(s) = Els(q) \ {Head(q)}
  <2>1. \A i \in 1 .. Len(q) - 1 : i + 1 \in 1 .. Len(q) /\ i + 1 # 1 /\ i \in Int
    BY <1>1
  <2>2. \A i \in 1 .. Len(q) : i = 1 \/ (i - 1 \in 1 .. Len(q) - 1 /\ (i - 1) + 1 = i)
    BY <1>1
  <2>3. Once(s)
    <3> SUFFICES ASSUME NEW i \in 1 .. Len(q) - 1, NEW j \in 1 .. Len(q) - 1, s[i] = s[j]
                 PROVE  i = j
      BY <1>1 DEF Once
    <3>1. i + 1 = j + 1
      BY <1>1, <1>3, <2>1 DEF Once
    <3> QED
      BY <2>1, <3>1
  <2>4. ASSUME NEW x \in Els(s)
        PROVE  x \in Els(q) \ {Head(q)}
    <3>1. PICK i \in 1 .. Len(q) - 1 : x = s[i]
      BY <1>1 DEF Els
    <3>2. x = q[i + 1] /\ i + 1 \in 1 .. Len(q) /\ i + 1 # 1
      BY <1>1, <2>1, <3>1
    <3> QED
      BY <1>1, <1>2, <1>3, <3>2 DEF Els, Once
  <2>5. ASSUME NEW x \in Els(q), x # Head(q)
        PROVE  x \in Els(s)
    <3>1. PICK i \in 1 .. Len(q) : x = q[i]
      BY <1>1 DEF Els
    <3>2. i - 1 \in 1 .. Len(q) - 1 /\ (i - 1) + 1 = i
      BY <1>1, <2>2, <2>5, <3>1
    <3>3. s[i - 1] = x
      BY <1>1, <3>1, <3>2
    <3> QED
      BY <1>1, <3>2, <3>3 DEF Els
  <2> QED
    BY <2>3, <2>4, <2>5
<1> QED
  BY <1>1, <1>2, <1>3 DEF s

LEMMA TimesIs ==
  ASSUME NEW q \in Seq(Packet), Once(q), NEW k
  PROVE  Times(k, q) = IF k \in Els(q) THEN 1 ELSE 0
<1> DEFINE P == {i \in DOMAIN q : q[i] = k}
<1>1. CASE k \in Els(q)
  <2>1. PICK i \in DOMAIN q : q[i] = k
    BY <1>1 DEF Els
  <2>2. P = {i}
    BY <2>1 DEF Once
  <2> QED
    BY <1>1, <2>2, FS_Singleton DEF Times
<1>2. CASE k \notin Els(q)
  <2>1. P = {}
    BY <1>2 DEF Els
  <2> QED
    BY <1>2, <2>1, FS_EmptySet DEF Times
<1> QED
  BY <1>1, <1>2

--------------------------------------------------------------------------------
(* The packets of a sequence that are for one neighbor.                    *)

IsTo(f, n, s, m) ==
  f = [i \in 0 .. m |->
         IF i = 0 THEN << >>
         ELSE IF Dest[s[i]] = n THEN Append(f[i - 1], s[i]) ELSE f[i - 1]]

LEMMA ToDef ==
  ASSUME NEW n, NEW s
  PROVE  To(n, s) = (CHOOSE f : IsTo(f, n, s, Len(s)))[Len(s)]
BY DEF To, IsTo

\* induction, as a least counterexample
LEMMA LeastOf ==
  ASSUME NEW N \in SUBSET Nat, N # {}
  PROVE  \E n \in N : \A m \in Nat : m < n => m \notin N
<1>1. PICK n \in N : \A m \in N : ~(<<m, n>> \in OpToRel(<, Nat))
  BY NatLessThanWellFounded, WFMin
<1>2. ASSUME NEW m \in Nat, m < n, m \in N
      PROVE  FALSE
  <2>1. <<m, n>> \in Nat \X Nat /\ <<m, n>>[1] = m /\ <<m, n>>[2] = n
    OBVIOUS
  <2> QED
    BY <1>1, <1>2, <2>1 DEF OpToRel
<1> QED
  BY <1>2

LEMMA ToExists ==
  ASSUME NEW n, NEW s, NEW m \in Nat
  PROVE  \E f : IsTo(f, n, s, m)
<1> DEFINE N == {l \in Nat : ~ \E f : IsTo(f, n, s, l)}
<1>1. SUFFICES ASSUME N # {} PROVE FALSE
  OBVIOUS
<1>2. PICK l \in N : \A k \in Nat : k < l => k \notin N
  BY <1>1, LeastOf
<1>3. CASE l = 0
  <2> DEFINE f == [i \in 0 .. 0 |-> << >>]
  <2>1. IsTo(f, n, s, 0)
    BY DEF IsTo
  <2> QED
    BY <1>2, <1>3, <2>1
<1>4. CASE l # 0
  <2>1. l \in Nat /\ l - 1 \in Nat /\ l - 1 < l
    BY <1>2, <1>4
  <2>2. PICK g : IsTo(g, n, s, l - 1)
    BY <1>2, <2>1
  <2> DEFINE f == [i \in 0 .. l |->
                     IF i = 0 THEN << >>
                     ELSE IF Dest[s[i]] = n THEN Append(g[i - 1], s[i]) ELSE g[i - 1]]
  <2>3. ASSUME NEW i \in 0 .. l - 1
        PROVE  f[i] = g[i]
    <3>1. i \in 0 .. l
      BY <2>1
    <3>2. f[i] = IF i = 0 THEN << >>
                 ELSE IF Dest[s[i]] = n THEN Append(g[i - 1], s[i]) ELSE g[i - 1]
      BY <3>1
    <3> HIDE DEF f
    <3>3. g[i] = IF i = 0 THEN << >>
                 ELSE IF Dest[s[i]] = n THEN Append(g[i - 1], s[i]) ELSE g[i - 1]
      BY <2>2 DEF IsTo
    <3> QED
      BY <3>2, <3>3
  <2>5. f = [i \in 0 .. l |->
               IF i = 0 THEN << >>
               ELSE IF Dest[s[i]] = n THEN Append(g[i - 1], s[i]) ELSE g[i - 1]]
    OBVIOUS
  <2> HIDE DEF f
  <2>4. ASSUME NEW i \in 0 .. l, i # 0
        PROVE  f[i - 1] = g[i - 1]
    <3>1. i - 1 \in 0 .. l - 1
      BY <2>1, <2>4
    <3> QED
      BY <2>3, <3>1
  <2>6. IsTo(f, n, s, l)
    BY <2>4, <2>5 DEF IsTo
  <2> QED
    BY <1>2, <2>6
<1> QED
  BY <1>3, <1>4

\* the prefixes of what To finds, step by step
Finds(f, n, s) ==
  /\ f[0] = << >>
  /\ \A i \in 1 .. Len(s) :
       f[i] = IF Dest[s[i]] = n THEN Append(f[i - 1], s[i]) ELSE f[i - 1]

LEMMA ToIs ==
  ASSUME NEW n, NEW s \in Seq(Packet)
  PROVE  \E f : Finds(f, n, s) /\ To(n, s) = f[Len(s)]
<1> DEFINE f == CHOOSE f : IsTo(f, n, s, Len(s))
<1>1. Len(s) \in Nat
  OBVIOUS
<1>2. IsTo(f, n, s, Len(s))
  BY <1>1, ToExists
<1>3. To(n, s) = f[Len(s)]
  BY ToDef
<1> HIDE DEF f
<1>4. \A i \in 0 .. Len(s) :
        f[i] = IF i = 0 THEN << >>
               ELSE IF Dest[s[i]] = n THEN Append(f[i - 1], s[i]) ELSE f[i - 1]
  BY <1>2 DEF IsTo
<1>5. 0 \in 0 .. Len(s) /\ \A i \in 1 .. Len(s) : i \in 0 .. Len(s) /\ i # 0
  BY <1>1
<1>6. Finds(f, n, s)
  BY <1>4, <1>5 DEF Finds
<1> QED
  BY <1>3, <1>6

Agree(s, t, l) == \A i \in 1 .. l : s[i] = t[i]

LEMMA ToUnique ==
  ASSUME NEW n, NEW s \in Seq(Packet), NEW t \in Seq(Packet), NEW f, NEW g,
         Finds(f, n, s), Finds(g, n, t),
         NEW l \in Nat, l <= Len(s), l <= Len(t), Agree(s, t, l)
  PROVE  f[l] = g[l]
<1> DEFINE N == {m \in Nat : m <= l /\ f[m] # g[m]}
<1>1. SUFFICES ASSUME N # {} PROVE FALSE
  OBVIOUS
<1>2. PICK m \in N : \A k \in Nat : k < m => k \notin N
  BY <1>1, LeastOf
<1>3. m # 0 /\ m \in Nat /\ m <= l /\ f[m] # g[m]
  BY <1>2 DEF Finds
<1>4. m \in 1 .. Len(s) /\ m \in 1 .. Len(t) /\ m \in 1 .. l /\ m - 1 \in Nat /\ m - 1 < m /\ m - 1 <= l
  BY <1>3
<1>5. f[m - 1] = g[m - 1]
  BY <1>2, <1>4
<1> QED
  BY <1>3, <1>4, <1>5 DEF Finds, Agree

\* what is found is found once, if it is there once
LEMMA ToHolds ==
  ASSUME NEW n, NEW s \in Seq(Packet), NEW f, Finds(f, n, s), NEW l \in Nat, l <= Len(s)
  PROVE  /\ f[l] \in Seq(Packet)
         /\ Els(f[l]) = {s[i] : i \in {j \in 1 .. l : Dest[s[j]] = n}}
         /\ Once(s) => Once(f[l])
<1> DEFINE Part(m) == {s[i] : i \in {j \in 1 .. m : Dest[s[j]] = n}}
           Holds(m) == f[m] \in Seq(Packet) /\ Els(f[m]) = Part(m) /\ (Once(s) => Once(f[m]))
           N == {m \in Nat : m <= l /\ ~Holds(m)}
<1>1. SUFFICES ASSUME N # {} PROVE FALSE
  <2>1. l <= l /\ (l \notin N => Holds(l))
    OBVIOUS
  <2> QED
    BY <2>1
<1>2. PICK m \in N : \A k \in Nat : k < m => k \notin N
  BY <1>1, LeastOf
<1>3. CASE m = 0
  <2>1. f[0] = << >> /\ << >> \in Seq(Packet)
    BY DEF Finds
  <2>2. Els(<< >>) = {} /\ Once(<< >>)
    BY DEF Els, Once
  <2>3. Part(0) = {}
    OBVIOUS
  <2> QED
    BY <1>2, <1>3, <2>1, <2>2, <2>3
<1>4. CASE m # 0
  <2> DEFINE e == s[m]
             q == f[m - 1]
  <2>1. /\ m \in Nat /\ m <= l /\ m - 1 \in Nat /\ m - 1 < m /\ m - 1 <= l
        /\ m \in 1 .. Len(s) /\ e \in Packet /\ DOMAIN s = 1 .. Len(s)
    BY <1>2, <1>4
  <2>2. q \in Seq(Packet) /\ Els(q) = Part(m - 1) /\ (Once(s) => Once(q))
    BY <1>2, <2>1
  <2>3. f[m] = IF Dest[e] = n THEN Append(q, e) ELSE q
    BY <2>1 DEF Finds
  <2>4. Part(m) = IF Dest[e] = n THEN Part(m - 1) \cup {e} ELSE Part(m - 1)
    <3>1. \A j \in 1 .. m : j \in 1 .. m - 1 \/ j = m
      BY <2>1
    <3>2. \A j \in 1 .. m - 1 : j \in 1 .. m
      BY <2>1
    <3>3. m \in 1 .. m
      BY <2>1
    <3> QED
      BY <3>1, <3>2, <3>3
  <2>5. Once(s) => e \notin Part(m - 1)
    <3>1. \A j \in 1 .. m - 1 : j \in 1 .. Len(s) /\ j # m
      BY <2>1
    <3> QED
      BY <2>1, <3>1 DEF Once
  <2> HIDE DEF q, e
  <2>6. CASE Dest[e] = n
    <3>1. Append(q, e) \in Seq(Packet) /\ Els(Append(q, e)) = Els(q) \cup {e}
      BY <2>1, <2>2, QueueAppend
    <3>2. Once(s) => Once(Append(q, e))
      BY <2>1, <2>2, <2>5, QueueAppend
    <3> QED
      BY <1>2, <2>2, <2>3, <2>4, <2>6, <3>1, <3>2
  <2>7. CASE Dest[e] # n
    BY <1>2, <2>2, <2>3, <2>4, <2>7
  <2> QED
    BY <2>6, <2>7
<1> QED
  BY <1>3, <1>4

LEMMA ToType ==
  ASSUME NEW n, NEW s \in Seq(Packet)
  PROVE  /\ To(n, s) \in Seq(Packet)
         /\ Els(To(n, s)) = {k \in Els(s) : Dest[k] = n}
         /\ Once(s) => Once(To(n, s))
<1>1. PICK f : Finds(f, n, s) /\ To(n, s) = f[Len(s)]
  BY ToIs
<1>2. Len(s) \in Nat /\ Len(s) <= Len(s) /\ DOMAIN s = 1 .. Len(s)
  OBVIOUS
<1>3. /\ f[Len(s)] \in Seq(Packet)
      /\ Els(f[Len(s)]) = {s[i] : i \in {j \in 1 .. Len(s) : Dest[s[j]] = n}}
      /\ Once(s) => Once(f[Len(s)])
  BY <1>1, <1>2, ToHolds
<1>4. {s[i] : i \in {j \in 1 .. Len(s) : Dest[s[j]] = n}} = {k \in Els(s) : Dest[k] = n}
  BY <1>2 DEF Els
<1> QED
  BY <1>1, <1>3, <1>4

LEMMA ToAppend ==
  ASSUME NEW n, NEW s \in Seq(Packet), NEW e \in Packet
  PROVE  To(n, Append(s, e)) = IF Dest[e] = n THEN Append(To(n, s), e) ELSE To(n, s)
<1> DEFINE t == Append(s, e)
           l == Len(s)
<1>1. /\ t \in Seq(Packet) /\ Len(t) = l + 1 /\ l \in Nat /\ t[l + 1] = e
      /\ \A i \in 1 .. l : s[i] = t[i]
  OBVIOUS
<1> HIDE DEF t
<1>2. PICK f : Finds(f, n, s) /\ To(n, s) = f[l]
  BY ToIs
<1>3. PICK g : Finds(g, n, t) /\ To(n, t) = g[Len(t)]
  BY <1>1, ToIs
<1>4. l <= Len(t) /\ l <= Len(s) /\ Agree(s, t, l)
  BY <1>1 DEF Agree
<1> HIDE DEF l
<1>5. f[l] = g[l]
  BY <1>1, <1>2, <1>3, <1>4, ToUnique
<1>6. l + 1 \in 1 .. Len(t) /\ l + 1 - 1 = l
  BY <1>1
<1>7. g[l + 1] = IF Dest[e] = n THEN Append(g[l], e) ELSE g[l]
  BY <1>1, <1>3, <1>6 DEF Finds
<1> QED
  BY <1>1, <1>2, <1>3, <1>5, <1>7 DEF t

LEMMA Joined ==
  ASSUME NEW q \in Seq(Packet), NEW e \in Packet
  PROVE  q \o << >> = q /\ q \o <<e>> = Append(q, e) /\ Append(q, e) \in Seq(Packet)
OBVIOUS

LEMMA ConcatAppend ==
  ASSUME NEW q \in Seq(Packet), NEW r \in Seq(Packet), NEW e \in Packet
  PROVE  /\ Append(q \o r, e) = q \o Append(r, e)
         /\ r # << >> => Append(q, Head(r)) \o Tail(r) = q \o r
         /\ q # << >> => q \o r # << >> /\ Tail(q \o r) = Tail(q) \o r
<1>1. q \o r \in Seq(Packet) /\ <<e>> \in Seq(Packet)
  BY ConcatProperties
<1>2. Append(q \o r, e) = (q \o r) \o <<e>> /\ Append(r, e) = r \o <<e>>
  BY <1>1, Joined
<1>3. (q \o r) \o <<e>> = q \o (r \o <<e>>)
  BY <1>1, ConcatAssociative
<1>4. ASSUME NEW x \in Seq(Packet), x # << >>
      PROVE  /\ Head(x) \in Packet /\ Tail(x) \in Seq(Packet) /\ <<Head(x)>> \in Seq(Packet)
             /\ x = <<Head(x)>> \o Tail(x)
  BY <1>4
<1>5. ASSUME r # << >>
      PROVE  Append(q, Head(r)) \o Tail(r) = q \o r
  <2>1. Append(q, Head(r)) = q \o <<Head(r)>>
    BY <1>4, <1>5, Joined
  <2>2. (q \o <<Head(r)>>) \o Tail(r) = q \o (<<Head(r)>> \o Tail(r))
    BY <1>4, <1>5, ConcatAssociative
  <2> QED
    BY <1>4, <1>5, <2>1, <2>2
<1>6. ASSUME q # << >>
      PROVE  q \o r # << >> /\ Tail(q \o r) = Tail(q) \o r
  <2>1. (<<Head(q)>> \o Tail(q)) \o r = <<Head(q)>> \o (Tail(q) \o r)
    BY <1>4, <1>6, ConcatAssociative
  <2>2. Tail(q) \o r \in Seq(Packet)
    BY <1>4, <1>6, ConcatProperties
  <2>3. \A h \in Packet, x \in Seq(Packet) : <<h>> \o x # << >> /\ Tail(<<h>> \o x) = x
    OBVIOUS
  <2>4. q \o r = <<Head(q)>> \o (Tail(q) \o r)
    BY <1>4, <1>6, <2>1
  <2> QED
    BY <1>4, <1>6, <2>2, <2>3, <2>4
<1> QED
  BY <1>2, <1>3, <1>5, <1>6

LEMMA ToTail ==
  ASSUME NEW n, NEW s \in Seq(Packet), s # << >>
  PROVE  To(n, s) = (IF Dest[Head(s)] = n THEN <<Head(s)>> ELSE << >>) \o To(n, Tail(s))
<1> DEFINE t == Tail(s)
           l == Len(t)
           h == IF Dest[Head(s)] = n THEN <<Head(s)>> ELSE << >>
<1>1. /\ t \in Seq(Packet) /\ Len(s) = l + 1 /\ l \in Nat /\ Len(s) \in Nat /\ s[1] = Head(s)
      /\ \A i \in 1 .. l : t[i] = s[i + 1]
      /\ \A i \in 1 .. l : t[i] \in Packet
  OBVIOUS
<1>2. Head(s) \in Packet /\ h \in Seq(Packet)
  OBVIOUS
<1> HIDE DEF t, h
<1>3. PICK f : Finds(f, n, s) /\ To(n, s) = f[Len(s)]
  BY ToIs
<1>4. PICK g : Finds(g, n, t) /\ To(n, t) = g[l]
  BY <1>1, ToIs
<1>5. ASSUME NEW m \in Nat, m <= l
      PROVE  g[m] \in Seq(Packet)
  BY <1>1, <1>4, <1>5, ToHolds
<1> HIDE DEF l
<1> DEFINE N == {m \in Nat : m <= l /\ f[m + 1] # h \o g[m]}
<1>6. N = {}
  <2>1. SUFFICES ASSUME N # {} PROVE FALSE
    OBVIOUS
  <2>2. PICK m \in N : \A k \in Nat : k < m => k \notin N
    BY <2>1, LeastOf
  <2>3. m \in Nat /\ m <= l /\ f[m + 1] # h \o g[m]
    BY <2>2
  <2>4. m + 1 \in 1 .. Len(s) /\ m + 1 - 1 = m
    BY <1>1, <2>3
  <2>5. f[m + 1] = IF Dest[s[m + 1]] = n THEN Append(f[m], s[m + 1]) ELSE f[m]
    BY <1>3, <2>4 DEF Finds
  <2>6. CASE m = 0
    <3>1. f[0] = << >> /\ g[0] = << >>
      BY <1>3, <1>4 DEF Finds
    <3>2. s[m + 1] = Head(s)
      BY <1>1, <2>6
    <3>3. f[m + 1] = h
      BY <1>2, <2>5, <2>6, <3>1, <3>2 DEF h
    <3>4. h \o g[m] = h
      BY <1>2, <2>6, <3>1
    <3> QED
      BY <2>3, <3>3, <3>4
  <2>7. CASE m # 0
    <3>1. m \in 1 .. l /\ m - 1 \in Nat /\ m - 1 < m /\ m - 1 <= l /\ (m - 1) + 1 = m
      BY <1>1, <2>3, <2>7
    <3>2. f[m] = h \o g[m - 1]
      BY <2>2, <3>1
    <3>3. g[m] = IF Dest[t[m]] = n THEN Append(g[m - 1], t[m]) ELSE g[m - 1]
      BY <1>4, <3>1 DEF Finds, l
    <3>4. t[m] = s[m + 1] /\ t[m] \in Packet
      BY <1>1, <3>1 DEF l
    <3>5. Append(h \o g[m - 1], t[m]) = h \o Append(g[m - 1], t[m])
      <4>1. g[m - 1] \in Seq(Packet)
        BY <1>5, <3>1
      <4>2. \A q, r \in Seq(Packet), e \in Packet : Append(q \o r, e) = q \o Append(r, e)
        BY ConcatAppend
      <4> QED
        BY <1>2, <3>4, <4>1, <4>2
    <3> QED
      BY <2>3, <2>5, <3>2, <3>3, <3>4, <3>5
  <2> QED
    BY <2>6, <2>7
<1>7. \A m \in Nat : m <= l => f[m + 1] = h \o g[m]
  BY <1>6
<1>8. l \in Nat /\ l <= l
  BY <1>1
<1>9. f[l + 1] = h \o g[l]
  BY <1>7, <1>8
<1> QED
  BY <1>1, <1>3, <1>4, <1>9 DEF h, t

--------------------------------------------------------------------------------
(* Each packet in memory is in one place: d are those that were dequeued,  *)
(* q the queues of the neighbors, m the memory.                            *)

InPlace(d, q, m) ==
  /\ Once(d) /\ Els(d) \subseteq m
  /\ \A n \in Nbr : /\ Once(q[n]) /\ Els(q[n]) \subseteq m
                    /\ \A k \in Els(q[n]) : Dest[k] = n /\ k \notin Els(d)
  /\ \A k \in m : k \in Els(d) \/ k \in Els(q[Dest[k]])

LEMMA PlaceAdded ==
  ASSUME NEW d \in Seq(Packet), NEW q \in [Nbr -> Seq(Packet)], NEW m \in SUBSET Packet,
         InPlace(d, q, m), NEW k \in Packet \ m
  PROVE  InPlace(d, [q EXCEPT ![Dest[k]] = Append(@, k)], m \cup {k})
<1> DEFINE n == Dest[k]
           q2 == [q EXCEPT ![n] = Append(@, k)]
           m2 == m \cup {k}
<1>1. n \in Nbr /\ q[n] \in Seq(Packet) /\ Els(q[n]) \subseteq m /\ k \notin Els(q[n]) /\ k \notin Els(d)
  BY TschAssumption DEF InPlace
<1>2. /\ q2[n] = Append(q[n], k) /\ \A o \in Nbr \ {n} : q2[o] = q[o]
  BY <1>1
<1>3. Once(q2[n]) /\ Els(q2[n]) = Els(q[n]) \cup {k}
  BY <1>1, <1>2, QueueAppend DEF InPlace
<1> HIDE DEF q2
<1>4. ASSUME NEW o \in Nbr
      PROVE  /\ Once(q2[o]) /\ Els(q2[o]) \subseteq m2
             /\ \A j \in Els(q2[o]) : Dest[j] = o /\ j \notin Els(d)
  <2>1. CASE o = n
    BY <1>1, <1>2, <1>3, <2>1 DEF InPlace
  <2>2. CASE o # n
    <3>1. q2[o] = q[o] /\ o \in Nbr \ {n}
      BY <1>2, <2>2
    <3>2. Once(q[o]) /\ Els(q[o]) \subseteq m /\ \A j \in Els(q[o]) : Dest[j] = o /\ j \notin Els(d)
      BY DEF InPlace
    <3> QED
      BY <1>1, <3>1, <3>2, <2>2
  <2> QED
    BY <2>1, <2>2
<1>5. ASSUME NEW j \in m2
      PROVE  j \in Els(d) \/ j \in Els(q2[Dest[j]])
  BY <1>1, <1>2, <1>3, TschAssumption DEF InPlace
<1>6. Once(d) /\ Els(d) \subseteq m2
  BY DEF InPlace
<1> QED
  BY <1>4, <1>5, <1>6 DEF InPlace, q2

LEMMA PlaceLeft ==
  ASSUME NEW d \in Seq(Packet), NEW q \in [Nbr -> Seq(Packet)], NEW m \in SUBSET Packet,
         InPlace(d, q, m), d # << >>
  PROVE  InPlace(Tail(d), q, m \ {Head(d)})
<1>1. Once(Tail(d)) /\ Els(Tail(d)) = Els(d) \ {Head(d)} /\ Head(d) \in Els(d)
  BY QueueTail DEF InPlace
<1> QED
  BY <1>1 DEF InPlace

LEMMA PlaceMoved ==
  ASSUME NEW d \in Seq(Packet), NEW q \in [Nbr -> Seq(Packet)], NEW m \in SUBSET Packet,
         InPlace(d, q, m), NEW n \in Nbr, q[n] # << >>
  PROVE  InPlace(Append(d, Head(q[n])), [q EXCEPT ![n] = Tail(@)], m)
<1> DEFINE q2 == [q EXCEPT ![n] = Tail(@)]
           k == Head(q[n])
           d2 == Append(d, k)
<1>1. q[n] \in Seq(Packet) /\ Once(q[n])
  BY DEF InPlace
<1>2. /\ q2[n] = Tail(q[n]) /\ \A o \in Nbr \ {n} : q2[o] = q[o]
  BY <1>1
<1>3. /\ Once(q2[n]) /\ Els(q2[n]) = Els(q[n]) \ {k} /\ k \in Els(q[n]) /\ k \in Packet
  BY <1>1, <1>2, QueueTail
<1>4. k \notin Els(d) /\ k \in m /\ Dest[k] = n
  BY <1>3 DEF InPlace
<1> HIDE DEF k, q2
<1>5. Once(d2) /\ Els(d2) = Els(d) \cup {k}
  BY <1>3, <1>4, QueueAppend DEF InPlace
<1> HIDE DEF d2
<1>6. ASSUME NEW o \in Nbr
      PROVE  /\ Once(q2[o]) /\ Els(q2[o]) \subseteq m
             /\ \A j \in Els(q2[o]) : Dest[j] = o /\ j \notin Els(d2)
  <2>1. CASE o = n
    BY <1>2, <1>3, <1>4, <1>5, <2>1 DEF InPlace
  <2>2. CASE o # n
    <3>1. q2[o] = q[o] /\ o \in Nbr \ {n}
      BY <1>2, <2>2
    <3>2. Once(q[o]) /\ Els(q[o]) \subseteq m /\ \A j \in Els(q[o]) : Dest[j] = o /\ j \notin Els(d)
      BY DEF InPlace
    <3> QED
      BY <1>4, <1>5, <3>1, <3>2, <2>2
  <2> QED
    BY <2>1, <2>2
<1>7. ASSUME NEW j \in m
      PROVE  j \in Els(d2) \/ j \in Els(q2[Dest[j]])
  BY <1>2, <1>3, <1>4, <1>5, TschAssumption DEF InPlace
<1>8. Once(d2) /\ Els(d2) \subseteq m
  BY <1>4, <1>5 DEF InPlace
<1> QED
  BY <1>6, <1>7, <1>8 DEF InPlace, q2, d2, k

LEMMA PlaceFlushed ==
  ASSUME NEW d \in Seq(Packet), NEW q \in [Nbr -> Seq(Packet)], NEW m \in SUBSET Packet,
         InPlace(d, q, m), NEW n \in Nbr, q[n] # << >>
  PROVE  InPlace(d, [q EXCEPT ![n] = Tail(@)], m \ {Head(q[n])})
<1> DEFINE q2 == [q EXCEPT ![n] = Tail(@)]
           k == Head(q[n])
<1>1. q[n] \in Seq(Packet) /\ Once(q[n])
  BY DEF InPlace
<1>2. /\ q2[n] = Tail(q[n]) /\ \A o \in Nbr \ {n} : q2[o] = q[o]
  BY <1>1
<1>3. /\ Once(q2[n]) /\ Els(q2[n]) = Els(q[n]) \ {k} /\ k \in Els(q[n])
  BY <1>1, <1>2, QueueTail
<1>4. k \notin Els(d) /\ k \in m /\ Dest[k] = n
  BY <1>3 DEF InPlace
<1> HIDE DEF k, q2
<1>6. ASSUME NEW o \in Nbr
      PROVE  /\ Once(q2[o]) /\ Els(q2[o]) \subseteq m \ {k}
             /\ \A j \in Els(q2[o]) : Dest[j] = o /\ j \notin Els(d)
  <2>1. CASE o = n
    BY <1>2, <1>3, <1>4, <2>1 DEF InPlace
  <2>2. CASE o # n
    <3>1. q2[o] = q[o] /\ o \in Nbr \ {n}
      BY <1>2, <2>2
    <3>2. Once(q[o]) /\ Els(q[o]) \subseteq m /\ \A j \in Els(q[o]) : Dest[j] = o /\ j \notin Els(d)
      BY DEF InPlace
    <3> QED
      BY <1>4, <3>1, <3>2, <2>2
  <2> QED
    BY <2>1, <2>2
<1>7. ASSUME NEW j \in m \ {k}
      PROVE  j \in Els(d) \/ j \in Els(q2[Dest[j]])
  BY <1>2, <1>3, <1>4, TschAssumption DEF InPlace
<1>8. Once(d) /\ Els(d) \subseteq m \ {k}
  BY <1>4 DEF InPlace
<1> QED
  BY <1>6, <1>7, <1>8 DEF InPlace, q2, k

--------------------------------------------------------------------------------
(* The slot operation and the main program.                                *)

Job == [for : {"add", "remove", "flush"}, nbr : Nbr, pkt : Packet \cup {NULL}]

TTypeOK ==
  /\ TypeOK
  /\ nbrs \subseteq Nbr /\ tx \in [Nbr -> Seq(Packet)] /\ window \in [Nbr -> Nat]
  /\ slot \in {"none", "rx", "tx"}
  /\ IF slot = "tx" THEN current \in [pkt : Packet, nbr : Nbr, shared : BOOLEAN] ELSE current = NULL
  /\ locked \in BOOLEAN /\ lock_requested \in BOOLEAN /\ poll \in BOOLEAN /\ freed \in BOOLEAN
  /\ transmissions \in [Packet -> Nat] /\ packet_memb \subseteq Packet
  /\ report \in [Packet -> {"new", "queued", "refused", "called", "flushed"}]
  /\ main \in {"idle", "lock", "locked", "add", "pending", "reported", "unused", "remove", "flush"}
  /\ job \in Job \cup {NoJob} /\ todo \subseteq Nbr
  /\ torn \in BOOLEAN

\* a slot transmits while the producer has a place on the ring, and never
\* under the lock; the consumer is where tsch_tx_process_pending is; a
\* packet can only be freed in a slot before it is done with
Steps ==
  /\ slot = "tx" <=> prod # "idle"
  /\ locked <=> main = "locked"
  /\ locked => slot # "tx"
  /\ cons = "advance" => main = "reported"
  /\ cons = "use" => main \in {"pending", "reported"}
  /\ main = "reported" => cons # "idle"
  /\ torn => prod = "fill"

\* what the main program is at: a packet to be queued is new, and a neighbor
\* to be removed has none
Adding == job.nbr = Dest[job.pkt] /\ job.pkt \in Packet /\ report[job.pkt] = "new"
Removing == job.nbr \in Nbr /\ tx[job.nbr] = << >>
Jobs ==
  /\ main \in {"lock", "locked"} =>
       \/ job.for = "add" /\ Adding /\ job.nbr \notin nbrs
       \/ job.for = "remove" /\ Removing
  /\ main = "add" => Adding
  /\ main = "remove" => Removing
  /\ main = "flush" => job.nbr \in Nbr

\* the packet on the air is first in its queue until it is put on the ring,
\* unless it was freed
OnAir == ~torn =>
  /\ prod = "fill" => /\ current.nbr \in nbrs /\ tx[current.nbr] # << >>
                      /\ Head(tx[current.nbr]) = current.pkt
  /\ prod \in {"put", "advance"} => slots[put_ptr] = current.pkt

\* who is not in the table has no packets, and a packet in memory is not new
Placed ==
  /\ Waiting \in Seq(Packet)
  /\ InPlace(Dequeued, tx, packet_memb)
  /\ \A n \in Nbr \ nbrs : tx[n] = << >>
  /\ \A k \in packet_memb : report[k] # "new"

(* The inductive invariant of both contexts.                               *)
OInv == TTypeOK /\ PeekStable /\ Steps /\ Jobs /\ OnAir /\ Placed

USE DEF ring, queues, slotop, lock, mem, flow, In

LEMMA RingSteps ==
  ASSUME TTypeOK, Steps, [TNext]_tvars
  PROVE  [Next]_vars
<1>1. CASE EndTx
  <2>1. ASSUME NEW ok \in BOOLEAN, EndTxGone(ok)
        PROVE  Next
    <3>1. current.pkt \in Elem /\ Fill(current.pkt)
      BY <2>1, TschAssumption DEF EndTxGone, TTypeOK
    <3> QED
      BY <3>1 DEF Next, Producer
  <2>2. CASE EndTxKept \/ Put
    BY <2>2 DEF EndTxKept, Put, Next, Producer
  <2> QED
    BY <1>1, <2>1, <2>2 DEF EndTx
<1>2. ASSUME NEW n \in Nbr, NEW shared \in BOOLEAN, StartTx(n, shared)
      PROVE  Next
  BY <1>2 DEF StartTx, Next, Producer
<1>3. CASE PassShared \/ StartRx \/ EndRx
  BY <1>3 DEF PassShared, StartRx, EndRx
<1>4. CASE Peek \/ Get
  BY <1>4 DEF Peek, Get, Next, Consumer
<1>5. CASE \/ tsch_get_lock \/ tsch_queue_add_nbr \/ Enqueue
           \/ Poll \/ Callback \/ PendingDone
           \/ (\E n \in Nbr : FreeUnused(n)) \/ FreeDone \/ tsch_release_lock \/ tsch_queue_remove_nbr
           \/ FlushHead \/ FlushDone
  BY <1>5 DEF tsch_get_lock, tsch_queue_add_nbr, Enqueue, Poll, Callback, PendingDone, FreeUnused,
     FreeDone, tsch_release_lock, tsch_queue_remove_nbr, FlushHead, FlushDone
<1>6. CASE (\E k \in Packet : Send(k)) \/ (\E n \in Nbr : Flush(n))
  BY <1>6 DEF Send, Flush
<1>7. CASE UNCHANGED tvars
  BY <1>7 DEF tvars
<1> QED
  BY <1>1, <1>2, <1>3, <1>4, <1>5, <1>6, <1>7, TschAssumption
     DEF TNext, Interrupt, SharedSlot, LinkSlot, Main, Torn

\* the steps, one by one
Step ==
  \/ \E n \in Nbr, shared \in BOOLEAN : StartTx(n, shared)
  \/ PassShared \/ StartRx \/ EndRx
  \/ EndTxKept \/ (\E ok \in BOOLEAN : EndTxGone(ok)) \/ Put
  \/ tsch_get_lock \/ tsch_queue_add_nbr \/ Enqueue
  \/ Poll \/ Peek \/ Callback \/ Get \/ PendingDone
  \/ (\E n \in Nbr : FreeUnused(n)) \/ FreeDone \/ tsch_release_lock \/ tsch_queue_remove_nbr
  \/ FlushHead \/ FlushDone
  \/ (\E k \in Packet : Send(k)) \/ (\E n \in Nbr : Flush(n))

LEMMA StepIs == TNext => Step \/ UNCHANGED tvars
BY TschAssumption DEF Step, TNext, Interrupt, SharedSlot, LinkSlot, EndTx, Main, Torn

LEMMA BackoffIs ==
  ASSUME TTypeOK, NEW n \in Nbr, NEW shared \in BOOLEAN, NEW ok \in BOOLEAN, NEW empty \in BOOLEAN,
         NEW w \in Backoff(n, shared, ok, empty)
  PROVE  w \in [Nbr -> Nat] /\ Less(w) \in [Nbr -> Nat]
<1>1. window \in [Nbr -> Nat] /\ 0 \in Nat /\ \A x \in 1 .. MaxWindow + 1 : x \in Nat
  BY DEF TTypeOK
<1>2. w \in [Nbr -> Nat]
  BY <1>1 DEF Backoff
<1> QED
  BY <1>2 DEF Less

\* what a packet list in a queue is made of
LEMMA HeadIs ==
  ASSUME NEW q \in Seq(Packet), q # << >>
  PROVE  Head(q) \in Packet /\ Tail(q) \in Seq(Packet)
OBVIOUS

LEMMA SlotTypes ==
  ASSUME OInv, TypeOK',
         \/ \E n \in Nbr, shared \in BOOLEAN : StartTx(n, shared)
         \/ PassShared \/ StartRx \/ EndRx
         \/ EndTxKept \/ (\E ok \in BOOLEAN : EndTxGone(ok)) \/ Put
  PROVE  TTypeOK'
<1> USE DEF TTypeOK
<1>1. TTypeOK /\ Steps
  BY DEF OInv
<1>2. ASSUME NEW n \in Nbr, NEW shared \in BOOLEAN, StartTx(n, shared)
      PROVE  TTypeOK'
  <2>1. tx[n] \in Seq(Packet) /\ tx[n] # << >>
    BY <1>1, <1>2 DEF StartTx, Shared, Dedicated, Ready
  <2>2. Head(tx[n]) \in Packet
    BY <2>1, HeadIs
  <2> QED
    BY <1>1, <1>2, <2>2 DEF StartTx
<1>3. window \in [Nbr -> Nat] => Less(window) \in [Nbr -> Nat]
  BY DEF Less
<1>4. CASE PassShared \/ StartRx \/ EndRx
  BY <1>1, <1>3, <1>4 DEF PassShared, StartRx, EndRx
<1>5. CASE EndTxKept
  <2>1. current.pkt \in Packet /\ current.nbr \in Nbr /\ current.shared \in BOOLEAN
    BY <1>1, <1>5 DEF EndTxKept
  <2>2. window' \in [Nbr -> Nat]
    <3>1. PICK w \in Backoff(current.nbr, current.shared, FALSE, FALSE) :
            window' = IF current.shared THEN Less(w) ELSE w
      BY <1>5 DEF EndTxKept
    <3>2. w \in [Nbr -> Nat] /\ Less(w) \in [Nbr -> Nat]
      BY <1>1, <2>1, BackoffIs
    <3> QED
      BY <3>1, <3>2
  <2> QED
    BY <1>1, <1>5, <2>2 DEF EndTxKept, EndSlot
<1>6. ASSUME NEW ok \in BOOLEAN, EndTxGone(ok)
      PROVE  TTypeOK'
  <2>1. current.pkt \in Packet /\ current.nbr \in Nbr /\ current.shared \in BOOLEAN
    BY <1>1, <1>6 DEF EndTxGone
  <2>2. window' \in [Nbr -> Nat]
    <3> DEFINE empty == tx'[current.nbr] = << >>
    <3>1. PICK w \in Backoff(current.nbr, current.shared, ok, empty) :
            window' = IF current.shared THEN Less(w) ELSE w
      BY <1>6 DEF EndTxGone
    <3>2. empty \in BOOLEAN
      OBVIOUS
    <3> HIDE DEF empty
    <3>3. w \in [Nbr -> Nat] /\ Less(w) \in [Nbr -> Nat]
      BY <1>1, <2>1, <3>2, BackoffIs
    <3> QED
      BY <3>1, <3>3
  <2>3. tx' \in [Nbr -> Seq(Packet)]
    BY <1>1, <1>6, HeadIs DEF EndTxGone, WithoutHead
  <2> QED
    BY <1>1, <1>6, <2>2, <2>3 DEF EndTxGone
<1>7. CASE Put
  BY <1>1, <1>7 DEF Put, EndSlot
<1> QED
  BY <1>2, <1>4, <1>5, <1>6, <1>7

LEMMA MainTypes ==
  ASSUME OInv, TypeOK',
         \/ tsch_get_lock \/ tsch_queue_add_nbr \/ Enqueue
         \/ Poll \/ Peek \/ Callback \/ Get \/ PendingDone
         \/ (\E n \in Nbr : FreeUnused(n)) \/ FreeDone \/ tsch_release_lock \/ tsch_queue_remove_nbr
         \/ FlushHead \/ FlushDone
         \/ (\E k \in Packet : Send(k)) \/ (\E n \in Nbr : Flush(n))
  PROVE  TTypeOK'
<1> USE DEF TTypeOK
<1>1. TTypeOK /\ Jobs
  BY DEF OInv
<1>2. CASE tsch_get_lock \/ Poll \/ FreeDone \/ FlushDone \/ tsch_release_lock
  BY <1>1, <1>2 DEF tsch_get_lock, Poll, FreeDone, FlushDone, tsch_release_lock
<1>12. CASE Peek \/ Get
  BY <1>1, <1>12 DEF Peek, Get
<1>3. CASE tsch_queue_add_nbr
  <2>1. job.nbr \in Nbr
    BY <1>1, <1>3, TschAssumption DEF tsch_queue_add_nbr, At, Jobs, Adding, Removing
  <2>2. << >> \in Seq(Packet)
    OBVIOUS
  <2>3. CASE Cardinality(nbrs) < MaxNbrs
    <3>0. /\ tx' = [tx EXCEPT ![job.nbr] = << >>] /\ window' = [window EXCEPT ![job.nbr] = 0]
          /\ nbrs' = nbrs \cup {job.nbr}
      BY <1>3, <2>3 DEF tsch_queue_add_nbr
    <3>1. tx' \in [Nbr -> Seq(Packet)] /\ window' \in [Nbr -> Nat] /\ nbrs' \subseteq Nbr
      <4>1. tx' \in [Nbr -> Seq(Packet)]
        BY <1>1, <2>2, <3>0
      <4>2. window' \in [Nbr -> Nat] /\ nbrs' \subseteq Nbr
        BY <1>1, <2>1, <3>0
      <4> QED
        BY <4>1, <4>2
    <3> QED
      BY <1>1, <1>3, <3>1 DEF tsch_queue_add_nbr
  <2>4. CASE ~(Cardinality(nbrs) < MaxNbrs)
    BY <1>1, <1>3, <2>4 DEF tsch_queue_add_nbr
  <2> QED
    BY <2>3, <2>4
<1>4. CASE Enqueue
  <2>1. job.pkt \in Packet /\ job.nbr \in Nbr
    BY <1>1, <1>4, TschAssumption DEF Enqueue, At, Jobs, Adding
  <2>2. Append(tx[job.nbr], job.pkt) \in Seq(Packet)
    BY <1>1, <2>1, QueueAppend
  <2>3. tx' \in [Nbr -> Seq(Packet)]
    BY <1>1, <1>4, <2>1, <2>2 DEF Enqueue
  <2>4. /\ packet_memb' \subseteq Packet
        /\ report' \in [Packet -> {"new", "queued", "refused", "called", "flushed"}]
    BY <1>1, <1>4, <2>1 DEF Enqueue
  <2> QED
    BY <1>1, <1>4, <2>3, <2>4 DEF Enqueue
<1>5. CASE Callback
  BY <1>1, <1>5 DEF Callback
<1>6. CASE PendingDone
  BY <1>1, <1>6 DEF PendingDone
<1>7. ASSUME NEW n \in Nbr, FreeUnused(n)
      PROVE  TTypeOK'
  <2>1. [for |-> "remove", nbr |-> n, pkt |-> NULL] \in Job
    BY DEF Job
  <2>2. CASE Unused(n)
    BY <1>1, <1>7, <2>1, <2>2 DEF FreeUnused
  <2>3. CASE ~Unused(n)
    BY <1>1, <1>7, <2>3 DEF FreeUnused
  <2> QED
    BY <2>2, <2>3
<1>8. CASE tsch_queue_remove_nbr
  BY <1>1, <1>8 DEF tsch_queue_remove_nbr
<1>9. CASE FlushHead
  <2>1. tx' \in [Nbr -> Seq(Packet)]
    BY <1>1, <1>9, HeadIs DEF FlushHead
  <2> QED
    BY <1>1, <1>9, <2>1 DEF FlushHead
<1>10. ASSUME NEW k \in Packet, Send(k)
       PROVE  TTypeOK'
  BY <1>1, <1>10, TschAssumption DEF Send, Job
<1>11. ASSUME NEW n \in Nbr, Flush(n)
       PROVE  TTypeOK'
  BY <1>1, <1>11 DEF Flush, Job
<1> QED
  BY <1>2, <1>3, <1>4, <1>5, <1>6, <1>7, <1>8, <1>9, <1>10, <1>11, <1>12

LEMMA TypesKept ==
  ASSUME OInv, [TNext]_tvars
  PROVE  TTypeOK' /\ PeekStable'
<1>1. TypeOK /\ PeekStable /\ TTypeOK /\ Steps
  BY DEF OInv, TTypeOK
<1>2. TypeOK' /\ PeekStable'
  BY <1>1, TypeKept, PeekKept, RingSteps
<1>3. CASE UNCHANGED tvars
  BY <1>1, <1>2, <1>3 DEF tvars, TTypeOK
<1>4. CASE Step
  BY <1>2, <1>4, SlotTypes, MainTypes DEF Step
<1> QED
  BY <1>2, <1>3, <1>4, StepIs

LEMMA StepsKept ==
  ASSUME OInv, Step
  PROVE  Steps'
<1>1. /\ TTypeOK /\ TypeOK /\ Steps /\ (prod # "idle" => ~Full) /\ (cons # "idle" => ~Empty)
  BY DEF OInv, TTypeOK, PeekStable
<1> USE DEF Steps, TypeOK
<1>2. ASSUME NEW n \in Nbr, NEW shared \in BOOLEAN, StartTx(n, shared)
      PROVE  Steps'
  BY <1>1, <1>2 DEF StartTx, Shared, Dedicated, Ready, PeekPut
<1>3. CASE PassShared \/ StartRx \/ EndRx
  BY <1>1, <1>3 DEF PassShared, StartRx, EndRx, vars
<1>4. CASE EndTxKept
  BY <1>1, <1>4 DEF EndTxKept, EndSlot, PutLeave
<1>5. ASSUME NEW ok \in BOOLEAN, EndTxGone(ok)
      PROVE  Steps'
  BY <1>1, <1>5 DEF EndTxGone, Fill
<1>6. CASE Put
  BY <1>1, <1>6 DEF Put, EndSlot, PutTest, PutAdvance
<1>7. CASE tsch_get_lock \/ tsch_queue_add_nbr \/ tsch_release_lock \/ tsch_queue_remove_nbr
  BY <1>1, <1>7 DEF tsch_get_lock, tsch_queue_add_nbr, tsch_release_lock, tsch_queue_remove_nbr, At, vars
<1>8. CASE Enqueue \/ Poll \/ PendingDone \/ FreeDone \/ FlushDone
  BY <1>1, <1>8 DEF Enqueue, Poll, PendingDone, FreeDone, FlushDone, At, vars
<1>11. CASE FlushHead
  <2>1. /\ UNCHANGED <<slot, prod, locked, cons, main>> /\ prod \in {"idle", "fill"}
        /\ torn' => slot = "tx"
    BY <1>11 DEF FlushHead, At, vars
  <2> QED
    BY <1>1, <2>1
<1>9. CASE Peek \/ Callback \/ Get
  BY <1>1, <1>9 DEF Peek, Callback, Get, At, PeekGet, GetTest, GetAdvance, vars
<1>10. CASE \/ \E n \in Nbr : FreeUnused(n) \/ Flush(n)
            \/ \E k \in Packet : Send(k)
  BY <1>1, <1>10 DEF FreeUnused, Flush, Send, At, vars
<1> QED
  BY <1>2, <1>3, <1>4, <1>5, <1>6, <1>7, <1>8, <1>9, <1>10, <1>11 DEF Step

LEMMA JobsKept ==
  ASSUME OInv, Step
  PROVE  Jobs'
<1>1. TTypeOK /\ TypeOK /\ Steps /\ Jobs /\ OnAir
  BY DEF OInv, TTypeOK
<1>2. ASSUME NEW n \in Nbr, NEW shared \in BOOLEAN, StartTx(n, shared)
      PROVE  Jobs'
  <2>1. /\ UNCHANGED <<main, job, nbrs, tx, report>> /\ prod' = "fill" /\ current'.nbr = n
    BY <1>2 DEF StartTx, PeekPut
  <2> QED
    BY <1>1, <2>1 DEF Jobs, Adding, Removing
<1>3. CASE PassShared \/ StartRx \/ EndRx
  BY <1>1, <1>3 DEF PassShared, StartRx, EndRx, vars, Jobs, Adding, Removing
<1>4. CASE EndTxKept
  <2>1. UNCHANGED <<main, job, nbrs, tx, report>> /\ prod' = "idle"
    BY <1>4 DEF EndTxKept, EndSlot, PutLeave
  <2> QED
    BY <1>1, <2>1 DEF Jobs, Adding, Removing
<1>5. ASSUME NEW ok \in BOOLEAN, EndTxGone(ok)
      PROVE  Jobs'
  <2>1. UNCHANGED <<main, job, nbrs, report>> /\ prod' = "put" /\ prod = "fill"
    BY <1>5 DEF EndTxGone, Fill
  <2>2. tx[current.nbr] # << >>
    BY <1>1, <1>5, <2>1 DEF OnAir, EndTxGone
  <2>3. \A n \in Nbr : tx[n] = << >> => tx'[n] = << >>
    BY <1>1, <1>5, <2>2 DEF EndTxGone, WithoutHead, TTypeOK
  <2> QED
    BY <1>1, <2>1, <2>3 DEF Jobs, Adding, Removing
<1>6. CASE Put
  <2>1. UNCHANGED <<main, job, nbrs, tx, report>> /\ prod' # "fill"
    BY <1>6 DEF Put, PutTest, PutAdvance
  <2> QED
    BY <1>1, <2>1 DEF Jobs, Adding, Removing
<1>7. CASE tsch_get_lock
  BY <1>1, <1>7 DEF tsch_get_lock, At, vars, Jobs, Adding, Removing
<1>8. CASE tsch_queue_add_nbr
  BY <1>1, <1>8 DEF tsch_queue_add_nbr, At, vars, Jobs, Adding, Removing
<1>9. CASE tsch_release_lock
  BY <1>1, <1>9 DEF tsch_release_lock, At, vars, Jobs, Adding, Removing
<1>10. CASE tsch_queue_remove_nbr \/ Enqueue \/ Poll \/ PendingDone \/ FreeDone \/ FlushDone
  BY <1>10 DEF tsch_queue_remove_nbr, Enqueue, Poll, PendingDone, FreeDone, FlushDone, Jobs
<1>11. CASE FlushHead
  <2>1. main = "flush" /\ UNCHANGED <<main, job, prod, current>>
    BY <1>1, <1>11 DEF FlushHead, Jobs, Removing, vars, At
  <2> QED
    BY <1>1, <2>1 DEF Jobs
<1>12. CASE Peek \/ Callback \/ Get
  <2>1. main' \in {"pending", "reported"}
    BY <1>12 DEF Peek, Callback, Get, At
  <2> QED
    BY <2>1 DEF Jobs
<1>13. ASSUME NEW n \in Nbr, FreeUnused(n)
       PROVE  Jobs'
  <2>1. CASE Unused(n)
    BY <1>1, <1>13, <2>1 DEF FreeUnused, Jobs, Unused, Removing
  <2>2. CASE ~Unused(n)
    BY <1>1, <1>13, <2>2 DEF FreeUnused, Jobs, At
  <2> QED
    BY <2>1, <2>2
<1>14. ASSUME NEW n \in Nbr, Flush(n)
       PROVE  Jobs'
  BY <1>1, <1>14 DEF Flush, Jobs, Steps, vars
<1>15. ASSUME NEW k \in Packet, Send(k)
       PROVE  Jobs'
  BY <1>1, <1>15 DEF Send, Jobs, Adding
<1> QED
  BY <1>2, <1>3, <1>4, <1>5, <1>6, <1>7, <1>8, <1>9, <1>10, <1>11, <1>12, <1>13, <1>14, <1>15 DEF Step

LEMMA OnAirKept ==
  ASSUME OInv, Step
  PROVE  OnAir'
<1>1. TTypeOK /\ TypeOK /\ Steps /\ Jobs /\ OnAir
  BY DEF OInv, TTypeOK
<1>2. ASSUME NEW n \in Nbr, NEW shared \in BOOLEAN, StartTx(n, shared)
      PROVE  OnAir'
  <2>1. /\ n \in nbrs /\ tx[n] # << >> /\ UNCHANGED <<nbrs, tx>>
        /\ prod' = "fill" /\ current'.nbr = n /\ current'.pkt = Head(tx[n])
    BY <1>2 DEF StartTx, PeekPut, Shared, Dedicated, Ready
  <2> QED
    BY <2>1 DEF OnAir
<1>3. CASE PassShared \/ StartRx \/ EndRx
  BY <1>1, <1>3 DEF PassShared, StartRx, EndRx, vars, OnAir, Steps
<1>4. CASE EndTxKept
  BY <1>4 DEF EndTxKept, PutLeave, OnAir
<1>5. ASSUME NEW ok \in BOOLEAN, EndTxGone(ok)
      PROVE  OnAir'
  <2>1. /\ slots' = [slots EXCEPT ![put_ptr] = current.pkt] /\ UNCHANGED <<put_ptr, current>>
        /\ prod' = "put"
    BY <1>5 DEF EndTxGone, Fill
  <2> QED
    BY <1>1, <2>1 DEF OnAir, TypeOK
<1>6. CASE Put
  <2>1. CASE PutTest
    <3>1. prod' \in {"idle", "advance"} /\ prod = "put" /\ UNCHANGED <<slots, put_ptr>>
      BY <2>1 DEF PutTest
    <3>2. prod' = "advance" => current' = current
      BY <1>6, <2>1 DEF Put, PutTest, EndSlot, PutAdvance
    <3> QED
      BY <1>1, <3>1, <3>2 DEF OnAir, Steps
  <2>2. CASE PutAdvance
    BY <2>2 DEF PutAdvance, OnAir
  <2> QED
    BY <1>6, <2>1, <2>2 DEF Put
<1>7. CASE tsch_queue_add_nbr
  <2>1. prod = "idle" /\ prod' = prod
    BY <1>1, <1>7 DEF tsch_queue_add_nbr, At, Steps, vars
  <2> QED
    BY <2>1 DEF OnAir
<1>8. CASE tsch_queue_remove_nbr
  <2>1. prod = "fill" => current.nbr # job.nbr
    BY <1>1, <1>8 DEF tsch_queue_remove_nbr, OnAir, At
  <2> QED
    BY <1>1, <1>8, <2>1 DEF tsch_queue_remove_nbr, OnAir, At, vars
<1>9. CASE Enqueue
  <2>1. UNCHANGED <<nbrs, prod, current>> /\ prod \in {"idle", "fill"} /\ ~torn
    BY <1>9 DEF Enqueue, At, vars
  <2>2. job.pkt \in Packet /\ job.nbr \in Nbr
    BY <1>1, <1>9, TschAssumption DEF Enqueue, At, Jobs, Adding
  <2>3. tx' = tx \/ tx' = [tx EXCEPT ![job.nbr] = Append(tx[job.nbr], job.pkt)]
    BY <1>9 DEF Enqueue
  <2>4. \A q \in Seq(Packet) : q # << >> => Append(q, job.pkt) # << >> /\ Head(Append(q, job.pkt)) = Head(q)
    BY <2>2
  <2>5. ASSUME NEW n \in Nbr, tx[n] # << >>
        PROVE  tx'[n] # << >> /\ Head(tx'[n]) = Head(tx[n])
    <3>1. tx[n] \in Seq(Packet) /\ tx \in [Nbr -> Seq(Packet)]
      BY <1>1 DEF TTypeOK
    <3>2. tx'[n] = tx[n] \/ tx'[n] = Append(tx[n], job.pkt)
      BY <2>2, <2>3, <3>1
    <3> QED
      BY <2>4, <2>5, <3>1, <3>2
  <2>6. prod = "fill" => current.nbr \in Nbr
    BY <1>1 DEF TTypeOK, Steps
  <2> QED
    BY <1>1, <2>1, <2>5, <2>6 DEF OnAir
<1>10. CASE FlushHead
  <2>1. /\ prod \in {"idle", "fill"} /\ UNCHANGED <<nbrs, prod, current>> /\ ~torn
        /\ torn' = (slot = "tx" /\ Head(tx[job.nbr]) = current.pkt)
        /\ tx' = [tx EXCEPT ![job.nbr] = Tail(@)]
    BY <1>10 DEF FlushHead, At, vars
  <2>2. CASE prod = "fill" /\ ~torn'
    <3>1. slot = "tx" /\ current.nbr \in Nbr
      BY <1>1, <2>2 DEF Steps, TTypeOK
    <3>2. job.nbr # current.nbr
      BY <1>1, <2>1, <2>2, <3>1 DEF OnAir
    <3>3. tx'[current.nbr] = tx[current.nbr]
      BY <1>1, <2>1, <3>1, <3>2 DEF TTypeOK
    <3> QED
      BY <1>1, <2>1, <2>2, <3>3 DEF OnAir
  <2>3. CASE ~(prod = "fill" /\ ~torn')
    BY <2>1, <2>3 DEF OnAir
  <2> QED
    BY <2>2, <2>3
<1>11. CASE tsch_get_lock \/ tsch_release_lock \/ Poll \/ PendingDone \/ FreeDone \/ FlushDone \/ Callback
  BY <1>1, <1>11 DEF tsch_get_lock, tsch_release_lock, Poll, PendingDone, FreeDone, FlushDone,
     Callback, vars, OnAir
<1>12. CASE Peek \/ Get
  BY <1>1, <1>12 DEF Peek, Get, PeekGet, GetTest, GetAdvance, OnAir
<1>13. CASE \/ \E n \in Nbr : FreeUnused(n) \/ Flush(n)
            \/ \E k \in Packet : Send(k)
  BY <1>1, <1>13 DEF FreeUnused, Flush, Send, vars, OnAir
<1> QED
  BY <1>2, <1>3, <1>4, <1>5, <1>6, <1>7, <1>8, <1>9, <1>10, <1>11, <1>12, <1>13 DEF Step

\* what is on the ring and not called, and what joins it
Out == IF main = "reported" THEN Tail(Waiting) ELSE Waiting

LEMMA OutIs ==
  ASSUME TTypeOK, Steps, PeekStable, Waiting \in Seq(Packet)
  PROVE  /\ Out \in Seq(Packet)
         /\ cons # "idle" => Waiting # << >> /\ Head(Waiting) = slots[get_ptr]
<1>1. TypeOK
  BY DEF TTypeOK
<1>2. cons # "idle" => Waiting # << >> /\ Head(Waiting) = slots[get_ptr]
  BY <1>1, WaitingIs DEF PeekStable
<1> QED
  BY <1>2, HeadIs DEF Out, Steps

LEMMA DequeuedIs ==
  ASSUME Out \in Seq(Packet)
  PROVE  /\ prod \in {"put", "advance"} /\ current.pkt \in Packet => Dequeued = Append(Out, current.pkt)
         /\ prod \notin {"put", "advance"} => Dequeued = Out
<1>1. Dequeued = Out \o (IF prod \in {"put", "advance"} THEN <<current.pkt>> ELSE << >>)
  BY DEF Dequeued, Out
<1> QED
  BY <1>1, Joined

LEMMA DequeuedNext ==
  ASSUME Out' \in Seq(Packet)
  PROVE  /\ prod' \in {"put", "advance"} /\ current'.pkt \in Packet => Dequeued' = Append(Out', current'.pkt)
         /\ prod' \notin {"put", "advance"} => Dequeued' = Out'
<1>1. Dequeued' = Out' \o (IF prod' \in {"put", "advance"} THEN <<current'.pkt>> ELSE << >>)
  BY DEF Dequeued, Out
<1> QED
  BY <1>1, Joined

\* the ring stays as it is
LEMMA WaitingSame == UNCHANGED <<put_ptr, get_ptr, slots>> => Waiting' = Waiting
BY DEF Waiting

\* what a step does to the packets' queues: nothing; one is queued; one goes
\* from the head of its neighbor's queue to the ring; one leaves the ring;
\* one is flushed
Adds(k) ==
  /\ Dequeued' = Dequeued /\ tx' = [tx EXCEPT ![Dest[k]] = Append(@, k)]
  /\ k \notin packet_memb /\ Cardinality(packet_memb) < QUEUEBUF_NUM
Moves(n) ==
  /\ tx[n] # << >>
  /\ Dequeued' = Append(Dequeued, Head(tx[n])) /\ tx' = [tx EXCEPT ![n] = Tail(@)]
Leaves == Dequeued # << >> /\ Dequeued' = Tail(Dequeued) /\ tx' = tx
Flushes ==
  /\ main \in {"flush", "remove"} /\ job.nbr \in Nbr
  /\ Dequeued' = Dequeued /\ \A o \in Nbr \ {job.nbr} : tx'[o] = tx[o]

Flow ==
  \/ UNCHANGED <<Dequeued, tx>>
  \/ (\E k \in Packet : Adds(k)) \/ (\E n \in Nbr : Moves(n)) \/ Leaves \/ Flushes

LEMMA PlacedFrom ==
  ASSUME Waiting' \in Seq(Packet), InPlace(Dequeued', tx', packet_memb'),
         \A n \in Nbr \ nbrs' : tx'[n] = << >>,
         \A k \in packet_memb' : report'[k] # "new"
  PROVE  Placed'
BY DEF Placed

\* a step that moves no packet
LEMMA PlacedSame ==
  ASSUME OInv, Waiting' \in Seq(Packet), Dequeued' = Dequeued, UNCHANGED <<tx, packet_memb, report>>,
         \A n \in Nbr \ nbrs' : n \notin nbrs \/ tx[n] = << >>
  PROVE  Placed' /\ Flow
BY DEF OInv, Placed, Flow

LEMMA SlotPlaces ==
  ASSUME OInv, TTypeOK',
         \/ \E n \in Nbr, shared \in BOOLEAN : StartTx(n, shared)
         \/ PassShared \/ StartRx \/ EndRx
         \/ EndTxKept \/ (\E ok \in BOOLEAN : EndTxGone(ok)) \/ Put
  PROVE  Placed' /\ Flow
<1>1. /\ TTypeOK /\ TypeOK /\ Steps /\ PeekStable /\ OnAir /\ Placed /\ Waiting \in Seq(Packet)
      /\ Out \in Seq(Packet)
  BY OutIs DEF OInv, TTypeOK, Placed
<1>2. prod # "idle" => current.pkt \in Packet /\ current.nbr \in Nbr
  BY <1>1 DEF TTypeOK, Steps
<1>3. CASE \/ \E n \in Nbr, shared \in BOOLEAN : StartTx(n, shared)
           \/ PassShared \/ StartRx \/ EndRx \/ EndTxKept
  <2>1. /\ UNCHANGED <<put_ptr, get_ptr, slots, main, nbrs, tx, packet_memb, report>>
        /\ prod \notin {"put", "advance"} /\ prod' \notin {"put", "advance"}
    BY <1>1, <1>3 DEF StartTx, PassShared, StartRx, EndRx, EndTxKept, PeekPut, PutLeave, vars, Steps
  <2>2. Waiting' = Waiting /\ Out' = Out
    BY <2>1, WaitingSame DEF Out
  <2>3. Dequeued' = Dequeued
    BY <1>1, <2>1, <2>2, DequeuedIs, DequeuedNext
  <2> QED
    BY <1>1, <2>1, <2>2, <2>3, PlacedSame
<1>4. ASSUME NEW ok \in BOOLEAN, EndTxGone(ok)
      PROVE  Placed' /\ Flow
  <2> DEFINE n == current.nbr
             k == current.pkt
  <2>1. /\ Fill(k) /\ k \in Elem /\ n \in Nbr /\ k \in Packet /\ prod = "fill" /\ prod' = "put"
        /\ UNCHANGED <<main, nbrs, packet_memb, report, current>>
    BY <1>2, <1>4, TschAssumption DEF EndTxGone, Fill
  <2>2. tx[n] # << >> /\ Head(tx[n]) = k /\ ~locked
    BY <1>1, <1>4, <2>1 DEF OnAir, Steps, EndTxGone
  <2>3. tx' = [tx EXCEPT ![n] = Tail(@)]
    BY <1>4, <2>2 DEF EndTxGone, WithoutHead
  <2>4. Waiting' = Waiting /\ Out' = Out
    BY <1>1, <2>1, FillUnseen DEF Out
  <2>5. Dequeued = Out /\ Dequeued' = Append(Out, k)
    BY <1>1, <2>1, <2>4, DequeuedIs, DequeuedNext
  <2>6. InPlace(Append(Out, Head(tx[n])), [tx EXCEPT ![n] = Tail(@)], packet_memb)
    BY <1>1, <2>1, <2>2, <2>5, PlaceMoved DEF Placed, TTypeOK
  <2>7. InPlace(Dequeued', tx', packet_memb')
    BY <2>1, <2>2, <2>3, <2>5, <2>6
  <2>8. \A o \in Nbr \ nbrs' : tx'[o] = << >>
    BY <1>1, <2>1, <2>2, <2>3 DEF Placed, TTypeOK
  <2>9. Flow
    BY <2>1, <2>2, <2>3, <2>5 DEF Flow, Moves
  <2> QED
    BY <1>1, <2>1, <2>4, <2>7, <2>8, <2>9, PlacedFrom DEF Placed
<1>5. CASE Put
  <2>1. UNCHANGED <<main, nbrs, tx, packet_memb, report>>
    BY <1>5 DEF Put
  <2>2. CASE PutTest
    <3>1. /\ UNCHANGED <<put_ptr, get_ptr, slots, current>> /\ prod = "put" /\ prod' = "advance"
      BY <1>1, <1>5, <2>2 DEF Put, PutTest, PutAdvance, PeekStable
    <3>2. Waiting' = Waiting /\ Out' = Out
      BY <2>1, <3>1, WaitingSame DEF Out
    <3>3. Dequeued' = Dequeued
      BY <1>1, <1>2, <3>1, <3>2, DequeuedIs, DequeuedNext
    <3> QED
      BY <1>1, <2>1, <3>2, <3>3, PlacedSame
  <2>3. CASE PutAdvance
    <3> DEFINE k == current.pkt
    <3>1. /\ Waiting' = Append(Waiting, k) /\ k \in Packet /\ prod = "advance" /\ prod' = "idle"
      BY <1>1, <1>2, <2>3, PutAppends DEF PutAdvance, OnAir, Steps
    <3> HIDE DEF k
    <3>2. Waiting' \in Seq(Packet)
      BY <1>1, <3>1, Joined
    <3>3. main = "reported" => Tail(Append(Waiting, k)) = Append(Tail(Waiting), k)
      <4> SUFFICES ASSUME main = "reported"
                   PROVE  Tail(Append(Waiting, k)) = Append(Tail(Waiting), k)
        OBVIOUS
      <4>1. Waiting # << >>
        BY <1>1, OutIs DEF Steps
      <4> QED
        BY <1>1, <3>1, <4>1
    <3>4. Out' = Append(Out, k)
      BY <2>1, <3>1, <3>3 DEF Out
    <3>5. Out' \in Seq(Packet)
      BY <1>1, <3>1, <3>4, Joined
    <3>6. Dequeued' = Dequeued
      BY <1>1, <1>2, <3>1, <3>4, <3>5, DequeuedIs, DequeuedNext DEF k
    <3> QED
      BY <1>1, <2>1, <3>2, <3>6, PlacedSame
  <2> QED
    BY <1>5, <2>2, <2>3 DEF Put
<1> QED
  BY <1>3, <1>4, <1>5

LEMMA MainPlaces ==
  ASSUME OInv, TTypeOK',
         \/ tsch_get_lock \/ tsch_queue_add_nbr \/ Enqueue
         \/ Poll \/ Peek \/ Callback \/ Get \/ PendingDone
         \/ (\E n \in Nbr : FreeUnused(n)) \/ FreeDone \/ tsch_release_lock \/ tsch_queue_remove_nbr
         \/ FlushHead \/ FlushDone
         \/ (\E k \in Packet : Send(k)) \/ (\E n \in Nbr : Flush(n))
  PROVE  Placed' /\ Flow
<1>1. /\ TTypeOK /\ TypeOK /\ Steps /\ PeekStable /\ Jobs /\ Placed /\ Waiting \in Seq(Packet)
      /\ Out \in Seq(Packet)
  BY OutIs DEF OInv, TTypeOK, Placed
<1>2. prod \in {"idle", "fill"}
  BY DEF tsch_get_lock, tsch_queue_add_nbr, Enqueue, Poll, Peek, Callback, Get, PendingDone, FreeUnused,
     FreeDone, tsch_release_lock, tsch_queue_remove_nbr, FlushHead, FlushDone, Send, Flush, At
<1>3. Dequeued = Out
  BY <1>1, <1>2, DequeuedIs
\* neither the ring nor what is out of it changes
<1>4. ASSUME UNCHANGED <<put_ptr, get_ptr, slots>>, prod' = prod,
             main = "reported" <=> main' = "reported"
      PROVE  Waiting' = Waiting /\ Dequeued' = Dequeued
  <2>1. Waiting' = Waiting /\ Out' = Out
    BY <1>4, WaitingSame DEF Out
  <2> QED
    BY <1>1, <1>2, <1>3, <1>4, <2>1, DequeuedNext
<1>5. CASE \/ tsch_get_lock \/ Poll \/ PendingDone \/ FreeDone \/ tsch_release_lock \/ FlushDone
           \/ Peek \/ \E n \in Nbr : FreeUnused(n) \/ Flush(n)
           \/ \E k \in Packet : Send(k)
  <2>1. /\ UNCHANGED <<put_ptr, get_ptr, slots>> /\ prod' = prod
        /\ UNCHANGED <<nbrs, tx, packet_memb, report>>
    BY <1>5 DEF tsch_get_lock, Poll, PendingDone, FreeDone, tsch_release_lock, FlushDone, Peek, PeekGet,
       FreeUnused, Flush, Send, vars
  <2>2. main # "reported" /\ main' # "reported"
    BY <1>5 DEF tsch_get_lock, Poll, PendingDone, FreeDone, tsch_release_lock, FlushDone, Peek,
       FreeUnused, Flush, Send, At
  <2> QED
    BY <1>1, <1>4, <2>1, <2>2, PlacedSame
<1>6. CASE tsch_queue_add_nbr
  <2>1. /\ UNCHANGED <<put_ptr, get_ptr, slots>> /\ prod' = prod /\ main # "reported" /\ main' # "reported"
        /\ UNCHANGED <<packet_memb, report>> /\ nbrs \subseteq nbrs'
    BY <1>6 DEF tsch_queue_add_nbr, At, vars
  <2>2. job.nbr \in Nbr \ nbrs
    BY <1>1, <1>6, TschAssumption DEF tsch_queue_add_nbr, At, Jobs, Adding
  <2>3. tx[job.nbr] = << >>
    BY <1>1, <2>2 DEF Placed
  <2>4. tx' = tx
    BY <1>1, <1>6, <2>2, <2>3 DEF tsch_queue_add_nbr, TTypeOK
  <2> QED
    BY <1>1, <1>4, <2>1, <2>4, PlacedSame
<1>7. CASE tsch_queue_remove_nbr
  <2>1. /\ UNCHANGED <<put_ptr, get_ptr, slots>> /\ prod' = prod /\ main # "reported" /\ main' # "reported"
        /\ UNCHANGED <<tx, packet_memb, report>> /\ nbrs' = nbrs \ {job.nbr} /\ tx[job.nbr] = << >>
    BY <1>7 DEF tsch_queue_remove_nbr, At, vars
  <2> QED
    BY <1>1, <1>4, <2>1, PlacedSame
<1>8. CASE Enqueue
  <2> DEFINE n == job.nbr
             k == job.pkt
  <2>1. /\ UNCHANGED <<put_ptr, get_ptr, slots>> /\ prod' = prod /\ main # "reported" /\ main' # "reported"
        /\ nbrs' = nbrs
    BY <1>8 DEF Enqueue, At, vars
  <2>2. Waiting' = Waiting /\ Dequeued' = Dequeued
    BY <1>4, <2>1
  <2>3. k \in Packet /\ n = Dest[k] /\ k \notin packet_memb
    BY <1>1, <1>8 DEF Enqueue, At, Jobs, Adding, Placed
  <2>4. CASE n \in nbrs /\ packet_memb' = packet_memb \cup {k}
             /\ tx' = [tx EXCEPT ![n] = Append(@, k)] /\ report' = [report EXCEPT ![k] = "queued"]
             /\ Cardinality(packet_memb) < QUEUEBUF_NUM
    <3>1. InPlace(Dequeued, [tx EXCEPT ![Dest[k]] = Append(@, k)], packet_memb \cup {k})
      BY <1>1, <1>3, <2>3, PlaceAdded DEF Placed, TTypeOK
    <3>2. \A o \in Nbr \ nbrs : tx'[o] = << >>
      BY <1>1, <2>4 DEF Placed, TTypeOK
    <3>3. \A j \in packet_memb' : report'[j] # "new"
      BY <1>1, <2>3, <2>4 DEF Placed, TTypeOK
    <3>4. Flow
      BY <2>2, <2>3, <2>4 DEF Flow, Adds
    <3> QED
      BY <1>1, <2>1, <2>2, <2>3, <2>4, <3>1, <3>2, <3>3, <3>4, PlacedFrom
  <2>5. CASE UNCHANGED <<tx, packet_memb>> /\ report' = [report EXCEPT ![k] = "refused"]
    <3>1. \A j \in packet_memb : report'[j] # "new"
      BY <1>1, <2>3, <2>5 DEF Placed, TTypeOK
    <3>2. Flow
      BY <2>2, <2>5 DEF Flow
    <3> QED
      BY <1>1, <2>1, <2>2, <2>5, <3>1, <3>2, PlacedFrom DEF Placed
  <2> QED
    BY <1>8, <2>4, <2>5 DEF Enqueue
<1>9. CASE Callback
  <2> DEFINE k == slots[get_ptr]
  <2>1. /\ UNCHANGED <<put_ptr, get_ptr, slots, tx, nbrs>> /\ prod' = prod
        /\ main = "pending" /\ main' = "reported"
        /\ cons = "use" /\ packet_memb' = packet_memb \ {k} /\ report' = [report EXCEPT ![k] = "called"]
    BY <1>9 DEF Callback, At, vars
  <2>2. Waiting # << >> /\ Head(Waiting) = k
    BY <1>1, <2>1, OutIs
  <2>3. Waiting' = Waiting /\ Out = Waiting /\ Out' = Tail(Waiting)
    BY <2>1, WaitingSame DEF Out
  <2>4. Out' \in Seq(Packet)
    BY <1>1, <2>2, <2>3, HeadIs
  <2>5. Dequeued' = Tail(Dequeued)
    BY <1>2, <1>3, <2>1, <2>3, <2>4, DequeuedNext
  <2>6. InPlace(Tail(Dequeued), tx, packet_memb \ {k})
    BY <1>1, <1>3, <2>2, <2>3, PlaceLeft DEF Placed, TTypeOK
  <2>7. \A j \in packet_memb' : report'[j] # "new"
    BY <1>1, <2>1 DEF Placed, TTypeOK
  <2>8. Flow
    BY <1>3, <2>1, <2>2, <2>3, <2>5 DEF Flow, Leaves
  <2> QED
    BY <1>1, <2>1, <2>3, <2>5, <2>6, <2>7, <2>8, PlacedFrom DEF Placed
<1>10. CASE Get
  <2>1. UNCHANGED <<nbrs, tx, packet_memb, report>> /\ main = "reported" /\ cons # "idle"
    BY <1>1, <1>10 DEF Get, At, Steps
  <2>2. CASE GetTest
    <3>1. /\ UNCHANGED <<put_ptr, get_ptr, slots>> /\ prod' = prod /\ main' = "reported"
      BY <1>1, <1>10, <2>1, <2>2 DEF Get, GetTest, PeekStable
    <3> QED
      BY <1>1, <1>4, <2>1, <3>1, PlacedSame
  <2>3. CASE GetAdvance
    <3>1. /\ Waiting # << >> /\ Waiting' = Tail(Waiting) /\ prod' = prod /\ main' = "pending"
      BY <1>1, <1>10, <2>3, GetRemoves DEF Get, GetAdvance
    <3>2. Out' = Out /\ Waiting' \in Seq(Packet)
      BY <1>1, <2>1, <3>1, HeadIs DEF Out
    <3>3. Dequeued' = Dequeued
      BY <1>1, <1>2, <1>3, <3>1, <3>2, DequeuedNext
    <3> QED
      BY <1>1, <2>1, <3>2, <3>3, PlacedSame
  <2> QED
    BY <1>10, <2>2, <2>3 DEF Get
<1>11. CASE FlushHead
  <2> DEFINE n == job.nbr
             k == Head(tx[n])
  <2>1. /\ UNCHANGED <<put_ptr, get_ptr, slots, nbrs, main>> /\ prod' = prod /\ tx[n] # << >>
        /\ tx' = [tx EXCEPT ![n] = Tail(@)] /\ packet_memb' = packet_memb \ {k}
        /\ report' = [report EXCEPT ![k] = "flushed"]
    BY <1>11 DEF FlushHead, vars
  <2>2. n \in Nbr
    BY <1>1, <1>11 DEF FlushHead, Jobs, Removing
  <2>3. Waiting' = Waiting /\ Dequeued' = Dequeued
    BY <1>4, <2>1
  <2>4. InPlace(Dequeued, [tx EXCEPT ![n] = Tail(@)], packet_memb \ {k})
    BY <1>1, <1>3, <2>1, <2>2, PlaceFlushed DEF Placed, TTypeOK
  <2>5. \A j \in packet_memb' : report'[j] # "new"
    BY <1>1, <2>1 DEF Placed, TTypeOK
  <2>6. \A o \in Nbr \ nbrs' : tx'[o] = << >>
    BY <1>1, <2>1, <2>2 DEF Placed, TTypeOK
  <2>7. Flow
    <3>1. \A o \in Nbr \ {n} : tx'[o] = tx[o]
      BY <1>1, <2>1 DEF TTypeOK
    <3>2. main \in {"flush", "remove"}
      BY <1>11 DEF FlushHead
    <3> QED
      BY <2>2, <2>3, <3>1, <3>2 DEF Flow, Flushes
  <2> QED
    BY <1>1, <2>1, <2>3, <2>4, <2>5, <2>6, <2>7, PlacedFrom
<1> QED
  BY <1>5, <1>6, <1>7, <1>8, <1>9, <1>10, <1>11

LEMMA InitOInv == TInit => OInv
<1> SUFFICES ASSUME TInit
             PROVE  OInv
  OBVIOUS
<1>1. TypeOK /\ PeekStable
  BY InitRing DEF TInit
<1>2. Waiting = << >> /\ << >> \in Seq(Packet)
  BY InitFifo DEF TInit, Fifo!Init
<1>3. TTypeOK
  BY <1>1, <1>2, TschAssumption DEF TInit, TTypeOK, NoJob
<1>4. Steps /\ Jobs /\ OnAir
  BY DEF TInit, Init, Steps, Jobs, OnAir
<1>5. Dequeued = << >>
  BY <1>2 DEF TInit, Init, Dequeued
<1>6. Once(<< >>) /\ Els(<< >>) = {}
  BY DEF Once, Els
<1>7. InPlace(Dequeued, tx, packet_memb)
  BY <1>5, <1>6 DEF InPlace, TInit
<1>8. Placed
  BY <1>2, <1>7 DEF Placed, TInit
<1> QED
  BY <1>1, <1>3, <1>4, <1>8 DEF OInv

LEMMA OInvKept ==
  ASSUME OInv, [TNext]_tvars
  PROVE  OInv'
<1>1. TTypeOK' /\ PeekStable'
  BY TypesKept
<1>2. CASE UNCHANGED tvars
  <2>1. Waiting' = Waiting /\ Dequeued' = Dequeued
    BY <1>2 DEF tvars, vars, Waiting, Dequeued
  <2>2. Placed'
    BY <1>2, <2>1 DEF OInv, Placed, tvars
  <2>3. Steps' /\ Jobs' /\ OnAir'
    BY <1>2 DEF OInv, tvars, vars, Steps, Jobs, OnAir, Adding, Removing
  <2> QED
    BY <1>1, <2>2, <2>3 DEF OInv
<1>3. CASE Step
  <2>1. Step
    BY <1>3
  <2>2. Steps' /\ Jobs' /\ OnAir'
    BY <2>1, StepsKept, JobsKept, OnAirKept
  <2>3. Placed'
    BY <1>1, <2>1, SlotPlaces, MainPlaces DEF Step
  <2> QED
    BY <1>1, <2>2, <2>3 DEF OInv
<1> QED
  BY <1>2, <1>3, StepIs

LEMMA OInvAlways == TSpec => []OInv
<1>1. OInv /\ [TNext]_tvars => OInv'
  BY OInvKept
<1> QED
  BY <1>1, InitOInv, PTL DEF TSpec

LEMMA OwnedIs ==
  ASSUME OInv
  PROVE  Owned
<1>1. /\ TTypeOK /\ Steps /\ OnAir /\ Placed /\ PeekStable /\ Out \in Seq(Packet)
      /\ tx \in [Nbr -> Seq(Packet)] /\ packet_memb \subseteq Packet
  BY OutIs DEF OInv, TTypeOK, Placed
<1>2. slot = "tx" => current.pkt \in Packet /\ current.nbr \in Nbr
  BY <1>1 DEF TTypeOK
<1>3. Dequeued \in Seq(Packet)
  BY <1>1, <1>2, DequeuedIs, Joined DEF Steps
<1>4. ASSUME NEW k \in Packet
      PROVE  Times(k, Dequeued) + Times(k, tx[Dest[k]]) = IF k \in packet_memb THEN 1 ELSE 0
  <2>1. /\ Dest[k] \in Nbr /\ tx[Dest[k]] \in Seq(Packet)
        /\ Once(Dequeued) /\ Once(tx[Dest[k]])
    BY <1>1, TschAssumption DEF Placed, InPlace
  <2>2. /\ Times(k, Dequeued) = IF k \in Els(Dequeued) THEN 1 ELSE 0
        /\ Times(k, tx[Dest[k]]) = IF k \in Els(tx[Dest[k]]) THEN 1 ELSE 0
    BY <1>3, <2>1, TimesIs
  <2>3. /\ k \in packet_memb <=> k \in Els(Dequeued) \/ k \in Els(tx[Dest[k]])
        /\ ~(k \in Els(Dequeued) /\ k \in Els(tx[Dest[k]]))
    BY <1>1, <2>1 DEF Placed, InPlace
  <2> QED
    BY <2>2, <2>3
<1> QED
  BY <1>1, <1>4 DEF Owned, OnAir

(* No packet is lost, doubled or freed too early between the interrupts    *)
(* and the main program: each packet in memory is in its neighbor's queue  *)
(* or on the ring of dequeued packets, once, and the one on the air is     *)
(* the head of its queue, until a flush frees a packet on the air.         *)
THEOREM PacketsAreOwned == TSpec => []Owned
<1>1. OInv => Owned
  BY OwnedIs
<1> QED
  BY <1>1, OInvAlways, PTL

(* The ring of dequeued packets is a FIFO as slots and the main program    *)
(* use it: both keep to the calls of ringbufindex.c.                       *)
THEOREM RingIsFifo == TSpec => FifoSpec
<1>1. TInit => Fifo!Init
  BY InitFifo DEF TInit
<1>2. OInv /\ [TNext]_tvars => [Fifo!Next]_Waiting
  <2> SUFFICES ASSUME OInv, [TNext]_tvars
               PROVE  [Fifo!Next]_Waiting
    OBVIOUS
  <2>1. TypeOK /\ PeekStable /\ TTypeOK /\ Steps
    BY DEF OInv, TTypeOK
  <2> QED
    BY <2>1, RingSteps, StepFifo
<1> QED
  BY <1>1, <1>2, OInvAlways, PTL DEF TSpec, FifoSpec, Fifo!Spec
--------------------------------------------------------------------------------
(* The packets to one neighbor, over both queues.                          *)

\* the memory is finite, as at most one packet is allocated at a time
LEMMA MemoryIs ==
  ASSUME [TNext]_tvars
  PROVE  \/ packet_memb' \subseteq packet_memb
         \/ \E k \in Packet : packet_memb' = packet_memb \cup {k}
         \/ packet_memb' = packet_memb \cup {job.pkt}
<1>1. CASE UNCHANGED tvars
  BY <1>1 DEF tvars
<1>2. CASE \/ \E n \in Nbr, shared \in BOOLEAN : StartTx(n, shared)
           \/ PassShared \/ StartRx \/ EndRx
           \/ EndTxKept \/ (\E ok \in BOOLEAN : EndTxGone(ok)) \/ Put
  BY <1>2 DEF StartTx, PassShared, StartRx, EndRx, EndTxKept, EndTxGone, Put
<1>3. CASE Enqueue \/ Callback \/ FlushHead
  BY <1>3 DEF Enqueue, Callback, FlushHead
<1>4. CASE \/ tsch_get_lock \/ tsch_queue_add_nbr
           \/ Poll \/ Peek \/ Get \/ PendingDone
           \/ (\E n \in Nbr : FreeUnused(n)) \/ FreeDone \/ tsch_release_lock \/ tsch_queue_remove_nbr
           \/ FlushDone \/ (\E k \in Packet : Send(k)) \/ (\E n \in Nbr : Flush(n))
  BY <1>4 DEF tsch_get_lock, tsch_queue_add_nbr, Poll, Peek, Get, PendingDone, FreeUnused, FreeDone,
     tsch_release_lock, tsch_queue_remove_nbr, FlushDone, Send, Flush
<1> QED
  BY <1>1, <1>2, <1>3, <1>4, StepIs DEF Step

MemFinite == IsFiniteSet(packet_memb)

LEMMA MemoryFinite == TSpec => []MemFinite
<1>1. TInit => MemFinite
  BY FS_EmptySet DEF TInit, MemFinite
<1>2. MemFinite /\ [TNext]_tvars => MemFinite'
  BY MemoryIs, FS_Subset, FS_AddElement DEF MemFinite
<1> QED
  BY <1>1, <1>2, PTL DEF TSpec

LEMMA OnceConcat ==
  ASSUME NEW a \in Seq(Packet), NEW b \in Seq(Packet), Once(a), Once(b), Els(a) \cap Els(b) = {},
         NEW S, Els(a) \subseteq S, Els(b) \subseteq S
  PROVE  a \o b \in Seq(Packet) /\ Once(a \o b) /\ Els(a \o b) \subseteq S
<1> DEFINE c == a \o b
           l == Len(a)
<1>1. /\ c \in Seq(Packet) /\ Len(c) = l + Len(b) /\ l \in Nat /\ Len(b) \in Nat
      /\ \A i \in 1 .. l + Len(b) : c[i] = IF i <= l THEN a[i] ELSE b[i - l]
  BY ConcatProperties
<1>2. DOMAIN a = 1 .. l /\ DOMAIN b = 1 .. Len(b) /\ DOMAIN c = 1 .. l + Len(b)
  BY <1>1
<1> HIDE DEF c, l
<1>3. ASSUME NEW i \in DOMAIN c
      PROVE  \/ i \in DOMAIN a /\ c[i] = a[i]
             \/ i - l \in DOMAIN b /\ ~(i <= l) /\ c[i] = b[i - l]
  <2>1. i \in 1 .. l + Len(b)
    BY <1>2
  <2>2. i <= l => i \in 1 .. l
    BY <1>1, <2>1
  <2>3. ~(i <= l) => i - l \in 1 .. Len(b)
    BY <1>1, <2>1
  <2> QED
    BY <1>1, <1>2, <2>1, <2>2, <2>3
<1>4. Els(c) \subseteq S
  BY <1>3 DEF Els
<1>5. ASSUME NEW i \in DOMAIN c, NEW j \in DOMAIN c, c[i] = c[j]
      PROVE  i = j
  <2>1. CASE i \in DOMAIN a /\ c[i] = a[i] /\ j \in DOMAIN a /\ c[j] = a[j]
    BY <1>5, <2>1 DEF Once
  <2>2. CASE /\ i - l \in DOMAIN b /\ c[i] = b[i - l]
             /\ j - l \in DOMAIN b /\ c[j] = b[j - l]
    <3>1. i - l = j - l
      BY <1>5, <2>2 DEF Once
    <3> QED
      BY <1>1, <1>2, <3>1
  <2>3. \A x \in DOMAIN a, y \in DOMAIN b : a[x] # b[y]
    BY DEF Els
  <2> QED
    BY <1>3, <1>5, <2>1, <2>2, <2>3
<1>6. Once(c)
  BY <1>5 DEF Once
<1> QED
  BY <1>1, <1>4, <1>6 DEF c

\* a sequence without repetition is no longer than the set it is from is large
LEMMA OnceLength ==
  ASSUME NEW s \in Seq(Packet), Once(s), NEW S, IsFiniteSet(S), Els(s) \subseteq S
  PROVE  Len(s) <= Cardinality(S)
<1>1. Len(s) \in Nat /\ DOMAIN s = 1 .. Len(s) /\ s \in [1 .. Len(s) -> S]
  BY DEF Els
<1>2. s \in Injection(1 .. Len(s), S)
  BY <1>1 DEF Once, Injection, IsInjective
<1>3. Cardinality(1 .. Len(s)) <= Cardinality(S)
  BY <1>2, FS_Injection
<1>4. IsFiniteSet(1 .. Len(s)) /\ Cardinality(1 .. Len(s)) = Len(s)
  BY <1>1, FS_Interval
<1> QED
  BY <1>3, <1>4

\* the pipe of a neighbor has each packet once, and only packets in memory
LEMMA PipeIs ==
  ASSUME OInv, MemFinite, NEW n \in Nbr
  PROVE  /\ Dequeued \in Seq(Packet) /\ tx \in [Nbr -> Seq(Packet)]
         /\ To(n, Dequeued) \in Seq(Packet) /\ tx[n] \in Seq(Packet) /\ Pipe(n) \in Seq(Packet)
         /\ \A k \in Els(tx[n]) : Dest[k] = n
         /\ Len(Pipe(n)) <= Cardinality(packet_memb)
<1>1. /\ TTypeOK /\ Steps /\ PeekStable /\ Placed /\ Out \in Seq(Packet)
      /\ tx \in [Nbr -> Seq(Packet)]
  BY OutIs DEF OInv, TTypeOK, Placed
<1>2. Dequeued \in Seq(Packet)
  <2>1. prod \in {"put", "advance"} => current.pkt \in Packet
    BY <1>1 DEF TTypeOK, Steps
  <2> QED
    BY <1>1, <2>1, DequeuedIs, Joined
<1> DEFINE a == To(n, Dequeued)
           b == tx[n]
<1>3. /\ Once(Dequeued) /\ Els(Dequeued) \subseteq packet_memb
      /\ Once(b) /\ Els(b) \subseteq packet_memb
      /\ \A k \in Els(b) : Dest[k] = n /\ k \notin Els(Dequeued)
  BY <1>1 DEF Placed, InPlace
<1>4. a \in Seq(Packet) /\ Els(a) \subseteq Els(Dequeued) /\ Once(a) /\ b \in Seq(Packet)
  BY <1>1, <1>2, <1>3, ToType
<1> HIDE DEF a, b
<1>5. a \o b \in Seq(Packet) /\ Once(a \o b) /\ Els(a \o b) \subseteq packet_memb
  BY <1>3, <1>4, OnceConcat
<1>6. Len(a \o b) <= Cardinality(packet_memb)
  BY <1>5, OnceLength DEF MemFinite
<1> QED
  BY <1>1, <1>2, <1>3, <1>4, <1>5, <1>6 DEF Pipe, a, b

\* what each way to move packets does to the pipe of n
LEMMA PipeStep ==
  ASSUME OInv, MemFinite, Flow, NEW n \in Nbr
  PROVE  \/ PipeFifo(n)!Next \/ UNCHANGED Pipe(n)
         \/ main \in {"flush", "remove"} /\ job.nbr = n
<1>1. /\ Dequeued \in Seq(Packet) /\ tx \in [Nbr -> Seq(Packet)]
      /\ To(n, Dequeued) \in Seq(Packet) /\ tx[n] \in Seq(Packet) /\ Pipe(n) \in Seq(Packet)
      /\ \A k \in Els(tx[n]) : Dest[k] = n
      /\ Len(Pipe(n)) <= Cardinality(packet_memb)
  BY PipeIs
<1>2. Pipe(n) = To(n, Dequeued) \o tx[n] /\ Pipe(n)' = To(n, Dequeued') \o tx'[n]
  BY DEF Pipe, To
<1>3. CASE UNCHANGED <<Dequeued, tx>>
  BY <1>2, <1>3
<1>4. ASSUME NEW k \in Packet, Adds(k)
      PROVE  PipeFifo(n)!Next \/ UNCHANGED Pipe(n)
  <2>1. CASE Dest[k] = n
    <3>1. tx'[n] = Append(tx[n], k) /\ Dequeued' = Dequeued
      BY <1>1, <1>4, <2>1 DEF Adds
    <3>2. Pipe(n)' = Append(Pipe(n), k)
      BY <1>1, <1>2, <3>1, ConcatAppend
    <3>3. Len(Pipe(n)) < QUEUEBUF_NUM
      <4>1. /\ Len(Pipe(n)) \in Nat /\ Cardinality(packet_memb) \in Nat /\ QUEUEBUF_NUM \in Nat
            /\ Cardinality(packet_memb) < QUEUEBUF_NUM
        BY <1>1, <1>4, FS_CardinalityType, TschAssumption DEF Adds, MemFinite
      <4> QED
        BY <1>1, <4>1
    <3> QED
      BY <3>2, <3>3 DEF PipeFifo!Next, PipeFifo!Put
  <2>2. CASE Dest[k] # n
    <3>1. tx'[n] = tx[n] /\ Dequeued' = Dequeued
      BY <1>1, <1>4, <2>2 DEF Adds
    <3> QED
      BY <1>2, <3>1
  <2> QED
    BY <2>1, <2>2
<1>5. ASSUME NEW o \in Nbr, Moves(o)
      PROVE  UNCHANGED Pipe(n)
  <2> DEFINE k == Head(tx[o])
  <2>1. /\ Dequeued' = Append(Dequeued, k) /\ tx' = [tx EXCEPT ![o] = Tail(@)] /\ tx[o] # << >>
    BY <1>5 DEF Moves
  <2>2. k \in Packet /\ Dest[k] = o
    BY <1>1, <2>1, PipeIs, QueueTail
  <2> HIDE DEF k
  <2>3. To(n, Dequeued') = IF o = n THEN Append(To(n, Dequeued), k) ELSE To(n, Dequeued)
    BY <1>1, <2>1, <2>2, ToAppend
  <2>4. CASE o = n
    <3>1. tx'[n] = Tail(tx[n]) /\ k = Head(tx[n]) /\ tx[n] # << >>
      BY <1>1, <2>1, <2>4 DEF k
    <3>2. Append(To(n, Dequeued), Head(tx[n])) \o Tail(tx[n]) = To(n, Dequeued) \o tx[n]
      BY <1>1, <2>2, <3>1, ConcatAppend
    <3> QED
      BY <1>2, <2>3, <2>4, <3>1, <3>2
  <2>5. CASE o # n
    <3>1. tx'[n] = tx[n]
      BY <1>1, <2>1, <2>5
    <3> QED
      BY <1>2, <2>3, <2>5, <3>1
  <2> QED
    BY <2>4, <2>5
<1>6. CASE Leaves
  <2> DEFINE k == Head(Dequeued)
             r == To(n, Tail(Dequeued))
  <2>1. Dequeued # << >> /\ Dequeued' = Tail(Dequeued) /\ tx'[n] = tx[n]
    BY <1>6 DEF Leaves
  <2>2. k \in Packet /\ Tail(Dequeued) \in Seq(Packet)
    BY <1>1, <2>1
  <2>3. r \in Seq(Packet) /\ To(n, Dequeued) = (IF Dest[k] = n THEN <<k>> ELSE << >>) \o r
    BY <1>1, <2>1, <2>2, ToType, ToTail
  <2>4. Pipe(n)' = r \o tx[n]
    BY <1>2, <2>1
  <2> HIDE DEF k, r
  <2>5. CASE Dest[k] = n
    <3>1. To(n, Dequeued) = <<k>> \o r
      BY <2>3, <2>5
    <3>2. <<k>> \o r # << >> /\ Tail(<<k>> \o r) = r
      BY <2>2, <2>3
    <3>3. Pipe(n) # << >> /\ Tail(Pipe(n)) = r \o tx[n]
      BY <1>1, <1>2, <3>1, <3>2, ConcatAppend, <2>2
    <3> QED
      BY <2>4, <3>3 DEF PipeFifo!Next, PipeFifo!Get
  <2>6. CASE Dest[k] # n
    <3>1. To(n, Dequeued) = r
      BY <2>3, <2>6
    <3> QED
      BY <1>2, <2>4, <3>1
  <2> QED
    BY <2>5, <2>6
<1>7. CASE Flushes
  <2>1. CASE job.nbr = n
    BY <1>7, <2>1 DEF Flushes
  <2>2. CASE job.nbr # n
    <3>1. tx'[n] = tx[n] /\ Dequeued' = Dequeued
      BY <1>7, <2>2 DEF Flushes
    <3> QED
      BY <1>2, <3>1
  <2> QED
    BY <2>1, <2>2
<1> QED
  BY <1>3, <1>4, <1>5, <1>6, <1>7 DEF Flow

(* The packets to a neighbor pass both queues as one FIFO of QUEUEBUF_NUM  *)
(* places: in the order they were sent, each once, however slots, retries  *)
(* and the main program interleave; only a flush takes out of turn.        *)
THEOREM PacketsInSequence == TSpec => InSequence
<1>1. OInv /\ MemFinite /\ [TNext]_tvars =>
        [\A n \in Nbr : \/ PipeFifo(n)!Next \/ UNCHANGED Pipe(n)
                        \/ main \in {"flush", "remove"} /\ job.nbr = n]_tvars
  <2> SUFFICES ASSUME OInv, MemFinite, TNext
               PROVE  \A n \in Nbr : \/ PipeFifo(n)!Next \/ UNCHANGED Pipe(n)
                                     \/ main \in {"flush", "remove"} /\ job.nbr = n
    OBVIOUS
  <2>1. TTypeOK'
    BY TypesKept
  <2>2. CASE Step
    <3>1. Flow
      BY <2>1, <2>2, SlotPlaces, MainPlaces DEF Step
    <3> QED
      BY <3>1, PipeStep
  <2>3. CASE UNCHANGED tvars
    BY <2>3 DEF tvars, vars, Pipe, Dequeued, Waiting
  <2> QED
    BY <2>2, <2>3, StepIs
<1> QED
  BY <1>1, OInvAlways, MemoryFinite, PTL DEF TSpec, InSequence
================================================================================
