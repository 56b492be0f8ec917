----------------------------- MODULE MacLinkProofs -----------------------------
(***************************************************************************)
(* Theorems about the output queue of CSMA and about the link, for any     *)
(* packets, destinations, pools, limits, tables and other nodes.           *)
(***************************************************************************)
EXTENDS MacLink, Integers, FiniteSetTheorems, TLAPS

--------------------------------------------------------------------------------
(* Sequences.                                                              *)

LEMMA AppendIs ==
  ASSUME NEW S, NEW q \in Seq(S), NEW e \in S
  PROVE  /\ Append(q, e) \in Seq(S) /\ Append(q, e) # << >>
         /\ Len(Append(q, e)) = Len(q) + 1 /\ Len(q) \in Nat
         /\ DOMAIN q = 1 .. Len(q) /\ DOMAIN Append(q, e) = 1 .. Len(q) + 1
         /\ Append(q, e)[Len(q) + 1] = e
         /\ \A i \in 1 .. Len(q) : Append(q, e)[i] = q[i]
         /\ q = << >> <=> Len(q) = 0
OBVIOUS

LEMMA TailIs ==
  ASSUME NEW S, NEW q \in Seq(S), q # << >>
  PROVE  /\ Tail(q) \in Seq(S) /\ Head(q) \in S /\ Head(q) = q[1]
         /\ Len(q) \in Nat /\ Len(q) > 0 /\ Len(Tail(q)) = Len(q) - 1
         /\ DOMAIN q = 1 .. Len(q) /\ DOMAIN Tail(q) = 1 .. Len(q) - 1
         /\ \A i \in 1 .. Len(q) - 1 : Tail(q)[i] = q[i + 1]
         /\ Tail(q) = << >> <=> Len(q) = 1
<1>1. /\ Tail(q) \in Seq(S) /\ Len(q) \in Nat \ {0} /\ Len(Tail(q)) = Len(q) - 1
      /\ Head(q) = q[1] /\ DOMAIN q = 1 .. Len(q) /\ DOMAIN Tail(q) = 1 .. Len(q) - 1
      /\ \A i \in 1 .. Len(q) - 1 : Tail(q)[i] = q[i + 1]
  OBVIOUS
<1>2. Head(q) \in S
  OBVIOUS
<1>3. \A r \in Seq(S) : r = << >> <=> Len(r) = 0
  OBVIOUS
<1>4. Tail(q) = << >> <=> Len(Tail(q)) = 0
  BY <1>1, <1>3
<1> QED
  BY <1>1, <1>2, <1>4

LEMMA EmptyIs ==
  ASSUME NEW S
  PROVE  << >> \in Seq(S) /\ Len(<< >>) = 0 /\ DOMAIN << >> = 1 .. 0
OBVIOUS

--------------------------------------------------------------------------------
(* The output queue: types, entries and pools.                             *)

\* every Transmit ends one of the two ways, with some counters
Sent(n, q) ==
  /\ transmit_timer[n] /\ packet_queue[n] # << >> /\ q = Head(packet_queue[n])
  /\ \/ tx_done(n, q)
     \/ \E t \in Nat, c \in 0 .. CSMA_MAX_BACKOFF : rexmit(n, t, c)
  /\ attempts' = [attempts EXCEPT ![q] = IF report'[q] = "called" THEN 0 ELSE @ + 1]

\* no queue is longer than it may be
Bounded == \A n \in Block : Len(packet_queue[n]) <= CSMA_MAX_PACKET_PER_NEIGHBOR

QInv == TypeOK /\ Bounded /\ EntriesLive

LEMMA TransmitSends ==
  ASSUME TypeOK, NEW n \in Block, NEW s \in Outcome, Transmit(n, s)
  PROVE  Sent(n, Head(packet_queue[n])) /\ Head(packet_queue[n]) \in Packet
<1> DEFINE q == Head(packet_queue[n])
<1>1. q \in Packet /\ transmissions[n] \in Nat /\ collisions[n] \in 0 .. CSMA_MAX_BACKOFF
  BY TailIs DEF TypeOK, Transmit
<1> HIDE DEF q
<1>2. /\ transmissions[n] + 1 \in Nat /\ 0 \in 0 .. CSMA_MAX_BACKOFF /\ CSMA_MAX_BACKOFF \in Nat
      /\ ~(collisions[n] + 1 > CSMA_MAX_BACKOFF) => collisions[n] + 1 \in 0 .. CSMA_MAX_BACKOFF
  BY <1>1, CsmaAssumption
<1>3. /\ transmit_timer[n] /\ packet_queue[n] # << >> /\ packet_sent(n, q, s)
      /\ attempts' = [attempts EXCEPT ![q] = IF report'[q] = "called" THEN 0 ELSE @ + 1]
  BY DEF Transmit, q
<1>4. \/ tx_done(n, q)
      \/ \E t \in Nat, c \in 0 .. CSMA_MAX_BACKOFF : rexmit(n, t, c)
  <2>2. ASSUME NEW t \in Nat, NEW c \in 0 .. CSMA_MAX_BACKOFF, RetryOrGiveUp(n, q, t, c)
        PROVE  tx_done(n, q) \/ rexmit(n, t, c)
    BY <2>2 DEF RetryOrGiveUp
  <2>3. CASE s = "COLLISION"
    BY <1>1, <1>2, <1>3, <2>2, <2>3 DEF packet_sent, collision
  <2>4. CASE s = "NOACK"
    BY <1>1, <1>2, <1>3, <2>2, <2>4 DEF packet_sent, noack
  <2>5. CASE s # "COLLISION" /\ s # "NOACK"
    BY <1>3, <2>5 DEF packet_sent
  <2> QED
    BY <2>3, <2>4, <2>5
<1> QED
  BY <1>1, <1>3, <1>4 DEF Sent, q

LEMMA InitQInv == Init => QInv
<1> SUFFICES ASSUME Init
             PROVE  QInv
  OBVIOUS
<1>1. packet_queue \in [Block -> Seq(Packet)] /\ \A n \in Block : Len(packet_queue[n]) = 0
  BY EmptyIs DEF Init
<1>2. TypeOK
  BY <1>1, CsmaAssumption DEF Init, TypeOK
<1> QED
  BY <1>1, <1>2, CsmaAssumption DEF Init, QInv, Bounded, EntriesLive

LEMMA AcceptKeepsQInv ==
  ASSUME QInv, NEW k \in Packet, NEW n \in Block, Accept(k, Dest[k], n)
  PROVE  QInv' /\ packet_queue' = [packet_queue EXCEPT ![n] = Append(packet_queue[n], k)]
<1> DEFINE a == Dest[k]
           queue == packet_queue[n]
<1>1. a \in Addr /\ queue \in Seq(Packet) /\ CSMA_MAX_PACKET_PER_NEIGHBOR \in Nat
  BY CsmaAssumption DEF QInv, TypeOK
<1>2. n \in Entry(a) \/ (Entry(a) = {} /\ queue = << >>)
  BY DEF Accept, Uses, QInv, EntriesLive
<1>9. QueueOf(a, n) = queue
  BY <1>2 DEF QueueOf
<1>3. /\ packet_queue' = [packet_queue EXCEPT ![n] = Append(queue, k)]
      /\ transmit_timer' = [transmit_timer EXCEPT ![n] = @ \/ queue = << >>]
      /\ Len(queue) < CSMA_MAX_PACKET_PER_NEIGHBOR
  BY <1>9 DEF Accept, Queued
<1>4. Append(queue, k) \in Seq(Packet) /\ Append(queue, k) # << >> /\ Len(Append(queue, k)) = Len(queue) + 1
  BY <1>1, AppendIs
<1>5. transmissions' \in [Block -> Nat] /\ collisions' \in [Block -> 0 .. CSMA_MAX_BACKOFF]
  BY CsmaAssumption DEF Accept, Named, NewOrOld, QInv, TypeOK
<1>6. TypeOK'
  <2>1. packet_queue' \in [Block -> Seq(Packet)]
    BY <1>3, <1>4 DEF QInv, TypeOK
  <2>2. transmit_timer' \in [Block -> BOOLEAN]
    BY <1>3 DEF QInv, TypeOK
  <2>3. addr' \in [Block -> Addr \cup {NULL}] /\ neighbor_memb' \subseteq Block /\ neighbor_list' \subseteq Block
    BY <1>1 DEF Accept, Named, QInv, TypeOK
  <2>4. packet_memb' \in 0 .. QUEUEBUF_NUM /\ metadata_memb' \in 0 .. QUEUEBUF_NUM /\ bufmem' \in 0 .. QUEUEBUF_NUM
    BY CsmaAssumption DEF Accept, QInv, TypeOK
  <2>5. report' \in [Packet -> {"new", "queued", "called"}] /\ attempts' \in [Packet -> Nat]
    BY DEF Accept, QInv, TypeOK
  <2> QED
    BY <1>5, <2>1, <2>2, <2>3, <2>4, <2>5 DEF TypeOK
<1>7. Bounded'
  BY <1>1, <1>3, <1>4 DEF QInv, TypeOK, Bounded
<1>8. EntriesLive'
  <2>1. /\ neighbor_memb' = neighbor_memb \cup {n} /\ neighbor_list' = neighbor_list \cup {n}
        /\ addr' = [addr EXCEPT ![n] = a]
    BY DEF Accept, Named
  <2>2. ASSUME NEW m \in Block
        PROVE  /\ m \in neighbor_memb' <=> packet_queue'[m] # << >>
               /\ m \in neighbor_list' <=> packet_queue'[m] # << >>
    BY <1>3, <1>4, <2>1 DEF QInv, EntriesLive, TypeOK
  <2>3. ASSUME NEW m \in Block
        PROVE  transmit_timer'[m] <=> packet_queue'[m] # << >>
    BY <1>3, <1>4 DEF QInv, EntriesLive, TypeOK
  <2>4. ASSUME NEW m \in neighbor_list', NEW o \in neighbor_list' \ {m}
        PROVE  addr'[o] # addr'[m]
    <3>1. m \in Block /\ o \in Block /\ m # o /\ addr \in [Block -> Addr \cup {NULL}]
      BY <2>1 DEF QInv, TypeOK
    <3>2. \A b, c \in neighbor_list : b # c => addr[b] # addr[c]
      BY DEF QInv, EntriesLive, TypeOK
    <3>3. CASE n \in Entry(a)
      BY <2>1, <3>1, <3>2, <3>3 DEF Entry
    <3>4. CASE Entry(a) = {}
      BY <2>1, <3>1, <3>2, <3>4 DEF Entry
    <3> QED
      BY <1>2, <3>3, <3>4
  <2> QED
    BY <2>2, <2>3, <2>4 DEF EntriesLive
<1> QED
  BY <1>3, <1>6, <1>7, <1>8 DEF QInv

LEMMA SentKeepsQInv ==
  ASSUME QInv, NEW n \in Block, NEW q \in Packet, Sent(n, q),
         packet_memb > 0, metadata_memb > 0, bufmem > 0
  PROVE  QInv'
<1> DEFINE queue == packet_queue[n]
           rest == Tail(queue)
<1>1. /\ queue \in Seq(Packet) /\ queue # << >>
      /\ attempts' \in [Packet -> Nat]
  BY DEF QInv, TypeOK, Sent
<1>2. rest \in Seq(Packet) /\ Len(queue) \in Nat /\ Len(rest) = Len(queue) - 1
  BY <1>1, TailIs
<1>3. ASSUME tx_done(n, q)
      PROVE  QInv'
  <2>1. /\ packet_queue' = [packet_queue EXCEPT ![n] = rest]
        /\ transmit_timer' = [transmit_timer EXCEPT ![n] = rest # << >>]
        /\ addr' = addr
        /\ IF rest # << >> THEN UNCHANGED <<neighbor_list, neighbor_memb>>
           ELSE neighbor_list' = neighbor_list \ {n} /\ neighbor_memb' = neighbor_memb \ {n}
    BY <1>3 DEF tx_done, entry
  <2> HIDE DEF rest
  <2>2. TypeOK'
    <3>1. packet_queue' \in [Block -> Seq(Packet)] /\ transmit_timer' \in [Block -> BOOLEAN]
      BY <1>2, <2>1 DEF QInv, TypeOK
    <3>2. addr' \in [Block -> Addr \cup {NULL}] /\ neighbor_memb' \subseteq Block /\ neighbor_list' \subseteq Block
      BY <2>1 DEF QInv, TypeOK
    <3>3. packet_memb' \in 0 .. QUEUEBUF_NUM /\ metadata_memb' \in 0 .. QUEUEBUF_NUM /\ bufmem' \in 0 .. QUEUEBUF_NUM
      BY <1>3, CsmaAssumption DEF tx_done, QInv, TypeOK
    <3>4. transmissions' \in [Block -> Nat] /\ collisions' \in [Block -> 0 .. CSMA_MAX_BACKOFF]
      <4>1. \/ UNCHANGED <<transmissions, collisions>>
            \/ /\ transmissions' = [transmissions EXCEPT ![n] = 0]
               /\ collisions' = [collisions EXCEPT ![n] = 0]
        BY <1>3 DEF tx_done
      <4>2. 0 \in Nat /\ 0 \in 0 .. CSMA_MAX_BACKOFF
        BY CsmaAssumption
      <4> QED
        BY <4>1, <4>2 DEF QInv, TypeOK
    <3>5. report' \in [Packet -> {"new", "queued", "called"}]
      BY <1>3 DEF tx_done, QInv, TypeOK
    <3> QED
      BY <1>1, <3>1, <3>2, <3>3, <3>4, <3>5 DEF TypeOK
  <2>3. Bounded'
    BY <1>2, <2>1, CsmaAssumption DEF QInv, TypeOK, Bounded
  <2>4. EntriesLive'
    BY <1>1, <2>1 DEF QInv, TypeOK, EntriesLive
  <2> QED
    BY <2>2, <2>3, <2>4 DEF QInv
<1>4. ASSUME NEW t \in Nat, NEW c \in 0 .. CSMA_MAX_BACKOFF, rexmit(n, t, c)
      PROVE  QInv'
  <2>1. transmit_timer' = transmit_timer
    BY <1>4 DEF rexmit, QInv, TypeOK, Sent
  <2>2. TypeOK'
    BY <1>1, <1>4, <2>1 DEF rexmit, QInv, TypeOK, entry, pools
  <2>3. Bounded' /\ EntriesLive'
    BY <1>4, <2>1 DEF rexmit, QInv, Bounded, EntriesLive, entry
  <2> QED
    BY <2>2, <2>3 DEF QInv
<1> QED
  BY <1>3, <1>4 DEF Sent

--------------------------------------------------------------------------------
(* The pools: an accepted frame takes a place, one that is done with gives *)
(* its last place back, as the others move up.                             *)

PInv == QInv /\ IsFiniteSet(Held) /\ PoolsAccounted

LEMMA AcceptKeepsPInv ==
  ASSUME PInv, NEW k \in Packet, NEW n \in Block, Accept(k, Dest[k], n)
  PROVE  PInv'
<1> DEFINE queue == packet_queue[n]
           e == <<n, Len(queue) + 1>>
<1>1. /\ QInv' /\ packet_queue' = [packet_queue EXCEPT ![n] = Append(queue, k)]
  BY AcceptKeepsQInv DEF PInv
<1>2. /\ packet_queue \in [Block -> Seq(Packet)] /\ queue \in Seq(Packet) /\ Len(queue) \in Nat
      /\ Len(queue) <= CSMA_MAX_PACKET_PER_NEIGHBOR /\ CSMA_MAX_PACKET_PER_NEIGHBOR \in Nat
  BY CsmaAssumption DEF PInv, QInv, TypeOK, Bounded
<1>3. /\ Len(packet_queue'[n]) = Len(queue) + 1
      /\ \A m \in Block \ {n} : packet_queue'[m] = packet_queue[m]
      /\ Len(queue) + 1 <= CSMA_MAX_PACKET_PER_NEIGHBOR
  BY <1>1, <1>2, AppendIs DEF QInv, Bounded
<1>4. Held' = Held \cup {e} /\ e \notin Held
  <2>1. ASSUME NEW f \in Block \X (1 .. CSMA_MAX_PACKET_PER_NEIGHBOR)
        PROVE  f[2] <= Len(packet_queue'[f[1]]) <=> f[2] <= Len(packet_queue[f[1]]) \/ f = e
    <3>1. f = <<f[1], f[2]>> /\ f[1] \in Block /\ f[2] \in Nat
      OBVIOUS
    <3> QED
      BY <1>2, <1>3, <3>1
  <2>2. e \in Block \X (1 .. CSMA_MAX_PACKET_PER_NEIGHBOR) /\ ~(e[2] <= Len(packet_queue[e[1]]))
    BY <1>2, <1>3
  <2> QED
    BY <2>1, <2>2 DEF Held
<1>5. IsFiniteSet(Held') /\ Cardinality(Held') = Cardinality(Held) + 1
  BY <1>4, FS_AddElement DEF PInv
<1> QED
  BY <1>1, <1>5 DEF Accept, PInv, PoolsAccounted

LEMMA SentKeepsPInv ==
  ASSUME PInv, NEW n \in Block, NEW q \in Packet, Sent(n, q)
  PROVE  PInv'
<1> DEFINE queue == packet_queue[n]
           e == <<n, Len(queue)>>
<1>1. /\ packet_queue \in [Block -> Seq(Packet)] /\ queue \in Seq(Packet) /\ queue # << >>
      /\ Len(queue) \in Nat /\ Len(queue) > 0 /\ CSMA_MAX_PACKET_PER_NEIGHBOR \in Nat
      /\ Len(queue) <= CSMA_MAX_PACKET_PER_NEIGHBOR /\ Len(Tail(queue)) = Len(queue) - 1
  BY TailIs, CsmaAssumption DEF PInv, QInv, TypeOK, Bounded, Sent
<1>2. e \in Held
  BY <1>1 DEF Held
<1>3. Cardinality(Held) \in Nat /\ Cardinality(Held) > 0
  BY <1>2, FS_CardinalityType, FS_EmptySet DEF PInv
<1>4. QInv'
  BY <1>3, SentKeepsQInv DEF PInv, PoolsAccounted
<1>5. ASSUME tx_done(n, q)
      PROVE  PInv'
  <2>1. /\ Len(packet_queue'[n]) = Len(queue) - 1
        /\ \A m \in Block \ {n} : packet_queue'[m] = packet_queue[m]
    BY <1>1, <1>5 DEF tx_done
  <2>2. Held' = Held \ {e}
    <3>1. ASSUME NEW f \in Block \X (1 .. CSMA_MAX_PACKET_PER_NEIGHBOR)
          PROVE  f[2] <= Len(packet_queue'[f[1]]) <=> f[2] <= Len(packet_queue[f[1]]) /\ f # e
      <4>1. f = <<f[1], f[2]>> /\ f[1] \in Block /\ f[2] \in Nat
        OBVIOUS
      <4>2. CASE f[1] = n
        <5>1. f # e <=> f[2] # Len(queue)
          BY <4>1, <4>2
        <5>2. Len(packet_queue'[f[1]]) = Len(queue) - 1 /\ packet_queue[f[1]] = queue
          BY <2>1, <4>2
        <5>3. \A i, l \in Nat : i <= l - 1 <=> i <= l /\ i # l
          OBVIOUS
        <5>4. f[2] <= Len(queue) - 1 <=> f[2] <= Len(queue) /\ f[2] # Len(queue)
          BY <1>1, <4>1, <5>3
        <5> HIDE DEF queue, e
        <5> QED
          BY <5>1, <5>2, <5>4
      <4>3. CASE f[1] # n
        <5>1. f # e /\ packet_queue'[f[1]] = packet_queue[f[1]]
          BY <2>1, <4>1, <4>3
        <5> QED
          BY <5>1
      <4> QED
        BY <4>2, <4>3
    <3> QED
      BY <3>1 DEF Held
  <2>3. IsFiniteSet(Held') /\ Cardinality(Held') = Cardinality(Held) - 1
    BY <1>2, <2>2, FS_RemoveElement DEF PInv
  <2> QED
    BY <1>4, <1>5, <2>3 DEF PInv, PoolsAccounted, tx_done
<1>6. ASSUME NEW t \in Nat, NEW c \in 0 .. CSMA_MAX_BACKOFF, rexmit(n, t, c)
      PROVE  PInv'
  BY <1>4, <1>6 DEF PInv, PoolsAccounted, Held, rexmit, pools
<1> QED
  BY <1>5, <1>6 DEF Sent

LEMMA InitPInv == Init => PInv
<1> SUFFICES ASSUME Init
             PROVE  PInv
  OBVIOUS
<1>1. \A n \in Block : Len(packet_queue[n]) = 0
  BY EmptyIs DEF Init
<1>2. Held = {}
  BY <1>1, CsmaAssumption DEF Held
<1> QED
  BY <1>2, InitQInv, FS_EmptySet DEF Init, PInv, PoolsAccounted

\* a refused packet leaves the queues, the pools and the list alone; the
\* counters and the address of a block that is free may have changed
Forgotten(n) ==
  /\ n \notin neighbor_list /\ packet_queue[n] = << >>
  /\ \E a \in Addr : addr' = [addr EXCEPT ![n] = a]
  /\ transmissions' = [transmissions EXCEPT ![n] = 0]
  /\ collisions' = [collisions EXCEPT ![n] = 0]

LEMMA NothingKept == \A lack \in {"packet", "metadata", "buffer"} : Taken(lack) \ Returned(lack) = {}
<1>1. /\ Taken("packet") = {} /\ Taken("metadata") = {"packet"}
      /\ Taken("buffer") = {"packet", "metadata"}
  BY DEF Taken
<1>2. "packet" \in Returned("metadata") /\ {"packet", "metadata"} \subseteq Returned("buffer")
  BY DEF Returned
<1> QED
  BY <1>1, <1>2

LEMMA RefuseIs ==
  ASSUME QInv, NEW k \in Packet, Refuse(k, Dest[k])
  PROVE  /\ UNCHANGED <<neighbor_memb, neighbor_list, packet_queue, transmit_timer, pools, attempts>>
         /\ UNCHANGED <<addr, transmissions, collisions>> \/ \E n \in Block : Forgotten(n)
         /\ report[k] = "new" /\ report' = [report EXCEPT ![k] = "called"]
<1> DEFINE a == Dest[k]
<1>1. a \in Addr /\ report[k] = "new" /\ report' = [report EXCEPT ![k] = "called"] /\ attempts' = attempts
  BY CsmaAssumption DEF Refuse
<1>2. CASE RefuseFull(a)
  BY <1>1, <1>2 DEF RefuseFull, entry, timing
<1>3. ASSUME NEW n \in Block, NEW lack \in {"packet", "metadata", "buffer"}, RefuseLacking(a, n, lack)
      PROVE  /\ UNCHANGED <<neighbor_memb, neighbor_list, packet_queue, transmit_timer, pools>>
             /\ UNCHANGED <<addr, transmissions, collisions>> \/ Forgotten(n)
  <2>1. /\ packet_queue \in [Block -> Seq(Packet)] /\ addr \in [Block -> Addr \cup {NULL}]
        /\ packet_memb \in Nat /\ metadata_memb \in Nat
        /\ transmissions \in [Block -> Nat] /\ collisions \in [Block -> 0 .. CSMA_MAX_BACKOFF]
    BY CsmaAssumption DEF QInv, TypeOK
  <2>2. n \in Entry(a) \/ (n \notin Entry(a) /\ n \notin neighbor_memb /\ n \notin neighbor_list)
    BY <1>3 DEF RefuseLacking, Uses, QInv, EntriesLive
  <2>3. QueueOf(a, n) = packet_queue[n] /\ (n \in Entry(a) <=> packet_queue[n] # << >>)
    BY <2>2 DEF QueueOf, Entry, QInv, EntriesLive
  <2>4. packet_queue' = packet_queue
    BY <1>3, <2>1, <2>3 DEF RefuseLacking
  <2>5. neighbor_list' = neighbor_list /\ neighbor_memb' = neighbor_memb
    BY <1>3, <2>2, <2>3 DEF RefuseLacking, QInv, EntriesLive
  <2>6. UNCHANGED <<pools, transmit_timer>>
    BY <1>3, <2>1, NothingKept DEF RefuseLacking, Kept, pools
  <2>7. n \in Entry(a) => UNCHANGED <<addr, transmissions, collisions>>
    BY <1>3, <2>1 DEF RefuseLacking, Named, NewOrOld, Entry
  <2>8. n \notin Entry(a) => Forgotten(n)
    BY <1>1, <1>3, <2>2, <2>3 DEF RefuseLacking, Named, NewOrOld, Forgotten
  <2> QED
    BY <2>4, <2>5, <2>6, <2>7, <2>8
<1> QED
  BY <1>1, <1>2, <1>3 DEF Refuse

LEMMA ForgottenKeeps ==
  ASSUME QInv, UNCHANGED <<neighbor_memb, neighbor_list, packet_queue, transmit_timer, pools, attempts>>,
         UNCHANGED <<addr, transmissions, collisions>> \/ \E n \in Block : Forgotten(n),
         report' \in [Packet -> {"new", "queued", "called"}]
  PROVE  QInv'
<1>1. /\ addr' \in [Block -> Addr \cup {NULL}] /\ transmissions' \in [Block -> Nat]
      /\ collisions' \in [Block -> 0 .. CSMA_MAX_BACKOFF]
      /\ \A n \in neighbor_list : addr'[n] = addr[n]
  <2>1. /\ addr \in [Block -> Addr \cup {NULL}] /\ transmissions \in [Block -> Nat]
        /\ collisions \in [Block -> 0 .. CSMA_MAX_BACKOFF] /\ 0 \in 0 .. CSMA_MAX_BACKOFF
        /\ neighbor_list \subseteq Block
    BY CsmaAssumption DEF QInv, TypeOK
  <2>2. CASE UNCHANGED <<addr, transmissions, collisions>>
    BY <2>1, <2>2
  <2>3. ASSUME NEW n \in Block, Forgotten(n)
        PROVE  /\ addr' \in [Block -> Addr \cup {NULL}] /\ transmissions' \in [Block -> Nat]
               /\ collisions' \in [Block -> 0 .. CSMA_MAX_BACKOFF]
               /\ \A m \in neighbor_list : addr'[m] = addr[m]
    <3>1. PICK a \in Addr : addr' = [addr EXCEPT ![n] = a]
      BY <2>3 DEF Forgotten
    <3> QED
      BY <2>1, <2>3, <3>1 DEF Forgotten
  <2> QED
    BY <2>2, <2>3
<1>2. TypeOK'
  BY <1>1 DEF QInv, TypeOK, pools
<1>3. Bounded' /\ EntriesLive'
  BY <1>1 DEF QInv, Bounded, EntriesLive
<1> QED
  BY <1>2, <1>3 DEF QInv

LEMMA RefuseKeepsPInv ==
  ASSUME PInv, NEW k \in Packet, Refuse(k, Dest[k])
  PROVE  PInv'
<1>1. /\ UNCHANGED <<neighbor_memb, neighbor_list, packet_queue, transmit_timer, pools, attempts>>
      /\ UNCHANGED <<addr, transmissions, collisions>> \/ \E n \in Block : Forgotten(n)
      /\ report' = [report EXCEPT ![k] = "called"]
  BY RefuseIs DEF PInv
<1>2. report' \in [Packet -> {"new", "queued", "called"}]
  BY <1>1 DEF PInv, QInv, TypeOK
<1>3. QInv'
  BY <1>1, <1>2, ForgottenKeeps DEF PInv
<1> QED
  BY <1>1, <1>3 DEF PInv, PoolsAccounted, Held, pools

LEMMA StutterKeepsPInv == PInv /\ UNCHANGED vars => PInv'
BY DEF PInv, QInv, TypeOK, Bounded, EntriesLive, PoolsAccounted, Held, vars, entry, timing, pools

LEMMA NextPInv == PInv /\ [Next]_vars => PInv'
<1> SUFFICES ASSUME PInv, [Next]_vars
             PROVE  PInv'
  OBVIOUS
<1>1. ASSUME NEW k \in Packet, NEW n \in Block, Accept(k, Dest[k], n)
      PROVE  PInv'
  BY <1>1, AcceptKeepsPInv
<1>2. ASSUME NEW n \in Block, NEW s \in Outcome, Transmit(n, s)
      PROVE  PInv'
  <2>1. Sent(n, Head(packet_queue[n])) /\ Head(packet_queue[n]) \in Packet
    BY <1>2, TransmitSends DEF PInv, QInv
  <2> QED
    BY <2>1, SentKeepsPInv
<1> QED
  BY <1>1, <1>2, RefuseKeepsPInv, StutterKeepsPInv DEF Next, Send

LEMMA PoolsInvariance == Spec => []PInv
BY InitPInv, NextPInv, PTL DEF Spec

(* Types of the output queue, in every state.                              *)
THEOREM CsmaTypeCorrect == Spec => []TypeOK
<1>1. PInv => TypeOK
  BY DEF PInv, QInv
<1> QED
  BY <1>1, PoolsInvariance, PTL

(* Entries live as long as they have frames, one for a destination, with   *)
(* the timer set; and the pools have given out what the queues hold.       *)
THEOREM PoolsNeverLeak == Spec => []NothingLeaks
<1>1. PInv => NothingLeaks
  BY DEF PInv, QInv, NothingLeaks
<1> QED
  BY <1>1, PoolsInvariance, PTL

--------------------------------------------------------------------------------
(* The retries: a frame waits in one place, unattempted until it is first; *)
(* the counters of the entry bound the attempts of its first frame.        *)

Placed ==
  \A n \in Block : \A i \in 1 .. Len(packet_queue[n]) :
    /\ report[packet_queue[n][i]] = "queued"
    /\ \A m \in Block : \A j \in 1 .. Len(packet_queue[m]) :
         packet_queue[m][j] = packet_queue[n][i] => m = n /\ j = i

Counts(n) ==
  LET k == Head(packet_queue[n])
      t == transmissions[n]
  IN  /\ t < Limit[k] /\ t <= attempts[k]
      /\ attempts[k] <= t * (CSMA_MAX_BACKOFF + 1) + collisions[n]

Counted ==
  /\ \A k \in Packet : report[k] = "new" => attempts[k] = 0
  /\ \A n \in Block : \A i \in 2 .. Len(packet_queue[n]) : attempts[packet_queue[n][i]] = 0
  /\ \A n \in Block : packet_queue[n] # << >> => Counts(n)

RInv == PInv /\ Placed /\ Counted

LEMMA Times ==
  /\ \A t, b \in Nat : t * b \in Nat /\ (t + 1) * b = t * b + b
  /\ \A t, l, b \in Nat : t < l => t * b + b <= l * b
<1>1. \A t, b \in Nat : t * b \in Nat /\ (t + 1) * b = t * b + b
  OBVIOUS
<1>2. ASSUME NEW t \in Nat, NEW l \in Nat, NEW b \in Nat, t < l
      PROVE  t * b + b <= l * b
  <2>1. PICK d \in Nat : l = (t + 1) + d
    <3>1. l - (t + 1) \in Nat /\ l = (t + 1) + (l - (t + 1))
      BY <1>2
    <3> QED
      BY <3>1
  <2>2. l * b = (t + 1) * b + d * b /\ d * b \in Nat
    BY <2>1
  <2> QED
    BY <1>1, <2>2
<1> QED
  BY <1>1, <1>2

\* a, the attempts, counted in t and c below the limit l, counts one more
LEMMA Counting ==
  ASSUME NEW t \in Nat, NEW c \in Nat, NEW l \in Nat, NEW a \in Nat, NEW m \in Nat,
         t < l, c <= m, t <= a, a <= t * (m + 1) + c
  PROVE  /\ t <= a + 1 /\ t + 1 <= a + 1
         /\ a + 1 <= t * (m + 1) + (c + 1) /\ a + 1 <= (t + 1) * (m + 1) + 0
         /\ a + 1 <= l * (m + 1)
<1> DEFINE p == t * (m + 1)
           r == (t + 1) * (m + 1)
           u == l * (m + 1)
<1>1. m + 1 \in Nat /\ p \in Nat /\ u \in Nat /\ r = p + (m + 1) /\ p + (m + 1) <= u
  BY Times
<1>2. a <= p + c
  OBVIOUS
<1> HIDE DEF p, r, u
<1>3. a + 1 <= p + (c + 1) /\ a + 1 <= r + 0 /\ a + 1 <= u /\ t <= a + 1 /\ t + 1 <= a + 1
  BY <1>1, <1>2
<1> QED
  BY <1>3 DEF p, r, u

\* what stands where after a frame was accepted
LEMMA AcceptPlaces ==
  ASSUME QInv, NEW k \in Packet, NEW n \in Block, Accept(k, Dest[k], n),
         NEW m \in Block, NEW i \in 1 .. Len(packet_queue'[m])
  PROVE  \/ m = n /\ i = Len(packet_queue[n]) + 1 /\ packet_queue'[m][i] = k
         \/ /\ i \in 1 .. Len(packet_queue[m]) /\ packet_queue'[m][i] = packet_queue[m][i]
            /\ packet_queue[m][i] \in Packet
<1> DEFINE queue == packet_queue[n]
<1>1. packet_queue' = [packet_queue EXCEPT ![n] = Append(queue, k)]
  BY AcceptKeepsQInv
<1>2. packet_queue \in [Block -> Seq(Packet)] /\ queue \in Seq(Packet) /\ packet_queue[m] \in Seq(Packet)
  BY DEF QInv, TypeOK
<1>3. CASE m = n
  <2>1. packet_queue'[m] = Append(queue, k)
    BY <1>1, <1>2, <1>3
  <2>2. /\ Len(Append(queue, k)) = Len(queue) + 1 /\ Len(queue) \in Nat
        /\ Append(queue, k)[Len(queue) + 1] = k
        /\ \A j \in 1 .. Len(queue) : Append(queue, k)[j] = queue[j] /\ queue[j] \in Packet
    BY <1>2, AppendIs
  <2> HIDE DEF queue
  <2>3. i \in 1 .. Len(queue) \/ i = Len(queue) + 1
    BY <2>1, <2>2
  <2> USE DEF queue
  <2> QED
    BY <1>3, <2>1, <2>2, <2>3
<1>4. CASE m # n
  <2>1. packet_queue'[m] = packet_queue[m]
    BY <1>1, <1>2, <1>4
  <2>2. \A j \in 1 .. Len(packet_queue[m]) : packet_queue[m][j] \in Packet
    BY <1>2
  <2> QED
    BY <2>1, <2>2
<1> QED
  BY <1>3, <1>4

\* when the first frame of n has left, what waits at place i of m came from j
CameFrom(n, m, i, j) ==
  /\ packet_queue'[m][i] = packet_queue[m][j] /\ packet_queue[m][j] \in Packet
  /\ j = IF m = n THEN i + 1 ELSE i

LEMMA DonePlaces ==
  ASSUME QInv, NEW n \in Block, packet_queue[n] # << >>,
         packet_queue' = [packet_queue EXCEPT ![n] = Tail(packet_queue[n])],
         NEW m \in Block, NEW i \in 1 .. Len(packet_queue'[m])
  PROVE  \E j \in 1 .. Len(packet_queue[m]) : CameFrom(n, m, i, j)
<1> DEFINE queue == packet_queue[n]
<1>1. packet_queue \in [Block -> Seq(Packet)] /\ queue \in Seq(Packet) /\ packet_queue[m] \in Seq(Packet)
  BY DEF QInv, TypeOK
<1>2. \A j \in 1 .. Len(packet_queue[m]) : packet_queue[m][j] \in Packet
  BY <1>1
<1>3. CASE m = n
  <2>1. packet_queue'[m] = Tail(queue)
    BY <1>1, <1>3
  <2>2. /\ Len(Tail(queue)) = Len(queue) - 1 /\ Len(queue) \in Nat
        /\ \A j \in 1 .. Len(queue) - 1 : Tail(queue)[j] = queue[j + 1]
    BY <1>1, TailIs
  <2>3. i \in 1 .. Len(queue) - 1
    BY <2>1, <2>2
  <2>4. i + 1 \in 1 .. Len(queue) /\ Tail(queue)[i] = queue[i + 1]
    BY <2>2, <2>3
  <2> QED
    BY <1>2, <1>3, <2>1, <2>4 DEF CameFrom
<1>4. CASE m # n
  BY <1>1, <1>2, <1>4 DEF CameFrom
<1> QED
  BY <1>3, <1>4

\* what a transmission counts: q is done with, or counted once more in its entry
CountedDone(n, q, s) ==
  tx_done(n, q) /\ (s \in {"NOACK", "COLLISION"} => attempts[q] + 1 >= Limit[q])

CountedAgain(n, q, t, c) ==
  /\ rexmit(n, t, c)
  /\ t < Limit[q] /\ t <= attempts[q] + 1 /\ attempts[q] + 1 <= t * (CSMA_MAX_BACKOFF + 1) + c

\* the first frame of an entry may be attempted once more
LEMMA CountsIs ==
  ASSUME RInv, NEW n \in Block, packet_queue[n] # << >>, NEW q, q = Head(packet_queue[n])
  PROVE  LET t == transmissions[n]
             c == collisions[n]
             l == Limit[q]
             a == attempts[q]
         IN  /\ q \in Packet /\ t \in Nat /\ c \in Nat /\ l \in Nat /\ a \in Nat
             /\ CSMA_MAX_BACKOFF \in Nat /\ c <= CSMA_MAX_BACKOFF
             /\ t < l /\ t <= a /\ a <= t * (CSMA_MAX_BACKOFF + 1) + c
             /\ t <= a + 1 /\ t + 1 <= a + 1
             /\ a + 1 <= t * (CSMA_MAX_BACKOFF + 1) + (c + 1)
             /\ a + 1 <= (t + 1) * (CSMA_MAX_BACKOFF + 1) + 0
             /\ a + 1 <= l * (CSMA_MAX_BACKOFF + 1)
<1> DEFINE t == transmissions[n]
           c == collisions[n]
           l == Limit[q]
           a == attempts[q]
<1>1. q \in Packet
  BY TailIs DEF RInv, PInv, QInv, TypeOK
<1>2. /\ t \in Nat /\ c \in Nat /\ l \in Nat /\ a \in Nat /\ CSMA_MAX_BACKOFF \in Nat
      /\ c <= CSMA_MAX_BACKOFF
  BY <1>1, CsmaAssumption DEF RInv, PInv, QInv, TypeOK
<1>3. t < l /\ t <= a /\ a <= t * (CSMA_MAX_BACKOFF + 1) + c
  BY DEF RInv, Counted, Counts
<1>4. /\ t <= a + 1 /\ t + 1 <= a + 1
      /\ a + 1 <= t * (CSMA_MAX_BACKOFF + 1) + (c + 1)
      /\ a + 1 <= (t + 1) * (CSMA_MAX_BACKOFF + 1) + 0
      /\ a + 1 <= l * (CSMA_MAX_BACKOFF + 1)
  BY <1>2, <1>3, Counting
<1> QED
  BY <1>1, <1>2, <1>3, <1>4

LEMMA TransmitCounts ==
  ASSUME RInv, NEW n \in Block, NEW s \in Outcome, Transmit(n, s), NEW q, q = Head(packet_queue[n])
  PROVE  \/ CountedDone(n, q, s)
         \/ \E t \in Nat, c \in 0 .. CSMA_MAX_BACKOFF : CountedAgain(n, q, t, c)
<1> DEFINE t == transmissions[n]
           c == collisions[n]
           l == Limit[q]
           a == attempts[q]
<1>1. packet_queue[n] # << >> /\ packet_sent(n, q, s)
  BY DEF Transmit
<1>2. /\ q \in Packet /\ t \in Nat /\ c \in Nat /\ l \in Nat /\ a \in Nat
      /\ CSMA_MAX_BACKOFF \in Nat /\ c <= CSMA_MAX_BACKOFF
      /\ t < l /\ t <= a /\ a <= t * (CSMA_MAX_BACKOFF + 1) + c
      /\ t <= a + 1 /\ t + 1 <= a + 1
      /\ a + 1 <= t * (CSMA_MAX_BACKOFF + 1) + (c + 1)
      /\ a + 1 <= (t + 1) * (CSMA_MAX_BACKOFF + 1) + 0
  BY <1>1, CountsIs
<1>3. t + 1 \in Nat /\ 0 \in 0 .. CSMA_MAX_BACKOFF
  BY <1>2
<1>4. ASSUME RetryOrGiveUp(n, q, t + 1, 0)
      PROVE  CountedDone(n, q, s) \/ CountedAgain(n, q, t + 1, 0)
  <2>1. CASE t + 1 >= l
    <3>1. tx_done(n, q)
      BY <1>4, <2>1 DEF RetryOrGiveUp
    <3>2. a + 1 >= l
      BY <1>2, <2>1
    <3> QED
      BY <3>1, <3>2 DEF CountedDone
  <2>2. CASE ~(t + 1 >= l)
    <3>1. rexmit(n, t + 1, 0)
      BY <1>4, <2>2 DEF RetryOrGiveUp
    <3>2. t + 1 < l
      BY <1>2, <2>2
    <3> QED
      BY <1>2, <3>1, <3>2 DEF CountedAgain
  <2> QED
    BY <2>1, <2>2
<1>5. CASE s = "COLLISION" /\ c + 1 > CSMA_MAX_BACKOFF
  <2>1. RetryOrGiveUp(n, q, t + 1, 0)
    BY <1>1, <1>5 DEF packet_sent, collision
  <2> QED
    BY <1>3, <1>4, <2>1
<1>6. CASE s = "COLLISION" /\ ~(c + 1 > CSMA_MAX_BACKOFF)
  <2>1. RetryOrGiveUp(n, q, t, c + 1)
    BY <1>1, <1>6 DEF packet_sent, collision
  <2>2. c + 1 \in 0 .. CSMA_MAX_BACKOFF /\ ~(t >= l)
    BY <1>2, <1>6
  <2>3. rexmit(n, t, c + 1)
    BY <2>1, <2>2 DEF RetryOrGiveUp
  <2>4. CountedAgain(n, q, t, c + 1)
    BY <1>2, <2>3 DEF CountedAgain
  <2> QED
    BY <1>2, <2>2, <2>4
<1>7. CASE s = "NOACK"
  <2>1. RetryOrGiveUp(n, q, t + 1, 0)
    BY <1>1, <1>7 DEF packet_sent, noack
  <2> QED
    BY <1>3, <1>4, <2>1
<1>8. CASE s # "COLLISION" /\ s # "NOACK"
  BY <1>1, <1>8 DEF packet_sent, CountedDone
<1> QED
  BY <1>5, <1>6, <1>7, <1>8

LEMMA AcceptKeepsRInv ==
  ASSUME RInv, NEW k \in Packet, NEW n \in Block, Accept(k, Dest[k], n)
  PROVE  RInv'
<1> DEFINE queue == packet_queue[n]
<1>1. /\ PInv' /\ QInv /\ attempts' = attempts /\ report' = [report EXCEPT ![k] = "queued"]
      /\ report[k] = "new"
  BY AcceptKeepsPInv DEF RInv, PInv, Accept
<1>2. packet_queue' = [packet_queue EXCEPT ![n] = Append(queue, k)]
  BY <1>1, AcceptKeepsQInv
<1>3. ASSUME NEW m \in Block, NEW i \in 1 .. Len(packet_queue'[m])
      PROVE  \/ m = n /\ i = Len(queue) + 1 /\ packet_queue'[m][i] = k
             \/ /\ i \in 1 .. Len(packet_queue[m]) /\ packet_queue'[m][i] = packet_queue[m][i]
                /\ packet_queue[m][i] \in Packet /\ packet_queue[m][i] # k
                /\ report[packet_queue[m][i]] = "queued"
  BY <1>1, AcceptPlaces DEF RInv, Placed
<1>4. Placed'
  <2>1. ASSUME NEW m \in Block, NEW i \in 1 .. Len(packet_queue'[m])
        PROVE  report'[packet_queue'[m][i]] = "queued"
    <3>1. \A q \in Packet : report'[q] = IF q = k THEN "queued" ELSE report[q]
      BY <1>1 DEF QInv, TypeOK
    <3> QED
      BY <1>3, <3>1
  <2>2. ASSUME NEW m \in Block, NEW i \in 1 .. Len(packet_queue'[m]),
               NEW o \in Block, NEW j \in 1 .. Len(packet_queue'[o]),
               packet_queue'[o][j] = packet_queue'[m][i]
        PROVE  o = m /\ j = i
    <3> DEFINE Is(b, x) == b = n /\ x = Len(queue) + 1 /\ packet_queue'[b][x] = k
               Was(b, x) == /\ x \in 1 .. Len(packet_queue[b])
                            /\ packet_queue'[b][x] = packet_queue[b][x] /\ packet_queue[b][x] # k
    <3>1. (Is(m, i) \/ Was(m, i)) /\ (Is(o, j) \/ Was(o, j))
      BY <1>3
    <3>2. CASE Was(m, i) /\ Was(o, j)
      <4>1. packet_queue[o][j] = packet_queue[m][i] /\ i \in 1 .. Len(packet_queue[m]) /\ j \in 1 .. Len(packet_queue[o])
        BY <2>2, <3>2
      <4> QED
        BY <4>1 DEF RInv, Placed
    <3>3. CASE Is(m, i) /\ Is(o, j)
      BY <3>3
    <3>4. CASE (Is(m, i) /\ Was(o, j)) \/ (Was(m, i) /\ Is(o, j))
      BY <2>2, <3>4
    <3> QED
      BY <3>1, <3>2, <3>3, <3>4
  <2> QED
    BY <2>1, <2>2 DEF Placed
<1>5. \A j \in Packet : report'[j] = "new" => attempts'[j] = 0
  BY <1>1 DEF RInv, Counted, QInv, TypeOK
<1>6. ASSUME NEW m \in Block, NEW i \in 2 .. Len(packet_queue'[m])
      PROVE  attempts'[packet_queue'[m][i]] = 0
  <2>1. Len(packet_queue[m]) \in Nat /\ Len(packet_queue'[m]) \in Nat
    <3>1. packet_queue \in [Block -> Seq(Packet)] /\ packet_queue' \in [Block -> Seq(Packet)]
      BY <1>1 DEF QInv, PInv, TypeOK
    <3>2. packet_queue[m] \in Seq(Packet) /\ packet_queue'[m] \in Seq(Packet)
      BY <3>1
    <3> QED
      BY <3>2
  <2>2. i \in 1 .. Len(packet_queue'[m]) /\ i \in 2 .. i
    BY <2>1
  <2>3. i \in 1 .. Len(packet_queue[m]) => i \in 2 .. Len(packet_queue[m])
    BY <2>1
  <2> QED
    BY <1>1, <1>3, <2>2, <2>3 DEF RInv, Counted
<1>7. ASSUME NEW m \in Block, packet_queue'[m] # << >>
      PROVE  Counts(m)'
  <2>1. packet_queue \in [Block -> Seq(Packet)] /\ queue \in Seq(Packet)
    BY <1>1 DEF QInv, TypeOK
  <2>2. CASE m # n
    BY <1>1, <1>2, <1>7, <2>1, <2>2 DEF RInv, Counted, Counts, Accept, Named, NewOrOld, QInv, TypeOK
  <2>3. CASE m = n /\ queue # << >>
    <3>1. n \in Entry(Dest[k])
      BY <1>1, <2>3 DEF Accept, Uses, QInv, EntriesLive
    <3>2. transmissions' = transmissions /\ collisions' = collisions
      BY <3>1 DEF Accept, Named, NewOrOld
    <3>3. Append(queue, k) # << >> /\ Head(Append(queue, k)) = Head(queue)
      BY <2>1, <2>3
    <3>4. Head(packet_queue'[m]) = Head(queue)
      BY <1>2, <2>1, <2>3, <3>3
    <3> QED
      BY <1>1, <2>3, <3>2, <3>4 DEF RInv, Counted, Counts
  <2>4. CASE m = n /\ queue = << >>
    <3>1. n \notin Entry(Dest[k])
      BY <1>1, <2>4 DEF Entry, QInv, EntriesLive
    <3>2. transmissions'[n] = 0 /\ collisions'[n] = 0
      BY <1>1, <3>1 DEF Accept, Named, NewOrOld, QInv, TypeOK
    <3>3. Head(packet_queue'[m]) = k
      BY <1>2, <2>1, <2>4
    <3>4. attempts[k] = 0 /\ Limit[k] \in Nat \ {0} /\ 0 * (CSMA_MAX_BACKOFF + 1) = 0
      BY <1>1, CsmaAssumption DEF RInv, Counted
    <3> QED
      BY <1>1, <2>4, <3>2, <3>3, <3>4 DEF Counts
  <2> QED
    BY <2>2, <2>3, <2>4
<1> QED
  BY <1>1, <1>4, <1>5, <1>6, <1>7 DEF RInv, Counted

LEMMA DoneKeepsRInv ==
  ASSUME RInv, NEW n \in Block, NEW s \in Outcome, Transmit(n, s),
         NEW q, q = Head(packet_queue[n]), CountedDone(n, q, s)
  PROVE  RInv'
<1> DEFINE queue == packet_queue[n]
           rest == Tail(queue)
<1>1. /\ PInv' /\ QInv /\ q \in Packet /\ queue # << >>
  <2>1. Sent(n, q) /\ q \in Packet
    BY TransmitSends DEF RInv, PInv, QInv
  <2> QED
    BY <2>1, SentKeepsPInv DEF RInv, PInv, Sent
<1>2. /\ packet_queue' = [packet_queue EXCEPT ![n] = rest] /\ report' = [report EXCEPT ![q] = "called"]
      /\ IF rest # << >>
         THEN /\ transmissions' = [transmissions EXCEPT ![n] = 0]
              /\ collisions' = [collisions EXCEPT ![n] = 0]
         ELSE UNCHANGED <<transmissions, collisions>>
  BY DEF CountedDone, tx_done, entry
<1>3. packet_queue \in [Block -> Seq(Packet)] /\ queue \in Seq(Packet)
  BY <1>1 DEF QInv, TypeOK
<1>4. Len(queue) \in Nat \ {0} /\ q = queue[1] /\ 1 \in 1 .. Len(queue)
  BY <1>1, <1>3, TailIs
<1>5. \A j \in Packet : /\ report'[j] = IF j = q THEN "called" ELSE report[j]
                        /\ attempts'[j] = IF j = q THEN 0 ELSE attempts[j]
  BY <1>1, <1>2 DEF Transmit, QInv, TypeOK
<1>6. ASSUME NEW m \in Block, NEW i \in 1 .. Len(packet_queue'[m])
      PROVE  \E j \in 1 .. Len(packet_queue[m]) :
               /\ packet_queue'[m][i] = packet_queue[m][j] /\ packet_queue[m][j] \in Packet
               /\ j = (IF m = n THEN i + 1 ELSE i) /\ packet_queue[m][j] # q
               /\ report[packet_queue[m][j]] = "queued"
  <2>4. packet_queue' = [packet_queue EXCEPT ![n] = Tail(packet_queue[n])] /\ packet_queue[n] # << >>
    BY <1>1, <1>2
  <2>1. PICK j \in 1 .. Len(packet_queue[m]) : CameFrom(n, m, i, j)
    BY <1>1, <2>4, DonePlaces
  <2>5. /\ packet_queue'[m][i] = packet_queue[m][j] /\ packet_queue[m][j] \in Packet
        /\ j = IF m = n THEN i + 1 ELSE i
    BY <2>1 DEF CameFrom
  <2>2. m = n => j # 1
    BY <2>5
  <2>3. packet_queue[m][j] # q
    BY <1>4, <2>2 DEF RInv, Placed
  <2> QED
    BY <2>3, <2>5 DEF RInv, Placed
<1>7. Placed'
  <2>1. ASSUME NEW m \in Block, NEW i \in 1 .. Len(packet_queue'[m])
        PROVE  report'[packet_queue'[m][i]] = "queued"
    BY <1>5, <1>6
  <2>2. ASSUME NEW m \in Block, NEW i \in 1 .. Len(packet_queue'[m]),
               NEW o \in Block, NEW j \in 1 .. Len(packet_queue'[o]),
               packet_queue'[o][j] = packet_queue'[m][i]
        PROVE  o = m /\ j = i
    <3>1. PICK x \in 1 .. Len(packet_queue[m]) :
            packet_queue'[m][i] = packet_queue[m][x] /\ x = IF m = n THEN i + 1 ELSE i
      BY <1>6
    <3>2. PICK y \in 1 .. Len(packet_queue[o]) :
            packet_queue'[o][j] = packet_queue[o][y] /\ y = IF o = n THEN j + 1 ELSE j
      BY <1>6
    <3>3. o = m /\ y = x
      BY <2>2, <3>1, <3>2 DEF RInv, Placed
    <3> QED
      BY <3>1, <3>2, <3>3
  <2> QED
    BY <2>1, <2>2 DEF Placed
<1>8. \A j \in Packet : report'[j] = "new" => attempts'[j] = 0
  BY <1>5 DEF RInv, Counted
<1>9. ASSUME NEW m \in Block, NEW i \in 1 .. Len(packet_queue'[m]), m = n \/ i > 1
      PROVE  attempts'[packet_queue'[m][i]] = 0
  <2>1. PICK j \in 1 .. Len(packet_queue[m]) :
          /\ packet_queue'[m][i] = packet_queue[m][j] /\ packet_queue[m][j] \in Packet
          /\ j = (IF m = n THEN i + 1 ELSE i) /\ packet_queue[m][j] # q
    BY <1>6
  <2>2. j \in 2 .. Len(packet_queue[m])
    BY <1>9, <2>1
  <2>3. attempts[packet_queue[m][j]] = 0
    BY <2>2 DEF RInv, Counted
  <2> QED
    BY <1>5, <2>1, <2>3
<1>10. \A m \in Block : packet_queue'[m] \in Seq(Packet)
  BY <1>1 DEF PInv, QInv, TypeOK
<1>11. ASSUME NEW m \in Block, NEW i \in 2 .. Len(packet_queue'[m])
       PROVE  attempts'[packet_queue'[m][i]] = 0
  <2>1. i \in 1 .. Len(packet_queue'[m]) /\ i > 1
    OBVIOUS
  <2> QED
    BY <1>9, <2>1
<1>12. ASSUME NEW m \in Block, packet_queue'[m] # << >>
       PROVE  Counts(m)'
  <2>1. CASE m # n
    <3>1. /\ packet_queue'[m] = packet_queue[m] /\ transmissions'[m] = transmissions[m]
          /\ collisions'[m] = collisions[m]
      BY <1>1, <1>2, <1>3, <2>1 DEF QInv, TypeOK
    <3>2. 1 \in 1 .. Len(packet_queue'[m]) /\ Head(packet_queue'[m]) = packet_queue'[m][1]
      BY <1>10, <1>12, TailIs
    <3>3. Head(packet_queue'[m]) \in Packet /\ Head(packet_queue'[m]) # q
      BY <1>6, <3>2
    <3>4. attempts'[Head(packet_queue'[m])] = attempts[Head(packet_queue'[m])]
      BY <1>5, <3>3
    <3>5. Counts(m)
      BY <1>12, <3>1 DEF RInv, Counted
    <3> QED
      BY <3>1, <3>4, <3>5 DEF Counts
  <2>2. CASE m = n
    <3>1. packet_queue'[n] = rest /\ rest # << >>
      BY <1>2, <1>3, <1>12, <2>2
    <3>2. transmissions'[n] = 0 /\ collisions'[n] = 0
      BY <1>1, <1>2, <3>1 DEF QInv, TypeOK
    <3>3. 1 \in 1 .. Len(packet_queue'[n]) /\ Head(packet_queue'[n]) = packet_queue'[n][1]
      BY <1>10, <1>12, <2>2, TailIs
    <3>4. attempts'[Head(packet_queue'[n])] = 0 /\ Head(packet_queue'[n]) \in Packet
      BY <1>6, <1>9, <3>3
    <3>5. Limit[Head(packet_queue'[n])] \in Nat \ {0} /\ 0 * (CSMA_MAX_BACKOFF + 1) = 0
      BY <3>4, CsmaAssumption
    <3> QED
      BY <2>2, <3>2, <3>4, <3>5 DEF Counts
  <2> QED
    BY <2>1, <2>2
<1> QED
  BY <1>1, <1>7, <1>8, <1>11, <1>12 DEF RInv, Counted

LEMMA AgainKeepsRInv ==
  ASSUME RInv, NEW n \in Block, NEW s \in Outcome, Transmit(n, s), NEW q, q = Head(packet_queue[n]),
         NEW t \in Nat, NEW c \in 0 .. CSMA_MAX_BACKOFF, CountedAgain(n, q, t, c)
  PROVE  RInv'
<1>1. /\ PInv' /\ QInv /\ q \in Packet /\ packet_queue[n] # << >>
  <2>1. Sent(n, q) /\ q \in Packet
    BY TransmitSends DEF RInv, PInv, QInv
  <2> QED
    BY <2>1, SentKeepsPInv DEF RInv, PInv, Sent
<1>2. /\ packet_queue' = packet_queue /\ report' = report
      /\ transmissions' = [transmissions EXCEPT ![n] = t] /\ collisions' = [collisions EXCEPT ![n] = c]
  BY DEF CountedAgain, rexmit
<1>3. packet_queue \in [Block -> Seq(Packet)]
  BY <1>1 DEF QInv, TypeOK
<1>4. /\ Len(packet_queue[n]) \in Nat \ {0} /\ q = packet_queue[n][1]
      /\ 1 \in 1 .. Len(packet_queue[n])
  BY <1>1, <1>3, TailIs
<1>6. report[q] = "queued"
  BY <1>4 DEF RInv, Placed
<1>5. \A j \in Packet : attempts'[j] = IF j = q THEN attempts[q] + 1 ELSE attempts[j]
  BY <1>1, <1>2, <1>6 DEF Transmit, QInv, TypeOK
<1>7. \A m \in Block : \A i \in 1 .. Len(packet_queue[m]) :
        packet_queue[m][i] \in Packet /\ (packet_queue[m][i] = q => m = n /\ i = 1)
  <2>1. \A m \in Block : packet_queue[m] \in Seq(Packet)
    BY <1>3
  <2>2. \A m \in Block : \A i \in 1 .. Len(packet_queue[m]) : packet_queue[m][i] \in Packet
    BY <2>1
  <2> QED
    BY <1>4, <2>2 DEF RInv, Placed
<1>8. \A j \in Packet : report'[j] = "new" => attempts'[j] = 0
  BY <1>2, <1>5, <1>6 DEF RInv, Counted
<1>9. ASSUME NEW m \in Block, NEW i \in 2 .. Len(packet_queue'[m])
      PROVE  attempts'[packet_queue'[m][i]] = 0
  <2>1. i \in 2 .. Len(packet_queue[m]) /\ i \in 1 .. Len(packet_queue[m]) /\ i # 1
    BY <1>2
  <2>2. packet_queue[m][i] # q /\ packet_queue[m][i] \in Packet
    BY <1>7, <2>1
  <2> QED
    BY <1>2, <1>5, <2>1, <2>2 DEF RInv, Counted
<1>10. ASSUME NEW m \in Block, packet_queue'[m] # << >>
       PROVE  Counts(m)'
  <2>1. Head(packet_queue[m]) = packet_queue[m][1] /\ 1 \in 1 .. Len(packet_queue[m])
    BY <1>2, <1>3, <1>10, TailIs
  <2>2. CASE m # n
    <3>1. Head(packet_queue[m]) \in Packet /\ Head(packet_queue[m]) # q
      BY <1>7, <2>1, <2>2
    <3>2. attempts'[Head(packet_queue[m])] = attempts[Head(packet_queue[m])]
      BY <1>5, <3>1
    <3>3. transmissions'[m] = transmissions[m] /\ collisions'[m] = collisions[m]
      BY <1>1, <1>2, <2>2 DEF QInv, TypeOK
    <3>4. Counts(m)
      BY <1>2, <1>10 DEF RInv, Counted
    <3> QED
      BY <1>2, <3>2, <3>3, <3>4 DEF Counts
  <2>3. CASE m = n
    <3>1. transmissions'[n] = t /\ collisions'[n] = c /\ attempts'[q] = attempts[q] + 1
      BY <1>1, <1>2, <1>5 DEF QInv, TypeOK
    <3> QED
      BY <1>2, <2>3, <3>1 DEF Counts, CountedAgain
  <2> QED
    BY <2>2, <2>3
<1>12. Placed'
  BY <1>2 DEF RInv, Placed
<1> QED
  BY <1>1, <1>8, <1>9, <1>10, <1>12 DEF RInv, Counted

LEMMA InitRInv == Init => RInv
<1> SUFFICES ASSUME Init
             PROVE  RInv
  OBVIOUS
<1>1. \A n \in Block : Len(packet_queue[n]) = 0 /\ packet_queue[n] = << >>
  BY EmptyIs DEF Init
<1>2. Placed /\ Counted
  BY <1>1 DEF Init, Placed, Counted
<1> QED
  BY <1>2, InitPInv DEF RInv

LEMMA NextRInv == RInv /\ [Next]_vars => RInv'
<1> SUFFICES ASSUME RInv, [Next]_vars
             PROVE  RInv'
  OBVIOUS
<1>1. ASSUME NEW k \in Packet, NEW n \in Block, Accept(k, Dest[k], n)
      PROVE  RInv'
  BY <1>1, AcceptKeepsRInv
<1>2. ASSUME NEW n \in Block, NEW s \in Outcome, Transmit(n, s)
      PROVE  RInv'
  BY <1>2, TransmitCounts, DoneKeepsRInv, AgainKeepsRInv
<1>3. ASSUME NEW k \in Packet, Refuse(k, Dest[k])
      PROVE  RInv'
  <2>1. /\ packet_queue' = packet_queue /\ attempts' = attempts
        /\ report[k] = "new" /\ report' = [report EXCEPT ![k] = "called"]
        /\ UNCHANGED <<addr, transmissions, collisions>> \/ \E n \in Block : Forgotten(n)
    BY <1>3, RefuseIs DEF RInv, PInv
  <2>2. \A j \in Packet : report'[j] = report[j] \/ (report[j] = "new" /\ report'[j] = "called")
    BY <2>1 DEF RInv, PInv, QInv, TypeOK
  <2>3. \A n \in Block : \A i \in 1 .. Len(packet_queue[n]) : packet_queue[n][i] \in Packet
    <3>1. \A n \in Block : packet_queue[n] \in Seq(Packet)
      BY DEF RInv, PInv, QInv, TypeOK
    <3> QED
      BY <3>1
  <2>4. Placed'
    BY <2>1, <2>2, <2>3 DEF RInv, Placed
  <2>5. \A n \in Block : packet_queue[n] # << >> =>
          transmissions'[n] = transmissions[n] /\ collisions'[n] = collisions[n]
    BY <2>1 DEF Forgotten, RInv, PInv, QInv, TypeOK
  <2>6. Counted'
    BY <2>1, <2>2, <2>5 DEF RInv, Counted, Counts
  <2> QED
    BY <1>3, <2>4, <2>6, RefuseKeepsPInv DEF RInv
<1>4. ASSUME UNCHANGED vars
      PROVE  RInv'
  BY <1>4, StutterKeepsPInv DEF RInv, Placed, Counted, Counts, vars, timing
<1> QED
  BY <1>1, <1>2, <1>3, <1>4 DEF Next, Send

LEMMA RetriesInvariance == Spec => []RInv
BY InitRInv, NextRInv, PTL DEF Spec

LEMMA HeadIs ==
  ASSUME RInv, NEW n \in Block, packet_queue[n] # << >>
  PROVE  /\ Head(packet_queue[n]) \in Packet /\ report[Head(packet_queue[n])] = "queued"
         /\ n \in neighbor_list
         /\ \A m \in Block : packet_queue[m] # << >> /\ Head(packet_queue[m]) = Head(packet_queue[n])
                               => m = n
<1>1. \A m \in Block : packet_queue[m] \in Seq(Packet)
  BY DEF RInv, PInv, QInv, TypeOK
<1>2. \A m \in Block :
        packet_queue[m] # << >> => /\ Head(packet_queue[m]) = packet_queue[m][1]
                                   /\ 1 \in 1 .. Len(packet_queue[m])
                                   /\ Head(packet_queue[m]) \in Packet
  BY <1>1, TailIs
<1> QED
  BY <1>2 DEF RInv, Placed, PInv, QInv, EntriesLive

LEMMA StepCounts == RInv /\ [Next]_vars =>
  [\A n \in Block : packet_queue[n] # << >> =>
     LET k == Head(packet_queue[n])
     IN  /\ attempts[k] + 1 <= Limit[k] * (CSMA_MAX_BACKOFF + 1)
         /\ attempts[k] + 1 < Limit[k] =>
              \A s \in {"NOACK", "COLLISION"} : Transmit(n, s) => report'[k] = "queued"]_vars
<1> SUFFICES ASSUME RInv, NEW n \in Block, packet_queue[n] # << >>
             PROVE  LET k == Head(packet_queue[n])
                    IN  /\ attempts[k] + 1 <= Limit[k] * (CSMA_MAX_BACKOFF + 1)
                        /\ attempts[k] + 1 < Limit[k] =>
                             \A s \in {"NOACK", "COLLISION"} : Transmit(n, s) => report'[k] = "queued"
  OBVIOUS
<1> DEFINE k == Head(packet_queue[n])
<1>1. /\ k \in Packet /\ attempts[k] \in Nat /\ Limit[k] \in Nat
      /\ attempts[k] + 1 <= Limit[k] * (CSMA_MAX_BACKOFF + 1)
  BY CountsIs
<1>2. ASSUME attempts[k] + 1 < Limit[k], NEW s \in {"NOACK", "COLLISION"}, Transmit(n, s)
      PROVE  report'[k] = "queued"
  <2>1. PICK t \in Nat, c \in 0 .. CSMA_MAX_BACKOFF : CountedAgain(n, k, t, c)
    <3>1. s \in Outcome /\ ~CountedDone(n, k, s)
      BY <1>1, <1>2 DEF Outcome, CountedDone
    <3> QED
      BY <1>2, <3>1, TransmitCounts
  <2>2. report' = report
    BY <2>1 DEF CountedAgain, rexmit
  <2>3. report[k] = "queued"
    BY HeadIs
  <2> QED
    BY <2>2, <2>3
<1> QED
  BY <1>1, <1>2

(* A frame that is given up for want of an acknowledgment or of a clear    *)
(* channel was transmitted as often as its limit says, and no frame more   *)
(* than CSMA_MAX_BACKOFF + 1 times that often, for any limits.             *)
THEOREM RetriesAreCounted == Spec => RetriesCounted
BY RetriesInvariance, StepCounts, PTL DEF Spec, RetriesCounted

--------------------------------------------------------------------------------
(* The order: what waits for a destination is in its one entry, if any.    *)

LEMMA WaitingIs ==
  ASSUME QInv, NEW a \in Addr
  PROVE  \/ Entry(a) = {} /\ Waiting(a) = << >>
         \/ \E n \in Block : /\ Entry(a) = {n} /\ Waiting(a) = packet_queue[n]
                             /\ packet_queue[n] # << >>
<1>1. CASE Entry(a) = {}
  BY <1>1 DEF Waiting
<1>2. CASE Entry(a) # {}
  <2>1. PICK n \in Entry(a) : TRUE
    BY <1>2
  <2>2. n \in Block /\ packet_queue[n] # << >> /\ Entry(a) = {n}
    BY <2>1 DEF Entry, QInv, TypeOK, EntriesLive
  <2>3. (CHOOSE m \in {n} : TRUE) = n
    OBVIOUS
  <2> QED
    BY <2>2, <2>3 DEF Waiting
<1> QED
  BY <1>1, <1>2

\* what is taken and put, and what stays
LEMMA FifoGets ==
  ASSUME NEW a, Waiting(a) # << >>, Waiting(a)' = Tail(Waiting(a))
  PROVE  Fifo(a)!Next
BY DEF Fifo!Next, Fifo!Get

LEMMA FifoPuts ==
  ASSUME NEW a, NEW k \in Packet, Len(Waiting(a)) < CSMA_MAX_PACKET_PER_NEIGHBOR,
         Waiting(a)' = Append(Waiting(a), k)
  PROVE  Fifo(a)!Next
BY DEF Fifo!Next, Fifo!Put

LEMMA SameWaiting ==
  ASSUME NEW a, Entry(a)' = Entry(a), \A n \in Entry(a) : packet_queue'[n] = packet_queue[n]
  PROVE  Waiting(a)' = Waiting(a)
<1>1. Entry(a) # {} => (CHOOSE n \in Entry(a) : TRUE) \in Entry(a)
  OBVIOUS
<1> QED
  BY <1>1 DEF Waiting

LEMMA NewWaiting ==
  ASSUME NEW a, NEW n, Entry(a)' = {n}
  PROVE  Waiting(a)' = packet_queue'[n]
<1>1. (CHOOSE m \in {n} : TRUE) = n
  OBVIOUS
<1> QED
  BY <1>1 DEF Waiting

LEMMA AcceptInOrder ==
  ASSUME QInv, NEW k \in Packet, NEW n \in Block, Accept(k, Dest[k], n), NEW a \in Addr
  PROVE  Fifo(a)!Next \/ UNCHANGED Waiting(a)
<1> DEFINE queue == packet_queue[n]
<1>1. packet_queue' = [packet_queue EXCEPT ![n] = Append(queue, k)]
  BY AcceptKeepsQInv
<1>2. /\ neighbor_list' = neighbor_list \cup {n} /\ addr' = [addr EXCEPT ![n] = Dest[k]]
      /\ n \in Entry(Dest[k]) \/ (Entry(Dest[k]) = {} /\ n \notin neighbor_list /\ queue = << >>)
  BY DEF Accept, Named, Uses, QInv, EntriesLive
<1>3. /\ packet_queue \in [Block -> Seq(Packet)] /\ addr \in [Block -> Addr \cup {NULL}]
      /\ neighbor_list \subseteq Block
  BY DEF QInv, TypeOK
<1>6. QueueOf(Dest[k], n) = queue
  BY <1>2 DEF QueueOf
<1>4. CASE a = Dest[k]
  <2>1. Waiting(a) = queue
    BY <1>2, <1>4, WaitingIs
  <2>2. Entry(a) \subseteq {n}
    BY <1>2, <1>4, WaitingIs
  <2>3. Entry(a)' = {n}
    BY <1>2, <1>3, <1>4, <2>2 DEF Entry
  <2>4. Waiting(a)' = Append(queue, k)
    BY <1>1, <1>3, <2>3, NewWaiting
  <2>5. Len(queue) < CSMA_MAX_PACKET_PER_NEIGHBOR
    BY <1>6 DEF Accept
  <2> QED
    BY <2>1, <2>4, <2>5, FifoPuts
<1>5. CASE a # Dest[k]
  <2>1. n \notin Entry(a)
    BY <1>2, <1>5 DEF Entry
  <2>2. Entry(a)' = Entry(a)
    BY <1>2, <1>3, <1>5, <2>1 DEF Entry
  <2>3. \A m \in Entry(a) : packet_queue'[m] = packet_queue[m]
    BY <1>1, <1>3, <2>1 DEF Entry
  <2> QED
    BY <2>2, <2>3, SameWaiting
<1> QED
  BY <1>4, <1>5

LEMMA SentInOrder ==
  ASSUME QInv, NEW n \in Block, NEW q \in Packet, Sent(n, q), NEW a \in Addr
  PROVE  Fifo(a)!Next \/ UNCHANGED Waiting(a)
<1> DEFINE queue == packet_queue[n]
           rest == Tail(queue)
<1>1. /\ packet_queue \in [Block -> Seq(Packet)] /\ addr \in [Block -> Addr \cup {NULL}]
      /\ neighbor_list \subseteq Block /\ queue # << >> /\ n \in neighbor_list
  BY DEF QInv, TypeOK, Sent, EntriesLive
<1>2. CASE \E t \in Nat, c \in 0 .. CSMA_MAX_BACKOFF : rexmit(n, t, c)
  <2>1. UNCHANGED <<neighbor_list, addr, packet_queue>>
    BY <1>2 DEF rexmit, entry
  <2> QED
    BY <2>1 DEF Waiting, Entry
<1>3. CASE tx_done(n, q)
  <2>1. /\ packet_queue' = [packet_queue EXCEPT ![n] = rest] /\ addr' = addr
        /\ neighbor_list' = IF rest # << >> THEN neighbor_list ELSE neighbor_list \ {n}
    BY <1>3 DEF tx_done, entry
  <2> HIDE DEF rest
  <2>2. CASE addr[n] = a
    <3>1. n \in Entry(a)
      BY <1>1, <2>2 DEF Entry
    <3>2. Entry(a) = {n} /\ Waiting(a) = queue
      BY <3>1, WaitingIs
    <3>3. CASE rest # << >>
      <4>1. Entry(a)' = {n}
        BY <2>1, <3>2, <3>3 DEF Entry
      <4>2. Waiting(a)' = rest
        BY <1>1, <2>1, <4>1, NewWaiting
      <4> QED
        BY <1>1, <3>2, <4>2, FifoGets DEF rest
    <3>4. CASE rest = << >>
      <4>1. Entry(a)' = {}
        BY <2>1, <3>2, <3>4 DEF Entry
      <4>2. Waiting(a)' = rest
        BY <3>4, <4>1 DEF Waiting
      <4> QED
        BY <1>1, <3>2, <4>2, FifoGets DEF rest
    <3> QED
      BY <3>3, <3>4
  <2>3. CASE addr[n] # a
    <3>1. n \notin Entry(a)
      BY <2>3 DEF Entry
    <3>2. Entry(a)' = Entry(a)
      BY <2>1, <2>3 DEF Entry
    <3>3. \A m \in Entry(a) : packet_queue'[m] = packet_queue[m]
      BY <1>1, <2>1, <3>1 DEF Entry
    <3> QED
      BY <3>2, <3>3, SameWaiting
  <2> QED
    BY <2>2, <2>3
<1> QED
  BY <1>2, <1>3 DEF Sent

LEMMA NextInOrder ==
  QInv /\ [Next]_vars => [\A a \in Addr : Fifo(a)!Next \/ UNCHANGED Waiting(a)]_vars
<1> SUFFICES ASSUME QInv, [Next]_vars, ~UNCHANGED vars, NEW a \in Addr
             PROVE  Fifo(a)!Next \/ UNCHANGED Waiting(a)
  OBVIOUS
<1>1. ASSUME NEW k \in Packet, NEW n \in Block, Accept(k, Dest[k], n)
      PROVE  Fifo(a)!Next \/ UNCHANGED Waiting(a)
  BY <1>1, AcceptInOrder
<1>2. ASSUME NEW n \in Block, NEW s \in Outcome, Transmit(n, s)
      PROVE  Fifo(a)!Next \/ UNCHANGED Waiting(a)
  BY <1>2, TransmitSends, SentInOrder DEF QInv
<1>3. ASSUME NEW k \in Packet, Refuse(k, Dest[k])
      PROVE  UNCHANGED Waiting(a)
  <2>1. /\ packet_queue' = packet_queue /\ neighbor_list' = neighbor_list
        /\ UNCHANGED <<addr, transmissions, collisions>> \/ \E n \in Block : Forgotten(n)
    BY <1>3, RefuseIs
  <2>2. \A n \in neighbor_list : addr'[n] = addr[n]
    BY <2>1 DEF Forgotten, QInv, TypeOK
  <2>3. Entry(a)' = Entry(a)
    BY <2>1, <2>2 DEF Entry
  <2> QED
    BY <2>1, <2>3, SameWaiting
<1> QED
  BY <1>1, <1>2, <1>3 DEF Next, Send

(* What waits for a destination is a bounded queue: frames for it are done *)
(* with in the order they were accepted, whatever entry holds them.        *)
THEOREM SentInQueueOrder == Spec => InOrder
<1>1. PInv => QInv
  BY DEF PInv
<1> QED
  BY <1>1, PoolsInvariance, NextInOrder, PTL DEF Spec, InOrder

--------------------------------------------------------------------------------
(* Sequence numbers: what is counted without the 8 bits, less the rounds.  *)

LEMMA Multiple ==
  ASSUME NEW d \in Int, NEW D \in Nat \ {0}, d * D < D, -D < d * D
  PROVE  d = 0
<1>1. CASE d >= 1
  <2>1. PICK e \in Nat : d = e + 1
    <3>1. d - 1 \in Nat /\ d = (d - 1) + 1
      BY <1>1
    <3> QED
      BY <3>1
  <2>2. d * D = e * D + D /\ e * D \in Nat
    BY <2>1
  <2> QED
    BY <2>2
<1>2. CASE d <= -1
  <2>1. PICK e \in Nat : d = -(e + 1)
    <3>1. -d - 1 \in Nat /\ d = -((-d - 1) + 1)
      BY <1>2
    <3> QED
      BY <3>1
  <2>2. d * D = -(e * D + D) /\ e * D \in Nat
    BY <2>1
  <2> QED
    BY <2>2
<1> QED
  BY <1>1, <1>2

LEMMA Remainder ==
  ASSUME NEW q \in Int, NEW r \in Nat, NEW D \in Nat \ {0}, r < D, NEW x \in Nat, x = q * D + r
  PROVE  x % D = r
<1> DEFINE p == x \div D
           s == x % D
<1>1. p \in Int /\ s \in Nat /\ s < D /\ x = D * p + s
  OBVIOUS
<1> HIDE DEF p, s
<1>2. (p - q) * D = r - s
  <2>1. (p - q) * D = p * D - q * D /\ D * p = p * D /\ p * D \in Int /\ q * D \in Int
    BY <1>1
  <2> QED
    BY <1>1, <2>1
<1>3. p - q = 0
  <2>1. (p - q) * D < D /\ -D < (p - q) * D /\ p - q \in Int
    BY <1>1, <1>2
  <2> HIDE DEF p, s
  <2> QED
    BY <2>1, Multiple
<1>4. r - s = 0
  BY <1>1, <1>2, <1>3
<1> QED
  BY <1>1, <1>4 DEF s

\* the next number is the next one of the round
LEMMA NextRemainder ==
  ASSUME NEW x \in Nat, NEW D \in Nat \ {0}
  PROVE  ((x % D) + 1) % D = (x + 1) % D
<1> DEFINE p == x \div D
           s == x % D
<1>1. p \in Int /\ s \in Nat /\ s < D /\ x = D * p + s /\ D * p = p * D
  OBVIOUS
<1> HIDE DEF p, s
<1>2. CASE s + 1 < D
  <2>1. (x + 1) % D = s + 1
    <3>1. s + 1 \in Nat /\ x + 1 \in Nat /\ x + 1 = p * D + (s + 1)
      <4>1. p * D \in Int
        BY <1>1
      <4> QED
        BY <1>1, <4>1
    <3> QED
      BY <1>1, <1>2, <3>1, Remainder
  <2>2. (s + 1) % D = s + 1
    BY <1>1, <1>2
  <2> QED
    BY <2>1, <2>2 DEF s
<1>3. CASE ~(s + 1 < D)
  <2>1. (x + 1) % D = 0
    <3>1. p + 1 \in Int /\ x + 1 \in Nat /\ x + 1 = (p + 1) * D + 0
      <4>1. p * D \in Int /\ (p + 1) * D = p * D + D
        BY <1>1
      <4> QED
        BY <1>1, <1>3, <4>1
    <3> QED
      BY <1>1, <3>1, Remainder
  <2>2. s + 1 = D /\ D % D = 0
    <3>1. s + 1 = D
      BY <1>1, <1>3
    <3>2. D = 1 * D + 0
      OBVIOUS
    <3> QED
      BY <3>1, <3>2, Remainder
  <2> QED
    BY <2>1, <2>2 DEF s
<1> QED
  BY <1>2, <1>3
--------------------------------------------------------------------------------
(* The duplicate filter of the receiver, and the sender together with it.  *)

\* the senders the receiver hears, and what its table holds of them
Heard == Other \cup {Sender}
Entries == [sender : Heard, seqno : OtherSeqnos \cup (0 .. DsnSize - 1), old : BOOLEAN]

Table ==
  /\ received_seqnos \in Seq(Entries)
  /\ \A i, j \in 1 .. Len(received_seqnos) :
       received_seqnos[i].sender = received_seqnos[j].sender => i = j
  /\ Len(received_seqnos) <= MAX_SEQNOS

Join(e, a, b) == <<e>> \o a \o b

LEMMA Around ==
  ASSUME NEW R, NEW t \in Seq(R), NEW g \in 1 .. Len(t) + 1
  PROVE  LET a == SubSeq(t, 1, g - 1)
             b == SubSeq(t, g + 1, Len(t))
         IN  /\ a \in Seq(R) /\ Len(a) = g - 1 /\ \A i \in 1 .. g - 1 : a[i] = t[i]
             /\ b \in Seq(R) /\ Len(b) = IF g = Len(t) + 1 THEN 0 ELSE Len(t) - g
             /\ g # Len(t) + 1 => \A i \in 1 .. Len(t) - g : b[i] = t[g + i]
<1> DEFINE a == SubSeq(t, 1, g - 1)
           b == SubSeq(t, g + 1, Len(t))
<1>1. a \in Seq(R) /\ Len(a) = g - 1 /\ \A i \in 1 .. g - 1 : a[i] = t[i]
  OBVIOUS
<1>2. CASE g = Len(t) + 1
  <2>1. b = << >>
    BY <1>2
  <2> HIDE DEF b
  <2>2. b \in Seq(R) /\ Len(b) = 0
    BY <2>1, EmptyIs
  <2> QED
    BY <1>1, <1>2, <2>2 DEF b
<1>3. CASE g # Len(t) + 1
  <2>1. g \in 1 .. Len(t)
    BY <1>3
  <2>2. b \in Seq(R) /\ Len(b) = Len(t) - g /\ \A i \in 1 .. Len(t) - g : b[i] = t[g + i]
    BY <2>1
  <2> QED
    BY <1>1, <1>3, <2>2
<1> QED
  BY <1>2, <1>3

\* u is t with e in front, less what was at the position g
Moved(R, u, e, t, g) ==
  /\ u \in Seq(R) /\ u[1] = e
  /\ Len(u) = IF g = Len(t) + 1 THEN Len(t) + 1 ELSE Len(t)
  /\ \A i \in 2 .. Len(u) : u[i] = t[IF i <= g THEN i - 1 ELSE i]

Front(e, t, g) == Join(e, SubSeq(t, 1, g - 1), SubSeq(t, g + 1, Len(t)))

LEMMA MovedToFront ==
  ASSUME NEW R, NEW t \in Seq(R), NEW e \in R, NEW g \in 1 .. Len(t) + 1
  PROVE  Moved(R, Front(e, t, g), e, t, g)
<1> DEFINE a == SubSeq(t, 1, g - 1)
           b == SubSeq(t, g + 1, Len(t))
           u == Join(e, a, b)
           l == Len(t)
           m == Len(u)
<1>1. /\ a \in Seq(R) /\ Len(a) = g - 1 /\ \A i \in 1 .. g - 1 : a[i] = t[i]
      /\ b \in Seq(R) /\ Len(b) = IF g = l + 1 THEN 0 ELSE l - g
      /\ g # l + 1 => \A i \in 1 .. l - g : b[i] = t[g + i]
  BY Around
<1>2. l \in Nat /\ g \in 1 .. l + 1
  OBVIOUS
<1> HIDE DEF a, b
<1>3. /\ u \in Seq(R) /\ m = 1 + Len(a) + Len(b) /\ u[1] = e
      /\ \A i \in 1 .. Len(a) : u[1 + i] = a[i]
      /\ \A i \in 1 .. Len(b) : u[1 + Len(a) + i] = b[i]
  <2>1. a \in Seq(R) /\ b \in Seq(R)
    BY <1>1
  <2> QED
    BY <2>1 DEF Join
<1> HIDE DEF u, m, l
<1>4. m = IF g = l + 1 THEN l + 1 ELSE l
  BY <1>1, <1>2, <1>3
<1>5. ASSUME NEW i \in 2 .. m, i <= g
      PROVE  u[i] = t[i - 1]
  <2>1. i - 1 \in 1 .. Len(a) /\ i - 1 \in 1 .. g - 1 /\ 1 + (i - 1) = i
    BY <1>1, <1>2, <1>4, <1>5
  <2> QED
    BY <1>1, <1>3, <2>1
<1>6. ASSUME NEW i \in 2 .. m, ~(i <= g)
      PROVE  u[i] = t[i]
  <2>1. /\ g # l + 1 /\ i - g \in 1 .. Len(b) /\ 1 + Len(a) + (i - g) = i /\ g + (i - g) = i
        /\ i - g \in 1 .. l - g
    BY <1>1, <1>2, <1>4, <1>6
  <2> QED
    BY <1>1, <1>3, <2>1
<1>8. \A i \in 2 .. m : u[i] = t[IF i <= g THEN i - 1 ELSE i]
  BY <1>5, <1>6
<1>9. Front(e, t, g) = u
  BY DEF Front, u, a, b
<1> QED
  BY <1>3, <1>4, <1>8, <1>9 DEF Moved, m, l

\* at most one entry is s's, and a table that is full of others has no room for it
LEMMA PositionIs ==
  ASSUME Table, NEW i \in 1 .. Len(received_seqnos)
  PROVE  /\ Positions(received_seqnos[i].sender) = {i}
         /\ Min(Positions(received_seqnos[i].sender)) = i
<1>1. DOMAIN received_seqnos = 1 .. Len(received_seqnos) /\ i \in Nat
  BY DEF Table
<1>2. Positions(received_seqnos[i].sender) = {i}
  BY <1>1 DEF Positions, Table
<1>3. Min({i}) = i
  BY <1>1 DEF Min
<1> QED
  BY <1>2, <1>3

\* the table after a frame of s: its entry is first; it was at position g, or
\* it is new there, or the last one of a full table went
LEMMA RegisteredIs ==
  ASSUME Table, NEW s \in Heard, NEW d \in OtherSeqnos \cup (0 .. DsnSize - 1),
         received_seqnos' = Registered(s, d)
  PROVE  /\ Table'
         /\ \E g \in 1 .. Len(received_seqnos) + 1 :
              /\ Moved(Entries, received_seqnos', [sender |-> s, seqno |-> d, old |-> FALSE],
                       received_seqnos, g)
              /\ \A i \in 1 .. Len(received_seqnos) : received_seqnos[i].sender = s => i = g
              /\ g \in 1 .. Len(received_seqnos) => received_seqnos[g].sender = s \/ g = MAX_SEQNOS
<1> DEFINE e == [sender |-> s, seqno |-> d, old |-> FALSE]
           t == received_seqnos
           u == received_seqnos'
<1>1. t \in Seq(Entries) /\ Len(t) \in Nat /\ Len(t) <= MAX_SEQNOS /\ MAX_SEQNOS \in Nat \ {0}
  BY LinkAssumption DEF Table
<1>2. e \in Entries
  BY DEF Entries
<1>3. PICK g \in 1 .. Len(t) + 1 :
        /\ u = <<e>> \o SubSeq(t, 1, g - 1) \o SubSeq(t, g + 1, Len(t))
        /\ g = Len(t) + 1 => Len(t) < MAX_SEQNOS
        /\ \A i \in 1 .. Len(t) : t[i].sender = s => i = g
        /\ g \in 1 .. Len(t) => t[g].sender = s \/ g = MAX_SEQNOS
  <2>1. CASE Positions(s) = {}
    <3>1. \A i \in 1 .. Len(t) : t[i].sender # s
      BY <1>1, <2>1 DEF Positions
    <3>2. Len(t) + 1 \in 1 .. Len(t) + 1 /\ \A i \in 1 .. Len(t) : i # Len(t) + 1
      BY <1>1
    <3>3. CASE Len(t) = MAX_SEQNOS
      <4>1. u = <<e>> \o SubSeq(t, 1, Len(t) - 1) \o SubSeq(t, Len(t) + 1, Len(t))
        BY <2>1, <3>3 DEF Registered
      <4>2. Len(t) \in 1 .. Len(t) + 1 /\ Len(t) # Len(t) + 1
        BY <1>1, <3>3
      <4> QED
        BY <3>1, <3>3, <4>1, <4>2
    <3>4. CASE Len(t) # MAX_SEQNOS
      <4>1. u = <<e>> \o SubSeq(t, 1, (Len(t) + 1) - 1) \o SubSeq(t, (Len(t) + 1) + 1, Len(t))
        BY <2>1, <3>4 DEF Registered
      <4>2. Len(t) < MAX_SEQNOS
        BY <1>1, <3>4
      <4> QED
        BY <3>1, <3>2, <4>1, <4>2
    <3> QED
      BY <3>3, <3>4
  <2>2. CASE Positions(s) # {}
    <3>1. PICK i \in Positions(s) : TRUE
      BY <2>2
    <3>2. i \in 1 .. Len(t) /\ t[i].sender = s
      BY <1>1, <3>1 DEF Positions
    <3>3. Min(Positions(s)) = i /\ Positions(s) = {i}
      BY <3>2, PositionIs
    <3>4. u = <<e>> \o SubSeq(t, 1, i - 1) \o SubSeq(t, i + 1, Len(t))
      BY <2>2, <3>3 DEF Registered
    <3>5. \A j \in 1 .. Len(t) : t[j].sender = s <=> j = i
      BY <3>2 DEF Table
    <3>6. i \in 1 .. Len(t) + 1 /\ i # Len(t) + 1
      BY <1>1, <3>2
    <3> QED
      BY <3>2, <3>4, <3>5, <3>6
  <2> QED
    BY <2>1, <2>2
<1>4. Moved(Entries, Front(e, t, g), e, t, g)
  BY <1>1, <1>2, MovedToFront
<1>5. Front(e, t, g) = u
  BY <1>3 DEF Front, Join
<1>14. Moved(Entries, u, e, t, g)
  BY <1>4, <1>5
<1> HIDE DEF e, t, u
<1>6. /\ u \in Seq(Entries) /\ u[1] = e
      /\ Len(u) = IF g = Len(t) + 1 THEN Len(t) + 1 ELSE Len(t)
      /\ \A i \in 2 .. Len(u) : u[i] = t[IF i <= g THEN i - 1 ELSE i]
  BY <1>14 DEF Moved
<1>7. Len(u) \in Nat \ {0} /\ Len(u) <= MAX_SEQNOS /\ 1 \in 1 .. Len(u)
  <2>1. Len(u) = IF g = Len(t) + 1 THEN Len(t) + 1 ELSE Len(t)
    BY <1>6
  <2>2. g = Len(t) + 1 => Len(t) < MAX_SEQNOS
    BY <1>3
  <2> QED
    BY <1>1, <2>1, <2>2
<1>8. e.sender = s
  BY DEF e
<1>9. ASSUME NEW i \in 2 .. Len(u)
      PROVE  \E j \in 1 .. Len(t) : /\ u[i] = t[j] /\ j # g
                                    /\ j = IF i <= g THEN i - 1 ELSE i
  <2>1. u[i] = t[IF i <= g THEN i - 1 ELSE i]
    BY <1>6
  <2>2. Len(u) = IF g = Len(t) + 1 THEN Len(t) + 1 ELSE Len(t)
    BY <1>6
  <2>3. CASE i <= g
    <3>1. i - 1 \in 1 .. Len(t) /\ i - 1 # g
      BY <1>1, <2>2, <2>3
    <3> QED
      BY <2>1, <2>3, <3>1
  <2>4. CASE ~(i <= g)
    <3>1. i \in 1 .. Len(t) /\ i # g
      BY <1>1, <2>2, <2>4
    <3> QED
      BY <2>1, <2>4, <3>1
  <2> QED
    BY <2>3, <2>4
<1>10. ASSUME NEW i \in 1 .. Len(u), NEW j \in 1 .. Len(u), u[i].sender = u[j].sender
      PROVE  i = j
  <2>1. \A k \in 2 .. Len(u) : u[k].sender # s
    BY <1>3, <1>9
  <2>2. CASE i = 1 \/ j = 1
    <3>1. u[i].sender = s /\ u[j].sender = s
      BY <1>6, <1>8, <1>10, <2>2
    <3>2. i \notin 2 .. Len(u) /\ j \notin 2 .. Len(u)
      BY <2>1, <3>1
    <3> QED
      BY <1>7, <3>2
  <2>3. CASE i # 1 /\ j # 1
    <3>1. i \in 2 .. Len(u) /\ j \in 2 .. Len(u)
      BY <1>7, <2>3
    <3>2. PICK x \in 1 .. Len(t) : u[i] = t[x] /\ x = IF i <= g THEN i - 1 ELSE i
      BY <1>9, <3>1
    <3>3. PICK y \in 1 .. Len(t) : u[j] = t[y] /\ y = IF j <= g THEN j - 1 ELSE j
      BY <1>9, <3>1
    <3>4. x = y /\ x # g
      BY <1>3, <1>10, <2>1, <3>1, <3>2, <3>3 DEF Table, t
    <3> QED
      BY <1>1, <1>3, <3>1, <3>2, <3>3, <3>4
  <2> QED
    BY <2>2, <2>3
<1>11. Table'
  BY <1>6, <1>7, <1>10 DEF Table, Entries, Heard, u
<1> QED
  BY <1>3, <1>11, <1>14 DEF e, t, u

--------------------------------------------------------------------------------
(* The link: a packet that was sent has a number of its own; the sender's  *)
(* entry is that of the packet registered last; and as long as fewer other *)
(* nodes were registered since than the table has entries, it is behind    *)
(* them.                                                                   *)

Given == {k \in Packet : report[k] # "new"}

Numbered ==
  /\ handed \in Nat /\ mac_dsn = handed % DsnSize
  /\ seqno \in [Packet -> 0 .. DsnSize - 1] /\ number \in [Packet -> Nat]
  /\ \A k \in Given : seqno[k] = number[k] % DsnSize /\ number[k] < handed
  /\ \A k, j \in Given : number[k] = number[j] => k = j

Latest ==
  /\ delivered \subseteq Given /\ IsFiniteSet(since)
  /\ \A i \in 1 .. Len(received_seqnos) :
       received_seqnos[i].sender = Sender =>
         latest \in delivered /\ received_seqnos[i].seqno = seqno[latest]

Senders(t, i) == {t[j].sender : j \in 1 .. i - 1}
Behind(t, i, S) == t[i].sender = Sender /\ S = Senders(t, i) /\ Cardinality(S) = i - 1

InPlace ==
  latest \in delivered /\ Cardinality(since) < MAX_SEQNOS =>
    \E i \in 1 .. Len(received_seqnos) : Behind(received_seqnos, i, since)

LInv == RInv /\ Table /\ Numbered /\ Latest /\ InPlace

LEMMA LNextIsNext == [LNext]_lvars => [Next]_vars
<1> SUFFICES ASSUME [LNext]_lvars
             PROVE  [Next]_vars
  OBVIOUS
<1>1. ASSUME NEW k \in Packet, LSend(k)
      PROVE  Next
  BY <1>1 DEF LSend, Next
<1>2. ASSUME NEW n \in Block, NEW s \in Outcome, LTransmit(n, s)
      PROVE  Next
  BY <1>2 DEF LTransmit, Next
<1>3. ASSUME \/ \E o \in Other, d \in OtherSeqnos : Hears(o, d)
             \/ \E i \in DOMAIN received_seqnos : Ages(i)
             \/ UNCHANGED lvars
      PROVE  UNCHANGED vars
  BY <1>3 DEF Hears, Ages, lvars
<1> QED
  BY <1>1, <1>2, <1>3 DEF LNext

LEMMA LinkRefines == LSpec => Spec
<1>1. LInit => Init
  BY DEF LInit
<1> QED
  BY <1>1, LNextIsNext, PTL DEF LSpec, Spec

LEMMA InitLInv == LInit => LInv
<1> SUFFICES ASSUME LInit
             PROVE  LInv
  OBVIOUS
<1>1. Table /\ Len(received_seqnos) = 0
  <2>1. received_seqnos \in Seq(Entries) /\ Len(received_seqnos) = 0
    BY EmptyIs DEF LInit
  <2> QED
    BY <2>1, LinkAssumption DEF Table
<1>2. Given = {}
  BY DEF LInit, Init, Given
<1>3. mac_dsn \in Nat /\ mac_dsn % DsnSize = mac_dsn /\ 0 \in 0 .. DsnSize - 1
  BY LinkAssumption DEF LInit
<1>4. Numbered
  BY <1>2, <1>3 DEF LInit, Numbered
<1>5. Latest /\ InPlace
  BY <1>1, FS_EmptySet DEF LInit, Latest, InPlace
<1> QED
  BY <1>1, <1>4, <1>5, InitRInv DEF LInit, LInv

LEMMA SendKeepsLInv ==
  ASSUME LInv, NEW k \in Packet, LSend(k)
  PROVE  LInv'
<1>1. RInv /\ RInv' /\ Send(k)
  BY LNextIsNext, NextRInv DEF LInv, LSend, Next
<1>2. /\ report[k] = "new" /\ UNCHANGED <<received_seqnos, delivered, latest, since>>
      /\ seqno' = [seqno EXCEPT ![k] = mac_dsn] /\ mac_dsn' = (mac_dsn + 1) % DsnSize
      /\ number' = [number EXCEPT ![k] = handed] /\ handed' = handed + 1
      /\ report' = [report EXCEPT ![k] = "queued"] \/ report' = [report EXCEPT ![k] = "called"]
  BY DEF LSend, Send, Accept, Refuse, receiving
<1>3. /\ report \in [Packet -> {"new", "queued", "called"}] /\ handed \in Nat
      /\ mac_dsn = handed % DsnSize
      /\ seqno \in [Packet -> 0 .. DsnSize - 1] /\ number \in [Packet -> Nat]
      /\ \A j \in Given : seqno[j] = number[j] % DsnSize /\ number[j] < handed
      /\ \A i, j \in Given : number[i] = number[j] => i = j
  BY <1>1 DEF RInv, PInv, QInv, TypeOK, LInv, Numbered
<1>4. k \in Packet \ Given /\ Given' = Given \cup {k}
  BY <1>2, <1>3 DEF Given
<1>5. /\ mac_dsn \in 0 .. DsnSize - 1 /\ mac_dsn' = handed' % DsnSize
      /\ handed' \in Nat
  <2>1. DsnSize \in Nat \ {0} /\ handed \in Nat /\ mac_dsn = handed % DsnSize
    BY <1>3, LinkAssumption
  <2>2. ((handed % DsnSize) + 1) % DsnSize = (handed + 1) % DsnSize
    BY <2>1, NextRemainder
  <2>3. handed % DsnSize \in 0 .. DsnSize - 1 /\ handed + 1 \in Nat
    BY <2>1
  <2>4. mac_dsn' = (mac_dsn + 1) % DsnSize /\ handed' = handed + 1
    BY <1>2
  <2> QED
    BY <2>1, <2>2, <2>3, <2>4
<1>6. /\ \A j \in Given : j # k /\ j \in Packet /\ seqno'[j] = seqno[j] /\ number'[j] = number[j]
      /\ seqno'[k] = handed % DsnSize /\ number'[k] = handed
  BY <1>2, <1>3, <1>4 DEF Given
<1>7. seqno' \in [Packet -> 0 .. DsnSize - 1] /\ number' \in [Packet -> Nat]
  BY <1>2, <1>3, <1>5
<1>8. \A j \in Given' : seqno'[j] = number'[j] % DsnSize /\ number'[j] < handed'
  <2>1. ASSUME NEW j \in Given
        PROVE  seqno'[j] = number'[j] % DsnSize /\ number'[j] < handed'
    <3>1. number[j] \in Nat /\ number[j] < handed
      BY <1>3, <1>6
    <3> QED
      BY <1>2, <1>3, <1>6, <3>1
  <2> QED
    BY <1>2, <1>3, <1>4, <1>6, <2>1
<1>9. \A i, j \in Given' : number'[i] = number'[j] => i = j
  <2>1. \A j \in Given : number'[j] < handed /\ number'[j] \in Nat
    BY <1>3, <1>6
  <2> QED
    BY <1>3, <1>4, <1>6, <2>1
<1>10. Numbered'
  BY <1>5, <1>7, <1>8, <1>9 DEF Numbered
<1>11. Table' /\ InPlace'
  BY <1>2 DEF LInv, Table, InPlace
<1>12. Latest'
  BY <1>2, <1>4, <1>6 DEF LInv, Latest
<1> QED
  BY <1>1, <1>10, <1>11, <1>12 DEF LInv

\* a transmission reports nothing but on its own frame, which was numbered
LEMMA TransmitReports ==
  ASSUME RInv, NEW n \in Block, NEW s \in Outcome, Transmit(n, s),
         NEW q \in Packet, q = Head(packet_queue[n])
  PROVE  q \in Given /\ Given' = Given
<1>1. Sent(n, q) /\ packet_queue[n] # << >>
  BY TransmitSends DEF RInv, PInv, QInv, Sent
<1>2. report[q] = "queued" /\ report \in [Packet -> {"new", "queued", "called"}]
  BY <1>1, HeadIs DEF RInv, PInv, QInv, TypeOK
<1>3. report' = report \/ report' = [report EXCEPT ![q] = "called"]
  BY <1>1 DEF Sent, tx_done, rexmit
<1> QED
  BY <1>2, <1>3 DEF Given

\* a new frame of the sender becomes the first entry
LEMMA InputKeeps ==
  ASSUME Table, Numbered, Latest, InPlace, NEW k \in Given, Input(k),
         UNCHANGED seqno, Given' = Given
  PROVE  Table' /\ Latest' /\ InPlace'
<1>1. CASE mac_sequence_is_duplicate(Sender, seqno[k])
  <2>1. UNCHANGED <<received_seqnos, delivered, latest, since>>
    BY <1>1 DEF Input, receiving
  <2> QED
    BY <2>1 DEF Table, Latest, InPlace
<1>2. CASE ~mac_sequence_is_duplicate(Sender, seqno[k])
  <2>1. /\ received_seqnos' = Registered(Sender, seqno[k])
        /\ delivered' = delivered \cup {k} /\ latest' = k /\ since' = {}
    BY <1>2 DEF Input
  <2>2. Sender \in Heard /\ seqno[k] \in OtherSeqnos \cup (0 .. DsnSize - 1)
    BY DEF Heard, Numbered, Given
  <2>3. PICK g \in 1 .. Len(received_seqnos) + 1 :
          Moved(Entries, received_seqnos', [sender |-> Sender, seqno |-> seqno[k], old |-> FALSE],
                received_seqnos, g)
    BY <2>1, <2>2, RegisteredIs
  <2>4. Table'
    BY <2>1, <2>2, RegisteredIs
  <2>5. /\ received_seqnos'[1].sender = Sender /\ received_seqnos'[1].seqno = seqno[k]
        /\ 1 \in 1 .. Len(received_seqnos')
    <3>1. /\ received_seqnos'[1] = [sender |-> Sender, seqno |-> seqno[k], old |-> FALSE]
          /\ Len(received_seqnos') = IF g = Len(received_seqnos) + 1 THEN Len(received_seqnos) + 1
                                     ELSE Len(received_seqnos)
      BY <2>3 DEF Moved
    <3>2. Len(received_seqnos) \in Nat
      BY DEF Table
    <3> QED
      BY <3>1, <3>2
  <2>6. \A i \in 1 .. Len(received_seqnos') : received_seqnos'[i].sender = Sender => i = 1
    BY <2>4, <2>5 DEF Table
  <2>7. Latest'
    BY <2>1, <2>5, <2>6, FS_EmptySet DEF Latest
  <2>8. Senders(received_seqnos', 1) = {}
    BY DEF Senders
  <2>9. InPlace'
    BY <2>1, <2>5, <2>8, FS_EmptySet DEF InPlace, Behind
  <2> QED
    BY <2>4, <2>7, <2>9
<1> QED
  BY <1>1, <1>2

LEMMA TransmitKeepsLInv ==
  ASSUME LInv, NEW n \in Block, NEW s \in Outcome, LTransmit(n, s)
  PROVE  LInv'
<1> DEFINE q == Head(packet_queue[n])
<1>1. RInv /\ RInv' /\ Transmit(n, s) /\ UNCHANGED <<mac_dsn, seqno, handed, number>>
  BY LNextIsNext, NextRInv DEF LInv, LTransmit, LNext, sending
<1>2. q \in Packet
  BY <1>1, TransmitSends DEF RInv, PInv, QInv
<1>3. q \in Given /\ Given' = Given
  BY <1>1, <1>2, TransmitReports
<1>4. UNCHANGED receiving \/ Input(q)
  BY DEF LTransmit
<1> HIDE DEF q
<1>5. Table' /\ Latest' /\ InPlace'
  <2>1. CASE UNCHANGED receiving
    BY <1>1, <1>3, <2>1 DEF LInv, Table, Latest, InPlace, receiving
  <2>2. CASE Input(q)
    BY <1>1, <1>3, <2>2, InputKeeps DEF LInv
  <2> QED
    BY <1>4, <2>1, <2>2
<1>6. Numbered'
  BY <1>1, <1>3 DEF LInv, Numbered
<1> QED
  BY <1>1, <1>5, <1>6 DEF LInv

\* a frame of another node o: it goes in front; the sender's entry stays where
\* it is if o was ahead of it, and else is one further
LEMMA OtherAhead ==
  ASSUME NEW R, NEW t \in Seq(R), NEW u, NEW e, NEW g \in 1 .. Len(t) + 1, Moved(R, u, e, t, g),
         NEW S, IsFiniteSet(S), NEW i \in 1 .. Len(t), Behind(t, i, S),
         \A j \in 1 .. Len(t) : t[j].sender = e.sender => j = g, e.sender \in S
  PROVE  i \in 1 .. Len(u) /\ Behind(u, i, S)
<1>1. /\ u[1] = e /\ Len(u) = IF g = Len(t) + 1 THEN Len(t) + 1 ELSE Len(t)
      /\ \A j \in 2 .. Len(u) : u[j] = t[IF j <= g THEN j - 1 ELSE j]
  BY DEF Moved
<1>2. Len(t) \in Nat /\ i \in Nat /\ t[i].sender = Sender /\ S = Senders(t, i) /\ Cardinality(S) = i - 1
  BY DEF Behind
<1>3. g \in 1 .. i - 1 /\ t[g].sender = e.sender
  <2>1. PICK j \in 1 .. i - 1 : t[j].sender = e.sender
    BY <1>2 DEF Senders
  <2> QED
    BY <1>2, <2>1
<1>4. Len(u) = Len(t)
  BY <1>1, <1>2, <1>3
<1>5. u[i] = t[i]
  BY <1>1, <1>2, <1>3, <1>4
<1>6. \A j \in 2 .. i - 1 : u[j] = t[IF j <= g THEN j - 1 ELSE j]
  BY <1>1, <1>2, <1>4
<1>7. ASSUME NEW j \in 1 .. i - 1
      PROVE  u[j].sender \in Senders(t, i)
  <2>1. CASE j = 1
    BY <1>1, <1>3, <2>1 DEF Senders
  <2>2. CASE j # 1
    <3>1. u[j] = t[IF j <= g THEN j - 1 ELSE j] /\ (IF j <= g THEN j - 1 ELSE j) \in 1 .. i - 1
      BY <1>2, <1>6, <2>2
    <3> QED
      BY <3>1 DEF Senders
  <2> QED
    BY <2>1, <2>2
<1>8. ASSUME NEW j \in 1 .. i - 1
      PROVE  t[j].sender \in Senders(u, i)
  <2>1. CASE j = g
    <3>1. 1 \in 1 .. i - 1
      BY <1>2, <1>3
    <3> QED
      BY <1>1, <1>3, <2>1, <3>1 DEF Senders
  <2>2. CASE j < g
    <3>1. j + 1 \in 2 .. i - 1 /\ j + 1 \in 1 .. i - 1 /\ j + 1 <= g /\ (j + 1) - 1 = j
      BY <1>2, <1>3, <2>2
    <3>2. u[j + 1] = t[j]
      BY <1>6, <3>1
    <3> QED
      BY <3>1, <3>2 DEF Senders
  <2>3. CASE j > g
    <3>1. j \in 2 .. i - 1 /\ ~(j <= g)
      BY <1>2, <1>3, <2>3
    <3>2. u[j] = t[j]
      BY <1>6, <3>1
    <3> QED
      BY <3>2 DEF Senders
  <2> QED
    BY <1>3, <2>1, <2>2, <2>3
<1>9. Senders(u, i) = Senders(t, i)
  BY <1>7, <1>8 DEF Senders
<1> QED
  BY <1>2, <1>4, <1>5, <1>9 DEF Behind

LEMMA OtherNew ==
  ASSUME NEW R, NEW t \in Seq(R), NEW u, NEW e, NEW g \in 1 .. Len(t) + 1, Moved(R, u, e, t, g),
         NEW S, IsFiniteSet(S), NEW i \in 1 .. Len(t), Behind(t, i, S),
         g \in 1 .. Len(t) => t[g].sender = e.sender \/ g > i,
         e.sender \notin S, e.sender # Sender
  PROVE  i + 1 \in 1 .. Len(u) /\ Behind(u, i + 1, S \cup {e.sender})
<1>1. /\ u[1] = e /\ Len(u) = IF g = Len(t) + 1 THEN Len(t) + 1 ELSE Len(t)
      /\ \A j \in 2 .. Len(u) : u[j] = t[IF j <= g THEN j - 1 ELSE j]
  BY DEF Moved
<1>2. Len(t) \in Nat /\ i \in Nat /\ t[i].sender = Sender /\ S = Senders(t, i) /\ Cardinality(S) = i - 1
  BY DEF Behind
<1>3. g > i
  <2>1. ASSUME g \in 1 .. i - 1
        PROVE  t[g].sender \in S
    BY <1>2, <2>1 DEF Senders
  <2> QED
    BY <1>2, <2>1
<1>4. i + 1 <= Len(u) /\ Len(u) \in Nat
  BY <1>1, <1>2, <1>3
<1>5. \A j \in 1 .. i : u[j + 1] = t[j]
  <2>1. ASSUME NEW j \in 1 .. i
        PROVE  u[j + 1] = t[j]
    <3>1. j + 1 \in 2 .. Len(u) /\ j + 1 <= g /\ (j + 1) - 1 = j
      BY <1>2, <1>3, <1>4
    <3> QED
      BY <1>1, <3>1
  <2> QED
    BY <2>1
<1>6. ASSUME NEW j \in 1 .. (i + 1) - 1
      PROVE  u[j].sender \in S \cup {e.sender}
  <2>1. CASE j = 1
    BY <1>1, <2>1
  <2>2. CASE j # 1
    <3>1. j - 1 \in 1 .. i - 1 /\ j - 1 \in 1 .. i /\ (j - 1) + 1 = j
      BY <1>2, <2>2
    <3>2. u[j] = t[j - 1]
      BY <1>5, <3>1
    <3> QED
      BY <1>2, <3>1, <3>2 DEF Senders
  <2> QED
    BY <2>1, <2>2
<1>7. S \cup {e.sender} \subseteq Senders(u, i + 1)
  <2>1. e.sender \in Senders(u, i + 1)
    <3>1. 1 \in 1 .. (i + 1) - 1
      BY <1>2
    <3> QED
      BY <1>1, <3>1 DEF Senders
  <2>2. ASSUME NEW j \in 1 .. i - 1
        PROVE  t[j].sender \in Senders(u, i + 1)
    <3>1. j + 1 \in 1 .. (i + 1) - 1 /\ u[j + 1] = t[j]
      BY <1>2, <1>5
    <3> QED
      BY <3>1 DEF Senders
  <2>3. S \subseteq Senders(u, i + 1)
    BY <1>2, <2>2 DEF Senders
  <2> QED
    BY <2>1, <2>3
<1>8. S \cup {e.sender} = Senders(u, i + 1)
  BY <1>6, <1>7 DEF Senders
<1>9. Cardinality(S \cup {e.sender}) = (i + 1) - 1
  <2>1. Cardinality(S \cup {e.sender}) = Cardinality(S) + 1
    BY FS_AddElement
  <2> QED
    BY <1>2, <2>1
<1>10. u[i + 1].sender = Sender
  BY <1>2, <1>5
<1> QED
  BY <1>2, <1>4, <1>8, <1>9, <1>10 DEF Behind

LEMMA HearsKeepsLInv ==
  ASSUME LInv, NEW o \in Other, NEW d \in OtherSeqnos, Hears(o, d)
  PROVE  LInv'
<1> DEFINE e == [sender |-> o, seqno |-> d, old |-> FALSE]
           t == received_seqnos
           u == received_seqnos'
<1>1. /\ RInv' /\ UNCHANGED <<vars, mac_dsn, seqno, handed, number, delivered, latest>>
      /\ since' = since \cup {o} /\ received_seqnos' = Registered(o, d)
  BY LNextIsNext, NextRInv DEF LInv, Hears, LNext, sending
<1>2. o \in Heard /\ o # Sender /\ Table /\ d \in OtherSeqnos \cup (0 .. DsnSize - 1) /\ Given' = Given
  BY <1>1, LinkAssumption DEF Heard, LInv, Given, vars
<1>3. PICK g \in 1 .. Len(t) + 1 :
        /\ Moved(Entries, u, e, t, g)
        /\ \A i \in 1 .. Len(t) : t[i].sender = o => i = g
        /\ g \in 1 .. Len(t) => t[g].sender = o \/ g = MAX_SEQNOS
  BY <1>1, <1>2, RegisteredIs
<1>4. Table'
  BY <1>1, <1>2, RegisteredIs
<1>5. e.sender = o /\ t \in Seq(Entries) /\ Len(t) \in Nat /\ MAX_SEQNOS \in Nat
  BY <1>2, LinkAssumption DEF Table
<1>6. Numbered'
  BY <1>1, <1>2 DEF LInv, Numbered
<1> HIDE DEF e, t, u
<1>7. IsFiniteSet(since) /\ Cardinality(since) \in Nat
  BY FS_CardinalityType DEF LInv, Latest
<1>8. /\ IsFiniteSet(since') /\ Cardinality(since') \in Nat
      /\ o \in since => since' = since
      /\ o \notin since => Cardinality(since') = Cardinality(since) + 1
  BY <1>1, <1>7, FS_AddElement, FS_CardinalityType
<1>9. Latest'
  <2>1. ASSUME NEW i \in 1 .. Len(u), u[i].sender = Sender
        PROVE  \E j \in 1 .. Len(t) : u[i] = t[j]
    <3>1. /\ u[1] = e /\ Len(u) = IF g = Len(t) + 1 THEN Len(t) + 1 ELSE Len(t)
          /\ \A j \in 2 .. Len(u) : u[j] = t[IF j <= g THEN j - 1 ELSE j]
      BY <1>3 DEF Moved
    <3>2. i # 1
      BY <1>2, <1>5, <2>1, <3>1
    <3>3. i \in 2 .. Len(u) /\ (IF i <= g THEN i - 1 ELSE i) \in 1 .. Len(t)
      BY <1>5, <3>1, <3>2
    <3> QED
      BY <3>1, <3>3
  <2> QED
    BY <1>1, <1>2, <1>8, <2>1 DEF LInv, Latest, t, u
<1>10. InPlace'
  <2> SUFFICES ASSUME latest \in delivered, Cardinality(since') < MAX_SEQNOS
               PROVE  \E i \in 1 .. Len(u) : Behind(u, i, since')
    BY <1>1 DEF InPlace, u
  <2>1. PICK i \in 1 .. Len(t) : Behind(t, i, since)
    BY <1>5, <1>7, <1>8 DEF LInv, InPlace, t
  <2>2. CASE o \in since
    BY <1>3, <1>5, <1>7, <1>8, <2>1, <2>2, OtherAhead
  <2>3. CASE o \notin since
    <3>1. g = MAX_SEQNOS => g > i
      BY <1>5, <1>7, <1>8, <2>1, <2>3 DEF Behind
    <3>2. i + 1 \in 1 .. Len(u) /\ Behind(u, i + 1, since \cup {e.sender})
      BY <1>2, <1>3, <1>5, <1>7, <2>1, <2>3, <3>1, OtherNew
    <3> QED
      BY <1>1, <1>5, <3>2
  <2> QED
    BY <2>2, <2>3
<1> QED
  BY <1>1, <1>4, <1>6, <1>9, <1>10 DEF LInv

\* age leaves the table as it is otherwise
LEMMA AgesTable ==
  ASSUME Table, NEW i \in DOMAIN received_seqnos, Ages(i)
  PROVE  /\ Table' /\ Len(received_seqnos') = Len(received_seqnos)
         /\ \A j \in 1 .. Len(received_seqnos) :
              /\ received_seqnos'[j].sender = received_seqnos[j].sender
              /\ received_seqnos'[j].seqno = received_seqnos[j].seqno
<1> DEFINE b == ~received_seqnos[i].old
<1>1. /\ received_seqnos \in Seq(Entries) /\ i \in 1 .. Len(received_seqnos)
      /\ DOMAIN received_seqnos = 1 .. Len(received_seqnos)
      /\ received_seqnos' = [received_seqnos EXCEPT ![i].old = b]
  BY DEF Table, Ages
<1>2. received_seqnos[i] \in Entries /\ b \in BOOLEAN
  BY <1>1
<1> HIDE DEF b
<1>3. [received_seqnos[i] EXCEPT !.old = b] \in Entries
  BY <1>2 DEF Entries
<1>4. /\ received_seqnos' \in Seq(Entries) /\ Len(received_seqnos') = Len(received_seqnos)
      /\ \A j \in 1 .. Len(received_seqnos) :
           received_seqnos'[j] = IF j = i THEN [received_seqnos[i] EXCEPT !.old = b]
                                 ELSE received_seqnos[j]
  BY <1>1, <1>3
<1>5. \A j \in 1 .. Len(received_seqnos) : /\ received_seqnos'[j].sender = received_seqnos[j].sender
                                           /\ received_seqnos'[j].seqno = received_seqnos[j].seqno
  BY <1>2, <1>4 DEF Entries
<1>6. Table'
  BY <1>4, <1>5 DEF Table, Entries, Heard
<1> QED
  BY <1>4, <1>5, <1>6

LEMMA AgesKeepsLInv ==
  ASSUME LInv, NEW i \in DOMAIN received_seqnos, Ages(i)
  PROVE  LInv'
<1>1. RInv' /\ UNCHANGED <<vars, mac_dsn, seqno, handed, number, delivered, latest, since>>
  BY LNextIsNext, NextRInv DEF LInv, Ages, LNext, sending
<1>2. Table
  BY DEF LInv
<1>3. /\ Table' /\ Len(received_seqnos') = Len(received_seqnos)
      /\ \A j \in 1 .. Len(received_seqnos) :
           /\ received_seqnos'[j].sender = received_seqnos[j].sender
           /\ received_seqnos'[j].seqno = received_seqnos[j].seqno
  BY <1>2, AgesTable
<1>4. Given' = Given
  BY <1>1 DEF Given, vars
<1>5. Numbered' /\ Latest'
  BY <1>1, <1>3, <1>4 DEF LInv, Numbered, Latest
<1>6. ASSUME NEW j \in 1 .. Len(received_seqnos), Behind(received_seqnos, j, since)
      PROVE  Behind(received_seqnos', j, since)
  <2>1. \A m \in 1 .. j - 1 : m \in 1 .. Len(received_seqnos)
    BY <1>2 DEF Table
  <2>2. Senders(received_seqnos', j) = Senders(received_seqnos, j)
    BY <1>3, <2>1 DEF Senders
  <2> QED
    BY <1>3, <1>6, <2>2 DEF Behind
<1>7. InPlace'
  BY <1>1, <1>3, <1>6 DEF LInv, InPlace
<1> QED
  BY <1>1, <1>3, <1>5, <1>7 DEF LInv

LEMMA LNextLInv == LInv /\ [LNext]_lvars => LInv'
<1> SUFFICES ASSUME LInv, [LNext]_lvars
             PROVE  LInv'
  OBVIOUS
<1>1. ASSUME UNCHANGED lvars
      PROVE  LInv'
  <2>1. RInv'
    BY <1>1, NextRInv DEF LInv, lvars
  <2> QED
    BY <1>1, <2>1 DEF LInv, Table, Numbered, Given, Latest, InPlace, lvars, vars, sending, receiving
<1> QED
  BY <1>1, SendKeepsLInv, TransmitKeepsLInv, HearsKeepsLInv, AgesKeepsLInv DEF LNext

LEMMA LinkInvariance == LSpec => []LInv
BY InitLInv, LNextLInv, PTL DEF LSpec

\* the table has one entry for the sender, where duplicates are found
LEMMA DuplicateIs ==
  ASSUME Table, NEW d
  PROVE  mac_sequence_is_duplicate(Sender, d) <=>
           \E i \in Positions(Sender) : received_seqnos[i].seqno = d /\ ~received_seqnos[i].old
<1>1. ASSUME NEW i \in Positions(Sender)
      PROVE  Min(Positions(Sender)) = i /\ Positions(Sender) = {i}
  <2>1. i \in 1 .. Len(received_seqnos) /\ received_seqnos[i].sender = Sender
    BY DEF Positions, Table
  <2> QED
    BY <2>1, PositionIs
<1> QED
  BY <1>1 DEF mac_sequence_is_duplicate

(* A frame that was delivered and is sent again is found to be a duplicate *)
(* unless the receiver registered another frame of that sender since, or   *)
(* frames of as many other nodes as its table has entries, or its entry is *)
(* too old: for any table, any nodes and any numbers they use.             *)
THEOREM NotDeliveredAgain == LSpec => []NotAgain
<1>1. LInv => NotAgain
  <2> SUFFICES ASSUME LInv, NEW k \in delivered, ~Displaced(k)
               PROVE  mac_sequence_is_duplicate(Sender, seqno[k])
    BY DEF NotAgain
  <2>1. /\ Table /\ latest = k /\ ~(Cardinality(since) >= MAX_SEQNOS)
        /\ \A i \in Positions(Sender) : ~received_seqnos[i].old
    BY DEF LInv, Displaced
  <2>2. Cardinality(since) < MAX_SEQNOS
    <3>1. Cardinality(since) \in Nat /\ MAX_SEQNOS \in Nat
      BY FS_CardinalityType, LinkAssumption DEF LInv, Latest
    <3> QED
      BY <2>1, <3>1
  <2>3. PICK i \in 1 .. Len(received_seqnos) : Behind(received_seqnos, i, since)
    BY <2>1, <2>2 DEF LInv, InPlace
  <2>4. received_seqnos[i].sender = Sender /\ i \in Positions(Sender)
    BY <2>1, <2>3 DEF Behind, Positions, Table
  <2>5. received_seqnos[i].seqno = seqno[k]
    BY <2>1, <2>4 DEF LInv, Latest
  <2> QED
    BY <2>1, <2>4, <2>5, DuplicateIs
<1> QED
  BY <1>1, LinkInvariance, PTL

(* A frame that was not delivered is found to be a duplicate only when the *)
(* number of the frame registered last of that sender is its own, a whole  *)
(* number of rounds away: for any table, numbers and other nodes.          *)
THEOREM DroppedInRoundOnly == LSpec => []DroppedIsRound
<1>1. LInv => DroppedIsRound
  <2> SUFFICES ASSUME LInv, NEW k \in Packet \ delivered, report[k] = "queued",
                      mac_sequence_is_duplicate(Sender, seqno[k])
               PROVE  /\ latest \in Packet /\ number[latest] # number[k]
                      /\ number[latest] % DsnSize = number[k] % DsnSize
    BY DEF DroppedIsRound
  <2>1. PICK i \in Positions(Sender) : received_seqnos[i].seqno = seqno[k]
    BY DuplicateIs DEF LInv
  <2>2. i \in 1 .. Len(received_seqnos) /\ received_seqnos[i].sender = Sender
    BY DEF Positions, LInv, Table
  <2>3. latest \in delivered /\ seqno[latest] = seqno[k] /\ latest \in Given
    BY <2>1, <2>2 DEF LInv, Latest
  <2>4. k \in Given /\ latest # k /\ latest \in Packet
    BY <2>3 DEF Given
  <2> QED
    BY <2>3, <2>4 DEF LInv, Numbered
<1> QED
  BY <1>1, LinkInvariance, PTL
================================================================================
