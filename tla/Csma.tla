--------------------------------- MODULE Csma ----------------------------------
(***************************************************************************)
(* os/net/mac/csma/csma-output.c: the queue of frames to send.  Every      *)
(* destination that has frames waiting has a neighbor entry with a FIFO,   *)
(* a transmission timer and the counters of its first frame; entries,      *)
(* frames, their metadata and their buffers come from fixed pools.  When   *)
(* the timer fires the first frame is transmitted once; then it is done    *)
(* with (its sent callback gets the outcome, the next one is scheduled or  *)
(* the entry is freed) or it is scheduled again.                           *)
(*                                                                         *)
(* The sent callback is the last thing both entry points do, so what it    *)
(* sends is a step of its own.  Delays, and so the backoff exponent, are   *)
(* left out: a timer that is set fires some time later.  So is what the    *)
(* sent callback is told.  Other users of queuebufs may leave none at any  *)
(* time.                                                                   *)
(***************************************************************************)
EXTENDS Naturals, Sequences, FiniteSets, FiniteSetsExt

CONSTANTS
  Packet,     (* what is sent: every element at most once                   *)
  Addr,       (* destinations; the broadcast address may be one of them     *)
  Dest,       (* a packet's PACKETBUF_ADDR_RECEIVER                         *)
  Block,      (* the blocks of neighbor_memb                                *)
  NULL,
  Limit,      (* a packet's PACKETBUF_ATTR_MAX_MAC_TRANSMISSIONS, which its  *)
              (* metadata keeps as max_transmissions                         *)
  CSMA_MAX_BACKOFF,
  CSMA_MAX_PACKET_PER_NEIGHBOR,
  QUEUEBUF_NUM

ASSUME CsmaAssumption ==
  /\ Limit \in [Packet -> Nat \ {0}] /\ CSMA_MAX_BACKOFF \in Nat
  /\ CSMA_MAX_PACKET_PER_NEIGHBOR \in Nat \ {0} /\ QUEUEBUF_NUM \in Nat \ {0}
  /\ NULL \notin Addr /\ Dest \in [Packet -> Addr]

VARIABLES
  neighbor_memb,     (* the blocks in use                                   *)
  neighbor_list,
  addr,              (* n->addr                                             *)
  packet_queue,      (* n->packet_queue                                     *)
  transmissions,     (* n->transmissions                                    *)
  collisions,        (* n->collisions                                       *)
  transmit_timer,    (* is n->transmit_timer set?                           *)
  packet_memb,       (* how many packets, metadata and buffers are in use   *)
  metadata_memb,
  bufmem,
  report,            (* history: is a packet queued, has its sent callback  *)
                     (* been called?                                        *)
  attempts           (* history: how often a packet that is queued was      *)
                     (* given to the radio                                  *)

entry == <<neighbor_memb, neighbor_list, addr>>
pools == <<packet_memb, metadata_memb, bufmem>>
timing == <<transmissions, collisions, transmit_timer>>
vars  == <<entry, packet_queue, timing, pools, report, attempts>>

Outcome == {"OK", "NOACK", "COLLISION", "ERR"}

(* csma_output_init                                                        *)
Init ==
  /\ neighbor_memb = {} /\ neighbor_list = {}
  /\ addr = [n \in Block |-> NULL]
  /\ packet_queue = [n \in Block |-> << >>]
  /\ transmissions = [n \in Block |-> 0]
  /\ collisions = [n \in Block |-> 0]
  /\ transmit_timer = [n \in Block |-> FALSE]
  /\ packet_memb = 0 /\ metadata_memb = 0 /\ bufmem = 0
  /\ report = [k \in Packet |-> "new"]
  /\ attempts = [k \in Packet |-> 0]

--------------------------------------------------------------------------------
(* csma_output_packet                                                      *)

\* neighbor_queue_from_addr
Entry(a) == {n \in neighbor_list : addr[n] = a}

\* the entry of a, or a free block that is made one
Uses(a, n) ==
  \/ n \in Entry(a)
  \/ Entry(a) = {} /\ n \notin neighbor_memb /\ n = Min(Block \ neighbor_memb)

\* mutant of Queued
QueuedFirst(queue, k) == <<k>> \o queue
Queued(queue, k) == Append(queue, k)

NewOrOld(a, n, f) == IF n \in Entry(a) THEN f ELSE [f EXCEPT ![n] = 0]

Named(a, n) ==
  /\ addr' = [addr EXCEPT ![n] = a]
  /\ transmissions' = NewOrOld(a, n, transmissions)
  /\ collisions' = NewOrOld(a, n, collisions)

QueueOf(a, n) == IF n \in Entry(a) THEN packet_queue[n] ELSE << >>

Accept(k, a, n) ==
  /\ report[k] = "new"
  /\ Uses(a, n)
  /\ LET queue == QueueOf(a, n)
     IN  /\ Len(queue) < CSMA_MAX_PACKET_PER_NEIGHBOR
         /\ packet_queue' = [packet_queue EXCEPT ![n] = Queued(queue, k)]
         /\ transmit_timer' = [transmit_timer EXCEPT ![n] = @ \/ queue = << >>]
  /\ packet_memb < QUEUEBUF_NUM /\ metadata_memb < QUEUEBUF_NUM /\ bufmem < QUEUEBUF_NUM
  /\ packet_memb' = packet_memb + 1
  /\ metadata_memb' = metadata_memb + 1
  /\ bufmem' = bufmem + 1
  /\ neighbor_memb' = neighbor_memb \cup {n}
  /\ neighbor_list' = neighbor_list \cup {n}
  /\ Named(a, n)
  /\ report' = [report EXCEPT ![k] = "queued"]
  /\ UNCHANGED attempts

\* what a refused packet was given before the pool that had none left, and
\* what of it is freed again
Taken(lack) ==
  [packet |-> {}, metadata |-> {"packet"}, buffer |-> {"packet", "metadata"}][lack]

\* mutant of Returned
ReturnedPacket(lack) == IF lack = "packet" THEN {} ELSE {"packet"}
Returned(lack) ==
  (IF lack = "buffer" THEN {"metadata"} ELSE {}) \cup (IF lack = "packet" THEN {} ELSE {"packet"})

\* other users of the buffers may have taken all of them
Lacks(lack) ==
  /\ lack = "packet" <=> packet_memb = QUEUEBUF_NUM
  /\ lack = "metadata" => metadata_memb = QUEUEBUF_NUM
  /\ lack = "buffer" => metadata_memb < QUEUEBUF_NUM

Kept(block, lack) == IF block \in Taken(lack) \ Returned(lack) THEN 1 ELSE 0

\* no packet, metadata or buffer: an entry without frames goes again
RefuseLacking(a, n, lack) ==
  /\ Uses(a, n) /\ Len(QueueOf(a, n)) < CSMA_MAX_PACKET_PER_NEIGHBOR
  /\ Lacks(lack)
  /\ packet_memb' = packet_memb + Kept("packet", lack)
  /\ metadata_memb' = metadata_memb + Kept("metadata", lack)
  /\ Named(a, n)
  /\ packet_queue' = [packet_queue EXCEPT ![n] = QueueOf(a, n)]
  /\ IF QueueOf(a, n) = << >>
     THEN neighbor_list' = neighbor_list \ {n} /\ neighbor_memb' = neighbor_memb \ {n}
     ELSE neighbor_list' = neighbor_list \cup {n} /\ neighbor_memb' = neighbor_memb \cup {n}
  /\ UNCHANGED <<transmit_timer, bufmem>>

\* no block for an entry, or no room in the queue
RefuseFull(a) ==
  /\ IF Entry(a) = {} THEN Block \subseteq neighbor_memb
     ELSE \E n \in Entry(a) : Len(packet_queue[n]) >= CSMA_MAX_PACKET_PER_NEIGHBOR
  /\ UNCHANGED <<entry, packet_queue, timing, pools>>

Refuse(k, a) ==
  /\ report[k] = "new"
  /\ report' = [report EXCEPT ![k] = "called"]
  /\ \/ RefuseFull(a)
     \/ \E n \in Block, lack \in {"packet", "metadata", "buffer"} : RefuseLacking(a, n, lack)
  /\ UNCHANGED attempts

--------------------------------------------------------------------------------
(* transmit_from_queue, with what packet_sent makes of the outcome.        *)

\* free_packet, and the sent callback: q leaves n
tx_done(n, q) ==
  LET rest == Tail(packet_queue[n])
  IN  /\ packet_queue' = [packet_queue EXCEPT ![n] = rest]
      /\ packet_memb' = packet_memb - 1
      /\ metadata_memb' = metadata_memb - 1
      /\ bufmem' = bufmem - 1
      /\ report' = [report EXCEPT ![q] = "called"]
      /\ transmit_timer' = [transmit_timer EXCEPT ![n] = rest # << >>]
      /\ IF rest # << >>
         THEN /\ transmissions' = [transmissions EXCEPT ![n] = 0]
              /\ collisions' = [collisions EXCEPT ![n] = 0]
              /\ UNCHANGED entry
         ELSE /\ neighbor_list' = neighbor_list \ {n}
              /\ neighbor_memb' = neighbor_memb \ {n}
              /\ UNCHANGED <<addr, transmissions, collisions>>

\* mutant of rexmit
rexmitUnset(n, t, c) ==
  /\ transmissions' = [transmissions EXCEPT ![n] = t]
  /\ collisions' = [collisions EXCEPT ![n] = c]
  /\ transmit_timer' = [transmit_timer EXCEPT ![n] = FALSE]
  /\ UNCHANGED <<entry, packet_queue, pools, report>>
\* rexmit, with the counters at t and c
rexmit(n, t, c) ==
  /\ transmissions' = [transmissions EXCEPT ![n] = t]
  /\ collisions' = [collisions EXCEPT ![n] = c]
  /\ transmit_timer' = [transmit_timer EXCEPT ![n] = TRUE]
  /\ UNCHANGED <<entry, packet_queue, pools, report>>

\* the limit test of collision and noack
RetryOrGiveUp(n, q, t, c) ==
  IF t >= Limit[q] THEN tx_done(n, q) ELSE rexmit(n, t, c)

\* mutant of collision
collisionOneMore(n, q) ==
  IF collisions[n] > CSMA_MAX_BACKOFF
  THEN RetryOrGiveUp(n, q, transmissions[n] + 1, 0)
  ELSE RetryOrGiveUp(n, q, transmissions[n], collisions[n] + 1)
collision(n, q) ==
  IF collisions[n] + 1 > CSMA_MAX_BACKOFF
  THEN RetryOrGiveUp(n, q, transmissions[n] + 1, 0)
  ELSE RetryOrGiveUp(n, q, transmissions[n], collisions[n] + 1)

noack(n, q) == RetryOrGiveUp(n, q, transmissions[n] + 1, 0)

packet_sent(n, q, s) ==
  CASE s = "COLLISION" -> collision(n, q)
    [] s = "NOACK" -> noack(n, q)
    [] OTHER -> tx_done(n, q)

Transmit(n, s) ==
  /\ transmit_timer[n] /\ packet_queue[n] # << >>
  /\ LET q == Head(packet_queue[n])
     IN  /\ packet_sent(n, q, s)
         /\ attempts' = [attempts EXCEPT ![q] = IF report'[q] = "called" THEN 0 ELSE @ + 1]

Send(k) == Refuse(k, Dest[k]) \/ \E n \in Block : Accept(k, Dest[k], n)

Next ==
  \/ \E k \in Packet : Send(k)
  \/ \E n \in Block, s \in Outcome : Transmit(n, s)

Spec == Init /\ [][Next]_vars

(* A transmission timer that is set fires.                                 *)
FairSpec == Spec /\ \A n \in Block : WF_vars(\E s \in Outcome : Transmit(n, s))

--------------------------------------------------------------------------------
(* Properties.                                                             *)

TypeOK ==
  /\ neighbor_memb \subseteq Block /\ neighbor_list \subseteq Block
  /\ addr \in [Block -> Addr \cup {NULL}]
  /\ packet_queue \in [Block -> Seq(Packet)]
  /\ transmissions \in [Block -> Nat]
  /\ collisions \in [Block -> 0 .. CSMA_MAX_BACKOFF]
  /\ transmit_timer \in [Block -> BOOLEAN]
  /\ packet_memb \in 0 .. QUEUEBUF_NUM /\ metadata_memb \in 0 .. QUEUEBUF_NUM
  /\ bufmem \in 0 .. QUEUEBUF_NUM
  /\ report \in [Packet -> {"new", "queued", "called"}]
  /\ attempts \in [Packet -> Nat]

(* An entry is in use as long as it has frames, is on the list then, has   *)
(* its timer set then, and is the only entry of its destination: no frame  *)
(* waits for a timer nobody set, and no timer fires for a freed entry.     *)
EntriesLive ==
  \A n \in Block :
    /\ n \in neighbor_memb <=> packet_queue[n] # << >>
    /\ n \in neighbor_list <=> packet_queue[n] # << >>
    /\ transmit_timer[n] <=> packet_queue[n] # << >>
    /\ \A o \in neighbor_list \ {n} : n \in neighbor_list => addr[o] # addr[n]

\* the places of the frames in the queues
Held ==
  {e \in Block \X (1 .. CSMA_MAX_PACKET_PER_NEIGHBOR) : e[2] <= Len(packet_queue[e[1]])}

(* What the pools have given out is what the queues hold, after successful *)
(* and refused calls: nothing leaks, nothing is freed twice.               *)
PoolsAccounted ==
  LET held == Cardinality(Held)
  IN  packet_memb = held /\ metadata_memb = held /\ bufmem = held

(* Through partial allocation, refusal, retries and giving up, the entries *)
(* and the pools agree with the queues.                                    *)
NothingLeaks == EntriesLive /\ PoolsAccounted

(* A frame is given up for want of an acknowledgment or of a clear channel *)
(* only after it was transmitted as often as its own limit says, and no    *)
(* frame is transmitted more than CSMA_MAX_BACKOFF + 1 times that often:   *)
(* the counters are those of the first frame, whatever was before it.      *)
RetriesCounted ==
  [][\A n \in Block : packet_queue[n] # << >> =>
       LET k == Head(packet_queue[n])
       IN  /\ attempts[k] + 1 <= Limit[k] * (CSMA_MAX_BACKOFF + 1)
           /\ attempts[k] + 1 < Limit[k] =>
                \A s \in {"NOACK", "COLLISION"} : Transmit(n, s) => report'[k] = "queued"]_vars

(* Frames for a destination are done with in the order they were accepted, *)
(* whatever entry holds them; each is reported once.                       *)
Waiting(a) == IF Entry(a) = {} THEN << >> ELSE packet_queue[CHOOSE n \in Entry(a) : TRUE]
Fifo(a) == INSTANCE BoundedFifo WITH
  Elem <- Packet, Capacity <- CSMA_MAX_PACKET_PER_NEIGHBOR, queue <- Waiting(a)
InOrder == [][\A a \in Addr : Fifo(a)!Next \/ UNCHANGED Waiting(a)]_vars

(* Every frame that was accepted gets its sent callback.                   *)
SentIsReported == \A k \in Packet : report[k] = "queued" ~> report[k] = "called"
================================================================================
