------------------------------- MODULE TschQueue -------------------------------
(***************************************************************************)
(* TSCH's packet queues (os/net/mac/tsch/tsch-queue.c), as the slot        *)
(* operation (tsch-slot-operation.c, in timer interrupts) and the main     *)
(* program (tsch.c) share them.  A packet is put on its neighbor's queue   *)
(* by the main program; a slot operation transmits the head of a queue     *)
(* and, when it is done with, moves it to the ring of dequeued packets;    *)
(* the main program is polled, calls its sent callback and frees it.       *)
(*                                                                         *)
(* RingBufIndex is the ring of dequeued packets: the slot operation        *)
(* produces, tsch_tx_process_pending consumes.  A neighbor's queue is a    *)
(* ring too, and a bounded FIFO here, which RingBufIndex implements.  The  *)
(* main program runs between any two steps, but for the interrupt that     *)
(* ends a slot.  A flush makes the main program a second consumer of a     *)
(* queue, also in the middle of a slot: it may free the packet on the air. *)
(* What the slot operation does with freed memory is not modelled: there   *)
(* the behaviour ends (torn).                                              *)
(*                                                                         *)
(* Links come in any order.  The order of the table is left out, and so    *)
(* are the time source (kept as a neighbor with a link is), EBs, bursts,   *)
(* what an Rx slot receives, and joining and leaving the network.          *)
(***************************************************************************)
EXTENDS RingBufIndex, FiniteSets

CONSTANTS
  Packet,      (* what is sent, each at most once                           *)
  Nbr,         (* the neighbors' addresses                                  *)
  Broadcast,   (* n_broadcast                                               *)
  Linked,      (* the neighbors with a dedicated Tx link (tx_links_count);  *)
               (* the others are served by the shared broadcast link        *)
  Dest,        (* a packet's neighbor                                       *)
  Limit,       (* max_transmissions                                         *)
  NULL,
  QUEUEBUF_NUM,
  TSCH_QUEUE_NUM_PER_NEIGHBOR,
  MaxNbrs,     (* entries of the neighbor table                             *)
  MaxWindow    (* the largest backoff window                                *)

ASSUME TschAssumption ==
  /\ Elem = Packet \cup {NULL} /\ NULL \notin Packet
  /\ Broadcast \in Nbr /\ Linked \subseteq Nbr \ {Broadcast}
  /\ Dest \in [Packet -> Nbr] /\ Limit \in [Packet -> Nat \ {0}]
  /\ {QUEUEBUF_NUM, MaxWindow} \subseteq Nat

VARIABLES
  nbrs,            (* tsch_neighbors: the entries in use                    *)
  tx,              (* n->tx_ringbuf and n->tx_array                         *)
  window,          (* n->backoff_window                                     *)
  slot,            (* the slot operation: "none", "rx", "tx"                *)
  current,         (* current_packet, current_neighbor; is the link shared? *)
  locked,          (* tsch_locked                                           *)
  lock_requested,  (* tsch_lock_requested                                   *)
  transmissions,   (* p->transmissions                                      *)
  packet_memb,     (* the packets allocated                                 *)
  poll,            (* tsch_pending_events_process is polled                 *)
  main,            (* where the main program is                             *)
  job,             (* ... the neighbor and the packet it is working on      *)
  todo,            (* ... the neighbors it still has to look at             *)
  freed,           (* ... num_packets_freed > 0                             *)
  report,          (* history: what became of a packet                      *)
  torn             (* history: was the packet on the air freed?             *)

ring   == vars
queues == <<nbrs, tx, window>>
slotop == <<slot, current>>
lock   == <<locked, lock_requested>>
mem    == <<transmissions, packet_memb, report, torn>>
flow   == <<main, job, todo, freed>>
tvars  == <<ring, queues, slotop, lock, mem, poll, flow>>

NoJob == [for |-> "none", nbr |-> NULL, pkt |-> NULL]

\* tsch_queue_init, tsch_init
TInit ==
  /\ slots = [i \in Index |-> NULL] /\ Init
  /\ nbrs = {Broadcast} \cup Linked
  /\ tx = [n \in Nbr |-> << >>]
  /\ window = [n \in Nbr |-> 0]
  /\ slot = "none" /\ current = NULL
  /\ locked = FALSE /\ lock_requested = FALSE
  /\ transmissions = [k \in Packet |-> 0]
  /\ packet_memb = {}
  /\ poll = FALSE
  /\ main = "idle" /\ job = NoJob /\ todo = {} /\ freed = FALSE
  /\ report = [k \in Packet |-> "new"]
  /\ torn = FALSE

--------------------------------------------------------------------------------
(* The slot operation, in the timer interrupt.                             *)

In(op) == slot = op /\ ~torn

Unlinked(n) == n \notin Linked /\ n # Broadcast

\* tsch_queue_get_packet_for_nbr finds a packet
Ready(n, shared) ==
  /\ ~locked
  /\ n \in nbrs /\ tx[n] # << >>
  /\ shared => window[n] = 0

\* get_packet_and_neighbor_for_link, for the dedicated link of a neighbor
\* and for the shared broadcast link: any unicast packet if no broadcast
Dedicated(n) == IF Ready(n, FALSE) THEN {n} ELSE {}
Shared == IF Ready(Broadcast, TRUE) THEN {Broadcast}
          ELSE {n \in Nbr : Unlinked(n) /\ Ready(n, TRUE)}

\* tsch_queue_update_all_backoff_windows, for the broadcast link
Less(w) == IF locked THEN w
           ELSE [n \in Nbr |-> IF Unlinked(n) /\ n \in nbrs /\ w[n] > 0 THEN w[n] - 1 ELSE w[n]]

\* a Tx slot: tsch_tx_slot up to the transmission
StartTx(n, shared) ==
  /\ In("none") /\ ~lock_requested
  /\ n \in IF shared THEN Shared ELSE Dedicated(n)
  /\ PeekPut
  /\ slot' = "tx"
  /\ current' = [pkt |-> Head(tx[n]), nbr |-> n, shared |-> shared]
  /\ UNCHANGED <<queues, lock, mem, poll, flow>>

\* nothing to send, no room for a packet that is done with, or the lock is
\* requested: only the backoff windows shrink
PassShared ==
  /\ In("none") /\ prod = "idle"
  /\ lock_requested \/ Shared = {} \/ Full
  /\ window' = Less(window)
  /\ UNCHANGED <<ring, nbrs, tx, slotop, lock, mem, poll, flow>>

StartRx ==
  /\ In("none") /\ prod = "idle" /\ ~lock_requested
  /\ slot' = "rx"
  /\ UNCHANGED <<ring, queues, current, lock, mem, poll, flow>>

EndRx ==
  /\ In("rx")
  /\ slot' = "none"
  /\ poll' = TRUE
  /\ UNCHANGED <<ring, queues, current, lock, mem, flow>>

\* tsch_queue_remove_packet_from_queue, in tsch_queue_packet_sent
WithoutHead(n) == IF locked \/ tx[n] = << >> THEN tx ELSE [tx EXCEPT ![n] = Tail(@)]

\* is the packet done with?
Gone(k, ok) == ok \/ transmissions[k] + 1 >= Limit[k]

\* tsch_queue_packet_sent and the end of the slot: backoff of a unicast packet
Backoff(n, shared, ok, empty) ==
  IF n = Broadcast THEN {window}
  ELSE IF ok THEN {IF shared \/ empty THEN [window EXCEPT ![n] = 0] ELSE window}
  ELSE IF shared THEN {[window EXCEPT ![n] = w] : w \in 1 .. MaxWindow + 1}
  ELSE {window}

EndSlot == slot' = "none" /\ current' = NULL /\ poll' = TRUE

\* the end of a Tx slot: the packet stays first in its queue, ...
EndTxKept ==
  /\ In("tx") /\ ~Gone(current.pkt, FALSE)
  /\ PutLeave
  /\ transmissions' = [transmissions EXCEPT ![current.pkt] = @ + 1]
  /\ \E w \in Backoff(current.nbr, current.shared, FALSE, FALSE) :
       window' = IF current.shared THEN Less(w) ELSE w
  /\ EndSlot
  /\ UNCHANGED <<nbrs, tx, lock, packet_memb, report, torn, flow>>

\* mutant of EndTxGone
EndTxGoneQueued(ok) ==
  /\ In("tx") /\ Gone(current.pkt, ok)
  /\ Fill(current.pkt)
  /\ transmissions' = [transmissions EXCEPT ![current.pkt] = @ + 1]
  /\ tx' = IF ok THEN WithoutHead(current.nbr) ELSE tx
  /\ \E w \in Backoff(current.nbr, current.shared, ok, tx'[current.nbr] = << >>) :
       window' = IF current.shared THEN Less(w) ELSE w
  /\ UNCHANGED <<nbrs, slotop, lock, packet_memb, report, torn, poll, flow>>
\* ... or it is dequeued, for ringbufindex_put to publish
EndTxGone(ok) ==
  /\ In("tx") /\ Gone(current.pkt, ok)
  /\ Fill(current.pkt)
  /\ transmissions' = [transmissions EXCEPT ![current.pkt] = @ + 1]
  /\ tx' = WithoutHead(current.nbr)
  /\ \E w \in Backoff(current.nbr, current.shared, ok, tx'[current.nbr] = << >>) :
       window' = IF current.shared THEN Less(w) ELSE w
  /\ UNCHANGED <<nbrs, slotop, lock, packet_memb, report, torn, poll, flow>>

Put ==
  /\ \/ PutTest /\ IF Full THEN EndSlot ELSE UNCHANGED <<slotop, poll>>
     \/ PutAdvance /\ EndSlot
  /\ UNCHANGED <<queues, lock, mem, flow>>

--------------------------------------------------------------------------------
(* The main program; the interrupt that ends a slot is not interrupted.    *)

At(place) == main = place /\ prod \in {"idle", "fill"} /\ ~torn

\* send_packet, tsch_queue_add_packet: an unknown neighbor needs the lock
Send(k) ==
  /\ At("idle") /\ report[k] = "new"
  /\ job' = [for |-> "add", nbr |-> Dest[k], pkt |-> k]
  /\ main' = IF Dest[k] \in nbrs THEN "add" ELSE "lock"
  /\ lock_requested' = (Dest[k] \notin nbrs)
  /\ UNCHANGED <<ring, queues, slotop, locked, mem, poll, todo, freed>>

\* mutant of tsch_get_lock
tsch_get_lockAtOnce ==
  /\ At("lock")
  /\ locked' = TRUE /\ lock_requested' = FALSE
  /\ main' = "locked"
  /\ UNCHANGED <<ring, queues, slotop, mem, poll, job, todo, freed>>
\* tsch_get_lock: it waits for the end of the slot
tsch_get_lock ==
  /\ At("lock") /\ slot = "none"
  /\ locked' = TRUE /\ lock_requested' = FALSE
  /\ main' = "locked"
  /\ UNCHANGED <<ring, queues, slotop, mem, poll, job, todo, freed>>

\* tsch_queue_add_nbr, with the lock; NULL when the table is full
tsch_queue_add_nbr ==
  /\ At("locked") /\ job.for = "add"
  /\ IF Cardinality(nbrs) < MaxNbrs
     THEN /\ nbrs' = nbrs \cup {job.nbr}
          /\ tx' = [tx EXCEPT ![job.nbr] = << >>]
          /\ window' = [window EXCEPT ![job.nbr] = 0]
     ELSE UNCHANGED queues
  /\ locked' = FALSE
  /\ main' = "add"
  /\ UNCHANGED <<ring, slotop, lock_requested, mem, poll, job, todo, freed>>

\* the rest of tsch_queue_add_packet
Enqueue ==
  LET n == job.nbr
      k == job.pkt
  IN  /\ At("add")
      /\ IF /\ n \in nbrs
            /\ Len(tx[n]) < TSCH_QUEUE_NUM_PER_NEIGHBOR - 1
            /\ Cardinality(packet_memb) < QUEUEBUF_NUM
         THEN /\ tx' = [tx EXCEPT ![n] = Append(@, k)]
              /\ packet_memb' = packet_memb \cup {k}
              /\ report' = [report EXCEPT ![k] = "queued"]
         ELSE /\ report' = [report EXCEPT ![k] = "refused"]
              /\ UNCHANGED <<tx, packet_memb>>
      /\ main' = "idle" /\ job' = NoJob
      /\ UNCHANGED <<ring, nbrs, window, slotop, lock, transmissions, torn, poll, todo, freed>>

\* tsch_pending_events_process is polled: tsch_tx_process_pending
Poll ==
  /\ At("idle") /\ poll
  /\ poll' = FALSE
  /\ main' = "pending"
  /\ UNCHANGED <<ring, queues, slotop, lock, mem, job, todo, freed>>

Peek ==
  /\ At("pending")
  /\ PeekGet
  /\ UNCHANGED <<queues, slotop, lock, mem, poll, flow>>

\* the sent callback, tsch_queue_free_packet
Callback ==
  LET k == slots[get_ptr]
  IN  /\ At("pending") /\ cons = "use"
      /\ report' = [report EXCEPT ![k] = "called"]
      /\ packet_memb' = packet_memb \ {k}
      /\ main' = "reported" /\ freed' = TRUE
      /\ UNCHANGED <<ring, queues, slotop, lock, transmissions, torn, poll, job, todo>>

\* mutant of Get
GetOne ==
  /\ At("reported")
  /\ GetTest \/ GetAdvance
  /\ main' = IF cons' = "idle" THEN "unused" ELSE main
  /\ UNCHANGED <<queues, slotop, lock, mem, poll, job, todo, freed>>
Get ==
  /\ At("reported")
  /\ GetTest \/ GetAdvance
  /\ main' = IF cons' = "idle" THEN "pending" ELSE main
  /\ UNCHANGED <<queues, slotop, lock, mem, poll, job, todo, freed>>

\* the ring is empty: if a packet was freed, unused neighbors are freed too
PendingDone ==
  /\ At("pending") /\ cons = "idle" /\ Empty
  /\ main' = IF freed THEN "unused" ELSE "idle"
  /\ todo' = IF freed THEN {n \in nbrs : Unlinked(n)} ELSE {}
  /\ freed' = FALSE
  /\ UNCHANGED <<ring, queues, slotop, lock, mem, poll, job>>

\* tsch_queue_free_unused_neighbors: n has no Tx link; is it to be deallocated?
Unused(n) == tx[n] = << >>

FreeUnused(n) ==
  /\ At("unused") /\ n \in todo
  /\ todo' = todo \ {n}
  /\ IF Unused(n)
     THEN main' = "lock" /\ lock_requested' = TRUE /\ job' = [for |-> "remove", nbr |-> n, pkt |-> NULL]
     ELSE UNCHANGED <<main, lock_requested, job>>
  /\ UNCHANGED <<ring, queues, slotop, locked, mem, poll, freed>>

FreeDone ==
  /\ At("unused") /\ todo = {}
  /\ main' = "idle"
  /\ UNCHANGED <<ring, queues, slotop, lock, mem, poll, job, todo, freed>>

\* tsch_queue_remove_nbr: the lock is released, then the queue is flushed
\* and the entry freed
tsch_release_lock ==
  /\ At("locked") /\ job.for = "remove"
  /\ locked' = FALSE
  /\ main' = "remove"
  /\ UNCHANGED <<ring, queues, slotop, lock_requested, mem, poll, job, todo, freed>>

tsch_queue_remove_nbr ==
  /\ At("remove") /\ tx[job.nbr] = << >>
  /\ nbrs' = nbrs \ {job.nbr}
  /\ main' = "unused" /\ job' = NoJob
  /\ UNCHANGED <<ring, tx, window, slotop, lock, mem, poll, todo, freed>>

\* tsch_queue_free_packets_to, in the middle of a slot too
Flush(n) ==
  /\ At("idle") /\ n \in nbrs /\ tx[n] # << >>
  /\ main' = "flush" /\ job' = [for |-> "flush", nbr |-> n, pkt |-> NULL]
  /\ UNCHANGED <<ring, queues, slotop, lock, mem, poll, todo, freed>>

\* tsch_queue_flush_nbr_queue: the next packet, and the end
FlushHead ==
  LET n == job.nbr
      k == Head(tx[n])
  IN  /\ main \in {"flush", "remove"} /\ At(main)
      /\ tx[n] # << >>
      /\ tx' = [tx EXCEPT ![n] = Tail(@)]
      /\ packet_memb' = packet_memb \ {k}
      /\ report' = [report EXCEPT ![k] = "flushed"]
      /\ torn' = (slot = "tx" /\ k = current.pkt)
      /\ UNCHANGED <<ring, nbrs, window, slotop, lock, transmissions, poll, flow>>

FlushDone ==
  /\ At("flush") /\ tx[job.nbr] = << >>
  /\ main' = "idle" /\ job' = NoJob
  /\ UNCHANGED <<ring, queues, slotop, lock, mem, poll, todo, freed>>

--------------------------------------------------------------------------------
EndTx == EndTxKept \/ (\E ok \in BOOLEAN : EndTxGone(ok)) \/ Put
SharedSlot == PassShared \/ \E n \in Nbr : StartTx(n, TRUE)
LinkSlot(n) == StartTx(n, FALSE)
Interrupt == SharedSlot \/ (\E n \in Linked : LinkSlot(n)) \/ StartRx \/ EndRx \/ EndTx

Main ==
  \/ tsch_get_lock \/ tsch_queue_add_nbr \/ Enqueue
  \/ Poll \/ Peek \/ Callback \/ Get \/ PendingDone
  \/ (\E n \in Nbr : FreeUnused(n)) \/ FreeDone \/ tsch_release_lock \/ tsch_queue_remove_nbr
  \/ FlushHead \/ FlushDone

\* the behaviour ends with the use of freed memory
Torn == torn /\ UNCHANGED tvars

TNext == Interrupt \/ Main \/ (\E k \in Packet : Send(k)) \/ (\E n \in Nbr : Flush(n)) \/ Torn

TSpec == TInit /\ [][TNext]_tvars

(* The main program goes on, a slot ends, and the slots of every link come *)
(* round again and again, not always while the main program has the lock.  *)
TFairSpec ==
  /\ TSpec
  /\ WF_tvars(Main) /\ WF_tvars(EndTx) /\ WF_tvars(EndRx)
  /\ SF_tvars(SharedSlot) /\ \A n \in Linked : SF_tvars(LinkSlot(n))

--------------------------------------------------------------------------------
(* Properties.                                                             *)

\* the dequeued packets whose callback is still to come, oldest first
Dequeued ==
  (IF main = "reported" THEN Tail(Waiting) ELSE Waiting)
    \o (IF prod \in {"put", "advance"} THEN <<current.pkt>> ELSE << >>)

Times(k, s) == Cardinality({i \in DOMAIN s : s[i] = k})

(* Every packet allocated is in one place, once: in its neighbor's queue   *)
(* or among the dequeued ones; a packet that was freed is in none.  The    *)
(* packet on the air is the head of its neighbor's queue, and its neighbor *)
(* is in the table, unless a flush freed that packet.                      *)
Owned == ~torn =>
  /\ \A k \in Packet :
       Times(k, Dequeued) + Times(k, tx[Dest[k]]) = IF k \in packet_memb THEN 1 ELSE 0
  /\ slot = "tx" /\ prod = "fill" =>
       /\ current.nbr \in nbrs /\ tx[current.nbr] # << >>
       /\ Head(tx[current.nbr]) = current.pkt

\* the packets of s that are for n, in their order
To(n, s) ==
  LET f[i \in 0 .. Len(s)] ==
        IF i = 0 THEN << >>
        ELSE IF Dest[s[i]] = n THEN Append(f[i - 1], s[i]) ELSE f[i - 1]
  IN  f[Len(s)]

(* The packets to a neighbor are reported in the order they were sent,     *)
(* each once, over two queues and however often they are retransmitted;    *)
(* only a flush reports out of turn.  At most QUEUEBUF_NUM are on the way. *)
Pipe(n) == To(n, Dequeued) \o tx[n]
PipeFifo(n) == INSTANCE BoundedFifo WITH
  Elem <- Packet, Capacity <- QUEUEBUF_NUM, queue <- Pipe(n)
InSequence ==
  [][\A n \in Nbr : \/ PipeFifo(n)!Next \/ UNCHANGED Pipe(n)
                    \/ main \in {"flush", "remove"} /\ job.nbr = n]_tvars

(* The sent callback of every packet that was queued is called, unless it  *)
(* was flushed, or a flush freed a packet on the air.                      *)
SentComes == \A k \in Packet : report[k] = "queued" ~> report[k] \in {"called", "flushed"} \/ torn

(* "TSCH is locked during slot operations" (tsch-slot-operation.c:182), so *)
(* that the main program, which tests tsch_is_locked before it takes a     *)
(* packet off a queue, does not free the packet on the air.                *)
InFlightKept == slot = "tx" => current.pkt \in packet_memb
================================================================================
