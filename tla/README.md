# TLA+ verification of Contiki-NG

This directory holds TLA+ modules that model parts of the operating system in
`src/` (Contiki-NG with an HMM link-quality extension of RPL Classic), the TLC
configurations that model-check them, and theorems about them that TLAPS
checks. `PROJECT.json` lists the components, the runs, the map from every
definition to the lines of C it stands for, the hazards, the findings and the
theorems.

Contents: [1 inventory](#1-inventory) · [2 conventions](#2-conventions) ·
[3 modules](#3-modules-and-how-they-correspond-to-the-code) ·
[4 runs](#4-runs-bounds-and-what-they-show) · [5 fairness](#5-fairness) ·
[6 findings](#6-findings) · [7 proofs](#7-proofs) ·
[8 limits](#8-what-is-only-model-checked-and-what-is-not-modelled) · [9 plan](#9-plan)

To check a run: `tlc -workers 2 -config Process.cfg Process.tla` (the module of each run is in section 4); to check
the proofs of a module: `tlapm ProcessProofs.tla`.

## 1 Inventory

Contiki-NG runs one stack: the main program calls `process_run` for ever,
protothread processes run to their next wait, and interrupts (the clock tick,
the radio, the TSCH slot operation) run between any two instructions of it.
Nothing is pre-emptive except interrupts, so the hard behaviour is of four
kinds: **re-entrancy** (a callback or a synchronous event calls back into the
module that made it, which then goes on with pointers it read before),
**interrupts** that share flags, indices and clock values with the main
program, **deferred work** (an event or callback is queued, and what it is
about is stopped, freed or reused before it is delivered), and **protocols over
lossy links** (retransmission, duplicates, late answers, reboots, sequence
numbers that wrap). Memory is static: every pool, queue and table is bounded
and has an error path.

| Component (`src/os/...`) | State | Operations | Talks to | Hard behaviour | What makes it correct |
|---|---|---|---|---|---|
| process kernel, `sys/process.c`, `sys/pt.h` | list of processes, their states and poll flags, event ring, `process_current` | start, exit, post, post_synch, poll, run | calls every thread; polled by interrupts; C stack | re-entrant calls under loops over a list that changes | polls and broadcasts reach whom they must; exited processes stay exited; FIFO; `process_current` |
| event timers, `sys/etimer.c`, `sys/timer.c`, tick in `arch/cpu/nrf/sys/clock-arch.c` | unordered list, `next_expiration` | set, reset, restart, adjust, stop, scan, purge | kernel (poll, post), tick interrupt | clock ticks inside every operation, wraps; queue full | no timer missed, none early, at most one event each time it is armed |
| callback timers, `sys/ctimer.c` | list, `initialized` | set, reset, restart, stop, process | etimer, callbacks | events of earlier settings still queued; set before the process runs | callbacks neither early, lost nor spurious |
| process mutex, `sys/process-mutex.c` | lock, one waiting process, "more" flag | try_lock, unlock | kernel (post) | forgotten waiters; spurious wake-ups | exclusion, no lost wake-up |
| index ring buffer, `lib/ringbufindex.c` | put and get index | put, peek, get, elements | TSCH queues, one side in an interrupt | lock-free | FIFO, disjoint slots |
| linked lists, `lib/list.c` | next pointers | add, push, remove, pop, insert | everything | loops over a list that changes | no cycle, no lost element |
| CSMA output, `net/mac/csma/csma-output.c` | an entry per destination with queue, timer, counters; three pools | output, timer, packet_sent | radio, ctimer, upper layers (sent callback) | partial allocation, sent callback re-enters, entry freed | pools balanced, order per destination, one outcome per frame |
| duplicate filter, `net/mac/mac-sequence.c` | one number and time per sender | register, is_duplicate | CSMA input | lost acknowledgments, wrap of 8-bit numbers, a table of senders that evicts | a retransmission is dropped while the number is there; a new frame only when numbers came round |
| 6top protocol, `net/mac/tsch/sixtop/sixp*.c` | transactions, SeqNum per neighbor | output, input, mac_callback, process, timeout | MAC queue, ctimer, scheduling functions | answers late or before reports, both ends start, reboot | answers match, blocks return, no dangling pointer |
| TSCH queues, `net/mac/tsch/tsch-queue.c` | a neighbor per destination with a ring, backoff | add, remove, flush, packet_sent, get | slot interrupt, 6top, RPL | lock, interrupt between peek and get, removal of a neighbor | every packet in one place, reported in order and in the end |
| TSCH slots, `net/mac/tsch/tsch*.c` | schedule, ASN, lock, state | associate, slot operation, schedule changes | radio, queues | interrupt against main program | lock excludes slots; (planned) schedule not changed in a slot |
| neighbor tables, `net/nbr-table.c` | keys, per-table bitmaps of used and locked, LRU | add, remove, lock, gc | link stats, 6LoWPAN, IPv6, RPL, TSCH | eviction while others use the key; callbacks in the middle | (planned) locked entries stay |
| link statistics, `net/link-stats.c`, HMM, `net/routing/rpl-classic` | ETX, freshness, HMM state per link | packet_sent, input, periodic | MAC callbacks, RPL | fixed-point arithmetic | (planned) ranges |
| 6LoWPAN, `net/ipv6/sicslowpan.c` | reassembly contexts, fragment buffers | fragment, reassemble, compress | MAC, IPv6 | duplicated, interleaved, lost fragments; exhausted buffers | assembled only from all pieces; nothing leaks |
| IPv6, UDP, TCP, `net/ipv6` | one packet buffer, connections, tables, ND states | input, output, periodic | everything above and below | one shared buffer, NUD timers | (planned: ND) |
| RPL Lite and Classic, `net/routing` | DAG, parents, ranks, timers | DIO, DAO, DIS, parent switch, repair | ICMPv6, trickle, link stats, neighbor tables | loops, version roll-over, lost DAOs | (planned) rank relations, lollipop counters |
| Trickle, `lib/trickle-timer.c` | interval, counter, ctimer | set, inconsistency, consistency, stop | ctimer, callback | callback re-enters, wrap | (planned) |
| CoAP, `net/app-layer/coap` | transactions, observers, block-wise state | receive, send, retransmit, notify | UDP, timers, resources | timeout against late ACK, list changed in a loop | (planned) |
| Coffee, `storage/cfs/cfs-coffee.c` | flash pages, file headers, logs, descriptors | open, write, remove, merge, collect | flash | power failure between two writes; extents over sector borders; no room in the middle of a merge | contents kept, found again, a copy survives |
| memory pools, heap, `lib/memb.c`, `lib/heapmem.c` | counters, free list | alloc, free, realloc | everything | coalescing | (planned) |
| other MACs, framers, link-layer security, packetbuf and queuebuf, multicast, DNS, MQTT, HTTP, LWM2M, SNMP, border router, Orchestra, shell, Antelope, ports of CPUs and boards | | | | | not modelled, see `components` |

The hazards that a test would hardly reach are listed with their lines in
`PROJECT.json`, each with the properties that would notice it going wrong or
with a note on why there is none yet.


## 2 Conventions

* Operators, variables and states keep the names of the C functions, fields and
  constants they stand for (`process_post`, `needspoll`, `SIXTOP_MAX_TRANSACTIONS`).
  What has no name in C starts with a capital letter.
* One action is what runs without being interrupted by something the module
  models. Where only the main program touches a piece of state, a whole handler
  is one action. Where a callback or a called thread can come back in (the
  kernel), the handler is split at each call and its C stack is a variable.
  Where an interrupt can come between (the tick in `Etimer`, the other side of
  `RingBufIndex`), it is split at each access of shared data.
* `Liberties` are things a thread or a caller could do and no process of the
  repository does. Three modules have them: `Process` (`exit_called`,
  `leave_in_exited`, `busy_exit`, `restart_cursor`), `Etimer` (`adjust_ahead`)
  and `Ctimer` (`set_queued`). The passing runs take none of them; section 6
  says what each breaks. Whatever the code itself does, and whatever a MAC, a
  link, an interrupt or a peer may do to it, is in the models without such a
  condition. Where the code then goes wrong the property names the case: what
  is left of a behaviour after its first use of freed memory (`TschQueue`), the
  three ways to a dangling argument of `mac_callback` (`Sixp`), a refused first
  fragment and a doubled one (`Reassembly`), a number that was displaced or came
  round (`MacLink`), a dropped post (`ProcessMutex`).
* History variables (`want`, `due`, `got`, `asked`, `report`, `attempts`,
  `delivered`, `latest`, `since`, `handed`, `number`, `dropped`, `torn`, `content`,
  `hit`, `receded`, `strayed`, `overtaken`, the `id` and `request` of a 6P
  transaction, the `of` of a reassembly context) record what happened, for the properties. Four of them also
  bound what happens: a packet whose `report` is not "new" has been
  sent, a node with a `hit` stays down, a behaviour ends with `torn`, and a unit of a file's `content` is not
  overwritten by the same value. `made`, `resets` and `now` carry bounds.
* An operator headed `\* mutant of X` is X with a plausible bug. It is used by
  nothing. Putting it in the place of X makes the property `PROJECT.json`
  pairs it with fail, which shows that the property can fail.
* Every bound is a constant: `MaxStack`, `MaxOps` (`Process`), `MaxTime`,
  `MaxOthers` (timers), `MaxRequests`, `MaxResets` (`Sixp`), `MaxWindow`
  (`TschQueue`), `MaxLength` (`Reassembly`), `MaxUnits` (`Coffee`); the set `Packet` where each is sent once.

## 3 Modules and how they correspond to the code

```
 BoundedFifo  <--implements--  Process, RingBufIndex, each queue of Csma,
                               all packets to a neighbor in TschQueue
 TimerService <--implements--  Etimer          Ctimer EXTENDS TimerService
 Kernel                        constants that TimerService and ProcessMutex share
 Circular, LinkedList          operators: array used as a ring, next pointers
 DataLemmas                    lemmas on Circular and LinkedList
 *Proofs EXTENDS *             theorems about one component (MacLinkProofs: MacLink
                               and Csma; TschQueueProofs: TschQueue and the ring;
                               ServiceProofs: Ctimer and ProcessMutex)
 MacLink EXTENDS Csma          sender, lossy link and receiver
 TschQueue EXTENDS RingBufIndex  slot interrupt and main program
 Sixp, Reassembly, Coffee      one component each
 MC*                           values and symmetry for TLC
```

**`Process`: `sys/process.c`.** The list is `process_list` and `next` (a
process keeps its own next pointer when it leaves, as in C); `state`,
`needspoll`, `process_current`, `events`/`fevent`/`nevents`, `poll_requested`
are the C variables. `stack` is the C call stack: a frame names the function
and the place in it (`"bcast"` is the loop head of a broadcast, `"bcasted"` the
place after its call, `"restore"` the end of `process_post_synch`, `"unlink"`
the rest of `exit_process`, `"polled"` the place after a call of `do_poll`) with
the cursor and the saved `process_current`. `Run`, `DoEvent`, `Broadcast*`,
`DoPoll*`, `Remove`, `TellExited*`, `Restore` are the kernel between two calls;
`process_start`, `process_post`, `process_post_synch`, `process_exit`,
`process_poll`, `ThreadWaits`, `ThreadEnds` are what a thread may do;
`InterruptPoll` comes between any two of them. A thread makes `MaxOps` calls in
one activation, the main program starts up to as many processes as there are.

**`Etimer`: `sys/etimer.c`, `sys/timer.c`, the tick of `clock-arch.c`.** The
clock is `Boot + now` modulo `ClockSize`; `CLOCK_LT` and `timer_expired` are the
unsigned comparisons of the code. A call of the module changes the list and the
timer at once, then `Update` reads the clock and computes, `Store` writes
`next_expiration`; the scan is one action per timer. `Tick` may come between
any two of these. The kernel is reduced to the poll flag of `etimer_process`,
a bounded queue and the set of processes that run.

**`TimerService`** is what etimers promise, and it is safety only: a process that
runs arms a timer, which then has an owner and a due time; it is posted to that
owner, not before it is due and at most once each time it is armed; a stop, or the
owner's exit, disarms it. `Etimer` implements it: `due` is `DueTimes`, the signed
distance of the expiry from the clock added to `now`, `owner` is `Owners`, and
`alive` the processes that run. That an expired timer is posted in the end is
not in it: `NoMissedTimer`, `ExpiredIsPrompt` and `ExpiredIsPosted` say so of
`Etimer`. An event that is queued when its timer is stopped stays queued, in both.

**`Ctimer`: `sys/ctimer.c`** over `TimerService`. `ctimer_list`, `initialized`
and the `start`/`interval` of each ctimer's etimer; `Callback` and `Ignore` are
the two outcomes of a TIMER event, `StartTimers` the loop at the head of
`ctimer_process`. What the program asked for last is `asked`.

**`ProcessMutex`: `sys/process-mutex.c`** with its three fields, `events`, a
queue of receivers, and one handler at a time. A process that waits tries again at every
event, also one that has nothing to do with the mutex.

**`RingBufIndex`: `lib/ringbufindex.c`** with its two pointers and the caller's
array. Each call is a test (reads the other's pointer) and an advance (writes
its own).

**`Csma`: `net/mac/csma/csma-output.c`.** A block of `neighbor_memb` is an
element of `Block`; `addr`, `packet_queue`, `transmissions`, `collisions` and
`transmit_timer` are its fields. The three pools are counters. `csma_output_packet`
is `Accept`, or `RefuseFull` (no entry, or its queue is full), or `RefuseLacking`:
the entry is made if need be, then packet, metadata and buffer are taken in this order
until one lacks (`Taken`), what was taken is freed again (`Returned`), and an
entry without frames is removed; `Transmit` is the timer's callback with
`transmit_from_queue`, `send_one_packet` and `packet_sent` for each outcome of
the radio. The sent callback is the last thing these functions do, so what it
sends is an action of its own.

**`MacLink`: the link.** `Csma` with the receiver's `csma.c` input and
`mac-sequence.c`. The receiver hears broadcasts too. Whatever the sender takes the outcome
of a transmission for, the receiver may have got it or not: any frame of three bytes with the
right number passes for an acknowledgment (`csma-output.c:229`), and an
acknowledgment may be lost. `received_seqnos` holds the newest entries, one per sender;
`Ages` makes one too old, or young again, since its time is compared modulo
the clock. `latest` and `since` remember what the receiver registered,
`number` the sequence number of a frame without its 8 bits.

**`Sixp`: `net/mac/tsch/sixtop/sixp.c`, `sixp-trans.c`, `sixp-nbr.c`** on every
node. `trans` is the pool of transactions with state and ctimer, `next_seqno`
the neighbor table, `queue` the frames of the MAC (external). The helpers work
on the state of one node (`Local`), as the C functions call each other:
`sixp_output` is `SendRequest`/`SendAnswer`, `sixp_input` is `Input`,
`mac_callback` is `Done`, the two uses of the ctimer are `ProcessTimer` and
`Timeout`, a reboot is `Restart`. An answer may come before the report of the frame it
answers, and a timer may fire while the MAC has a frame. `mac_callback` gets a block
(`slot`), whatever has become of it. Three history variables record what the properties speak of:
`receded`, that a `next_seqno` was set to a smaller number; `strayed`, that
a transaction took the answer to another request for its own; and `overtaken`,
the transactions that took an answer, timed out or got the report of another's
frame while the MAC had a frame of theirs.

**`TschQueue`: `net/mac/tsch/tsch-queue.c`** between the slot operation
(`tsch-slot-operation.c`) and the main program (`tsch.c`). `slot` and `current`
are the slot that is going on; `locked` and `lock_requested` the C variables;
`main`, `job`, `todo` and `freed` say where the main program is in
`tsch_queue_add_packet`, `tsch_tx_process_pending`,
`tsch_queue_free_unused_neighbors`, `tsch_queue_remove_nbr` and
`tsch_queue_free_packets_to`. The ring of dequeued packets is `RingBufIndex`
itself: a slot first asks whether it has room (`PeekPut`), fills it when the
packet is done with and publishes it; `Peek`, `Callback` and `Get` are the
consumer, so both sides keep the steps of `ringbufindex.c`, and the theorems of
`TschQueueProofs` about the ring speak of the same definitions. The queue of a neighbor is a
bounded sequence of `TSCH_QUEUE_NUM_PER_NEIGHBOR - 1` places, as `RingBufIndex`
implements one. A flush may come in the middle of a slot; if it frees the packet
on the air (`torn`) the behaviour ends there, for what the slot operation then
does with the freed memory is not modelled. `Pipe(n)` is all the way of a packet to neighbor `n`: those of
`n` on the ring of dequeued packets, then those in its queue.

**`Reassembly`: fragmentation in `net/ipv6/sicslowpan.c`.** `Fragment[p]` is how
`output` cuts packet `p`: the lengths are computed as the code does it. Every
packet is one that has to be fragmented, by the test of `sicslowpan.c:1693`. `frag_info`
and `frag_buf` are the C arrays; `FirstFragment` and `NFragment` are
`add_fragment`, `store_fragment`, `timeout_fragments`, `clear_fragments` and
`copy_frags2uip` as `input` calls them, and `uip` is what the step gave to
`tcpip_input`. A frame at the head of the sender's queue may arrive any number of
times before it leaves. `input` takes a context for a first fragment before it looks
at its header, so a first fragment has three outcomes: it is stored (`WithFirst`), it
is larger than `uip_buf` and its context is cleared, or it is refused (the packets of `Refused`)
and its context stays, with the lengths and the first fragment of the packet it had before.
`ClearContext` therefore keeps the lengths, `first_frag` is NULL where the
first fragment is not that of the context's packet, and `of` is the packet that took the context.
`reassembled_len` of a cleared context counts no further than `MaxLength`; a
wrap of its 16 bits is not modelled.

**`Coffee`: `storage/cfs/cfs-coffee.c`.** `flash` has a header, a unit of data
and the log records of each page; `files`, `fds`, `next_free` and `gc_wait` are
the C variables. Each call is an operator on a record of the file system, named
as in C, and the operators call each other as the functions do. Every write to
the flash goes through `Written`, which remembers the flash before it, so that
`GoesDown` can stop a call before any of its writes; `Restart` is a reboot
between two calls. A node that went down stays down: the crash properties speak
of what is on the flash then.

## 4 Runs, bounds and what they show

| Run | Module | Asks | Bounds, and why they are enough |
|---|---|---|---|
| `Process` | `Process` | who is current, one activation, list against states, no lost poll, broadcasts, FIFO, polls delivered, events taken | 2 processes, 2 events, one call per activation: nested synchronous post, start, exit and broadcast, a process that leaves, starts or exits before, at and behind the cursor of a loop, a full queue, a queue that wraps, polls between any two steps. The five invariants are proved for any number of processes (section 7). |
| `Etimer` | `MCEtimer` | no missed timer, promptness, sound list, implements `TimerService`, an expired timer is posted | 2 timers (cursor and predecessor, unordered expiries), 2 processes, a clock of 8 that starts at 6 and ticks twice (it wraps), a queue of 2 of which others fill 1: it is full when a timer expires. Intervals 1 and 2, so that one timer is overdue while the other is two ticks away; an adjustment of 1. (With 0 and 2 all properties hold too.) |
| `Ctimer` | `MCCtimer` | list against etimers, callbacks neither early nor missing | 2 ctimers, intervals 1 and 2, 4 ticks: set before and after the process starts, stop and reset in every phase. |
| `CtimerEarly` | `MCCtimer` | `NotEarly` with `set_queued` (fails, section 6) | as above |
| `ProcessMutex` | `ProcessMutex` | exclusion, wake-ups | 3 processes (one inside, one named, one not named), queue of 3: a dropped post and a broadcast behind another event. |
| `MacLink` | `MCMacLink` | nothing leaks, counters, order, one report each; delivered again, or dropped though new, only in the named cases | 4 frames: 2 to the receiver, 1 broadcast, 1 to another node; 2 blocks, 2 frames per queue, 2 of each pool, a table of one entry and another node that sends, 2 sequence numbers: every refusal and give-up, partial allocations, an entry freed and taken again, retransmission after a lost or mistaken acknowledgment with a broadcast in between, eviction, ageing, numbers that come round. |
| `Sixp` | `Sixp` | one transaction per peer, CLEAR, when `mac_callback` dangles, answers match, every block returns | both ends initiate, 2 blocks per node, 3 transactions, SeqNums up to 2, which come round, 2-step, 3-step and CLEAR, one restart, every frame lost, refused or late, answers before reports, time-outs under a frame. |
| `SixpLate` | `Sixp` | `NoLateAnswer` (fails, section 6) | both ends initiate, one block per node, 5 two-step transactions, SeqNums up to 6 that do not come round, no reboot and no CLEAR |
| `TschQueue` | `MCTschQueue` | every packet in one place, FIFO of the ring and of the whole way, callbacks come | 4 packets: two to a neighbor on the shared link (one transmitted twice), one to a neighbor with its own link, a broadcast; 3 neighbors, rings of 4 (3 packets, which wrap as 4 pass), a backoff of 1 or 2 slots: neighbors come and go while slots, flushes (of the packet on the air too) and the pending process run. |
| `Reassembly` | `MCReassembly` | what is passed up, accounting, expired contexts freed | 2 senders, packets of 2 and 3 fragments, one of them with a refused first fragment, 2 contexts, 2 buffers, 2 tags: both run out, tags collide, a context is taken with the lengths of another packet in it; packets are sent for ever. No packet of the run is larger than `uip_buf` (the theorems cover that). |
| `Coffee` | `MCCoffee` | contents kept, a crash leaves a copy, nothing dangles | 4 sectors of 2 pages, a file of 2 units that starts with room for 1, logs of 2 records, 3 cached files, 2 descriptors; it may be reserved with 4 pages and grow in its log; another file of 4 pages: logs fill and merge, files are extended, the flash runs full, obsolete extents cross sectors and are collected. |
| `CoffeeScan` | `MCCoffee` | `QuickSkip` (fails, section 6) | 3 sectors of 4 pages, files of 3 pages |

`RingBufIndex` is checked as a part of `TschQueue` (`FifoSpec`), `Csma` as a part
of `MacLink`.

`CHECK_DEADLOCK FALSE` is where a run may rightly stop: the clock of a run has
reached its bound (`Etimer`, `Ctimer`, `CtimerEarly`), all frames are reported
(`MacLink`), all transactions are made and gone (`Sixp`, `SixpLate`), or the node went down
(`Coffee`, `CoffeeScan`). In `Process` every thread may always yield, so deadlock
is checked; so it is in `ProcessMutex`, `TschQueue` and `Reassembly`. Symmetry
(of the data written in `Coffee`) is used in safety runs only.

What the properties say is in the comment above each. The ones to know:

* `NoLostPoll` and `PollDelivered`: `do_poll` clears `poll_requested` before it
  starts and each flag before it calls, so a poll that comes at any point, even
  behind the cursor, is served in this round or in another one.
* `BroadcastExact`: although `do_event` reads `p->next` after the call and polls
  start and end processes in between, whoever is there throughout gets the
  event, and gets it once. It relies on a removed process keeping its next
  pointer (`NextForgotten` is the mutant).
* `NoMissedTimer`: between a change of the list and the new `next_expiration`
  the clock may pass a timer's expiry, and `update_time` would then take it for
  one a whole turn ahead. The poll that `add_timer` requests first, and the
  second scan after every post, are what saves it.
* `NoLostWakeup`: a waiting process is in the mutex, or an event for it is
  queued or being delivered, whoever took the mutex in between; unless the
  queue was full, for the unlock ignores `process_post`'s answer (`dropped`).
* `NothingLeaks`, `InOrder`, `RetriesCounted`: the entries, pools, queues and
  counters of CSMA agree after partial allocation, refusal and giving up (the
  mutant of the first frees one of two).
* `NotAgain`: a retransmission is dropped, unless the receiver's one number for its
  sender was displaced: another frame of the sender was registered, as many
  other senders as the table has entries, or the entry is too old. `DroppedIsRound`: a
  new frame is dropped only for a frame a whole round of numbers away. Both name the
  cases in which the code does otherwise, and the run reaches all of them.
* `NoDanglingCallback`: the block of a frame that the MAC has is its
  transaction's but in three cases, which the code does not prevent: that
  transaction took an answer first, timed out, or got the report of another's
  frame, whose block it had been given. `AnswersMatch` and `TransEnds` are the other
  two ways 6P could go wrong when frames and reports come late; they hold with
  dangling pointers too.
* `Owned`: a packet of TSCH is in its neighbor's queue or on the ring of
  dequeued packets, never in both nor in none, across the two contexts, until a
  flush frees the packet on the air; it also says that removing a neighbor after the lock was released is safe, for the
  queue is empty and only the main program adds to it.
* `SentComes`: the loop of `tsch_tx_process_pending` and the poll a slot ends
  with miss no packet, whichever comes between the last peek and the return.
* `DeliveredWhole`: `reassembled_len` is only a sum. It is the right sum
  for a packet whose first fragment was taken, unless another fragment was stored twice: then
  it can be reached with a piece missing. Of a packet whose first fragment was
  refused it is no sum at all. What holds in all cases is that the packet fits
  and that no stored fragment is another packet's; see section 6.
* `FilesKept`, `CrashKeepsCopy`: what is read is what was written last, through
  log, merge, extension, collection, eviction from the cache and restart; and
  merging copies before it removes, so that a crash leaves an extent with the
  contents, although perhaps two of one name.

## 5 Fairness

* `Process`: `WF(Step)`. The CPU runs on and every thread returns. Nothing is
  assumed of interrupts, which may poll for ever: `EventTaken` holds because
  `process_run` serves polls once and then one event.
* `Etimer`: `WF(Running)`, the steps of a handler; `SF(Poll)` and `SF(Deliver)`,
  as `process_run` comes back to both although calls and other events disable
  them for a time; `WF(Tick)`. `ExpiredIsPosted` needs a queue that other events
  do not fill, and intervals that are not 0: a timer that is set again with
  interval 0 on each event stands at the head of the list and starves others.
* `Ctimer`: `WF` of the start of `ctimer_process` and of deliveries, `SF` of an
  etimer that is due (which is `ExpiredIsPosted`).
* `ProcessMutex`: handlers yield (`WF`), the kernel delivers (`SF`, since a poll
  of another process may run in between) and a broadcast goes on (`WF` per
  receiver). A process that holds the mutex need not release it.
* `MacLink`: a timer that is set fires (`WF` per entry). Nothing is assumed of
  the link.
* `TschQueue`: `WF` of the main program and of the end of a slot; `SF` of the
  slots of each link, since the schedule comes round again and again, not always
  while the main program holds the lock.
* `Reassembly`: packets are sent again and again and the MAC gets done with
  frames (`WF` of `Sends` and of `Leaves`), and of the first fragments
  sent some arrive (`SF`): the code frees an expired context only when a
  fragment comes. No timer need expire: the property speaks of those that have.
* `Sixp`: the system does not stop while a ctimer is to fire or the MAC has a frame to
  report (`WF` of `Progress`, one for all of them: as every run of the module
  comes to an end, that is enough). Nothing is assumed of the link or of the
  scheduling function.

## 6 Findings

**Checked by a run.** `CtimerEarly`: `ctimer_process` takes a TIMER event for
the setting that is on the list. If the event of an earlier expiry still waits
in the queue when the ctimer is stopped and set again (or is set again without
a stop), the callback is made early, and the event of the new setting is
ignored later. With the liberty `set_queued` withheld `NotEarly` holds.

`CoffeeScan`: the collector erases a sector when nothing in it is active. The
tail of an obsolete extent is marked as isolated only when the sector of its
header is erased (`cfs-coffee.c:381`). If that sector stays, because it holds an
active file too (`:370`), a later sector that holds only the tail is erased
without a mark, and the next file goes there. `next_file` (`:413`) then jumps
from the obsolete header over the new file: it is served from the cache as long
as it is there, and cannot be found afterwards. In `Coffee` every extent starts
and ends with a sector, and no such tail exists.

`SixpLate`: the comment at `sixp.c:497` says why `sixp_output` increments
`next_seqno` at once: "If the next request has the same seqno as the previous
request, a delayed response, which is for the previous transaction, may be
handled mistakenly for the next request when the previous transaction is
expired." It still may. A node keeps one `next_seqno` per peer for both directions, and
when it has sent a response, `sixp_trans_transit_state` "override[s] next_seqno
with the one in the request" plus one (`sixp-trans.c:269`), also with a smaller one. In the run, a's
second request (SeqNum 1) is heard by b, which is in a transaction of its own
and queues a rejection behind its request (SeqNum 0); the acknowledgments are
lost and a's transaction ends. Now a answers b's request, and its `next_seqno`
goes from 2 back to 1. Its next request has SeqNum 1 again, and takes the old
rejection, which only now comes, for its own answer. (A report that goes to another's
transaction sets SeqNums too; `NoLateAnswer` leaves those behaviours out, so the run shows the
one that needs no dangling pointer.) An SF would
believe the wrong outcome: the peer may accept and schedule what this node takes
for refused. The proof of `AnswersMatch` is what led here: an earlier form
of it passed only because a run with three transactions is too short for this.

**Met while modelling; each follows from the named change of a configuration.**

* `Process`, `Liberties = {"exit_called"}` violates `ListedIsRunning`
  (`process.c:216`). `process_exit` of a process that is being called (itself,
  or one further up the stack) unlinks it, and when its thread then waits,
  `call_process` sets its state to RUNNING: it runs and is not listed.
  `process.h:387` allows the currently executing process as the argument. No
  process of the repository does it.
* `Process`, `{"leave_in_exited"}` violates `ListedIsRunning`
  (`process.c:244`): `do_poll` does not look at the state of the process it
  calls, so one that ended in its EXITED handler while the loop stood before it
  is called again. No process of the repository ends there.
* The EXITED announcement (`process.c:190`, `:206`) passes over processes that
  are being called, because `call_process` calls only those in state RUNNING.
  The documentation says "Delivered to all processes about an exited process"
  (`doc/programming/Processes-and-events.md:107`). `tcpip_process` posts
  synchronously and can be up the stack when a process ends, and then keeps its
  connections. This is the code's behaviour in the model and no property
  promises otherwise.
* `Process`, `{"busy_exit"}` violates `OneActivation`: `exit_process` calls the
  thread with EXIT without setting its state to CALLED (`process.c:166`), so if
  the handler calls another thread that posts synchronously to it, it is entered
  a second time. `{"restart_cursor"}` violates `BroadcastExact`: a process that
  ends in a broadcast and is started again before the loop goes on is now at the
  head of the list, and the loop follows its new next pointer and delivers to
  others twice. The same happens one step away: the cursor of a loop is at a
  process that has exited, whose stale next pointer leads to the process that is
  started again. The proof of `BroadcastsAreExact` needed this case excluded
  too, so `MayStart` speaks of all a cursor can still reach (`ReachFrom`). With
  either liberty, the other invariants of the run still hold. No process of the repository does either.
* `Etimer`, `Diff = {7}` (an adjustment by -1) violates `NoMissedTimer` and `ExpiredIsPrompt`
  (`etimer.c:209`): `etimer_adjust` recomputes without a poll, and a timer that
  is now in the past is taken for one a turn ahead. `Liberties =
  {"adjust_ahead"}` violates `ServiceSpec` (`etimer.c:208`): a start in the
  future counts as expired at once. `etimer_adjust` has no caller.
* `MacLink`: "the last few ones we saw" (`mac-sequence.h:63`) is one number per sender
  (`mac-sequence.c:96-129`), so a retransmitted frame is delivered a second time
  once another frame of its sender, a broadcast for example, was registered after
  it, or enough others pushed the entry off the table, or its age is over
  `SEQNO_MAX_AGE` (the time is that of the first registration: a duplicate does
  not refresh it). These are the three disjuncts of `Displaced`, and in the run each occurs.
* `MacLink`: the number advances with every frame, to anyone, refused ones
  included, so that two consecutive frames to a receiver can be a whole turn of
  the 8-bit number apart within the age limit: the second is dropped though its
  sender is told OK. That is what `DroppedIsRound` leaves open.
* `MacLink`: any frame of three bytes with the right third byte is taken for the
  acknowledgment (`csma-output.c:229-232`), so that OK does not say that the receiver
  has the frame. No property says it does.
* `Sixp`: the comment at `sixp-trans.c:126`, "memory is freed later, when mac_callback
  in sixp.c is called", does not hold in general: `sixp_trans_free` defers in the sending
  states only, and it is reached in TERMINATING. Three things get there with a frame in the
  MAC: an answer that is processed first (`sixp-trans.c:244` admits it, and `tsch.c:980`
  passes on what was received before what was sent; a lost acknowledgment and
  a retransmission are enough), a time-out, which does not look at the MAC
  (`sixp-trans.c:81`), and the report of a frame whose block was given to this
  transaction. The block is then free, or another transaction's, when
  `mac_callback` gets it. All three are behaviours of the run, and `NoDanglingCallback` says
  there is no fourth.
* `Sixp`: `AnswersMatch` is stated for runs without a reset in which no SeqNum
  went back. Once a node has started anew or a CLEAR was asked for, SeqNums are
  used again and a late answer fits; without either condition TLC finds it.
* `TschQueue`: `InFlightKept` fails with the constants of the run.
  `tsch_queue_remove_packet_from_queue` (`tsch-queue.c:298`) and
  the slot operation test `tsch_is_locked`, and the comment at
  `tsch-slot-operation.c:182` says "TSCH is locked during slot operations", but a
  slot operation never sets `tsch_locked`; it only keeps `tsch_get_lock` waiting.
  `tsch_queue_free_packets_to` does not take the lock, so a flush during a Tx
  slot to the same neighbor calls the callback of the packet on the air and frees
  it, and `tsch_queue_packet_sent` then removes the next packet, or none. It has
  one caller, `orchestra-rule-unicast-per-neighbor-rpl-storing.c:155`, when a
  child loses its link. The flush is in the run; where it frees the packet on
  the air the behaviour ends (`torn`).
* `Reassembly`: `NoPreviousData` fails with the constants of the run.
  `input` takes a context for a first fragment before it looks
  at its header, and keeps it when the header is refused (`sicslowpan.c:1969-2045`): `first_frag` and
  `reassembled_len` are then those of the packet the context had before, and
  following fragments complete it with them. The comment at `sicslowpan.c:429`
  says "Ensure that no previous data is used for reassembly in case of missing
  fragments". `Accounted` and `DeliveredWhole` except such contexts from what cannot hold of them.
* `Reassembly`: a fragment the MAC delivers twice is stored and counted twice
  (`sicslowpan.c:400`), and the packet may be passed up with a piece missing,
  which is zero in `uip_buf`. `DeliveredWhole` excepts exactly this.
* `ProcessMutex`: `process_mutex_unlock` ignores the answer of `process_post`
  (`process-mutex.c:72`): with a full queue the waiting process is not told, and
  the mutex has forgotten it. `NoLostWakeup` and `FreeIsTaken` without the condition
  on `dropped` fail with the constants of the run.
* `Coffee`, 3 sectors of 4 pages and `DynPages = 3` violates `FilesKept`, for the
  reason of `CoffeeScan`.
* `Coffee`: a node that goes down in a merge restarts with two extents
  of one name, one that goes down in `cfs_remove` between the log and its file
  with a file whose log is gone, which `remove_by_page` refuses
  (`NothingDangles` and `FilesKept` speak of nodes that did not go down).
* `find_contiguous_pages` (`cfs-coffee.c`) refuses an extent that ends exactly
  with the flash. `reserve` writes the header of an extent before it looks for a
  slot in `coffee_files`, so that with all slots referenced an extent stays that
  nobody knows of; `Coffee` has slots enough.
* `doc/programming/Coffee.md:31` says that opening with `CFS_WRITE`
  and without `CFS_APPEND` truncates the file; `cfs_open` does not, and neither
  does the model.
* `sixp.c:107` says that a response may be retransmitted in the same
  transaction; after a failed transmission the state stays RESPONSE_SENDING, in
  which `sixp_output` refuses one (`sixp.c:406`). This is visible in `Accepts`.

## 7 Proofs

The theorems hold for every value of the constants that satisfies the named
assumptions, checked by `tlapm` to the last leaf. Each module of proofs EXTENDS the module
it is about. *If* names a hypothesis of the theorem itself, beyond the
assumptions on the constants.

| Module | Theorem | States | If |
|---|---|---|---|
| `ProcessProofs` | `TypeCorrect` | `[]TypeOK` | |
| | `ImplementsFifo` | `FifoSpec` | |
| | `CurrentHolds` | `[]CurrentIsExecuting` | |
| | `ListHoldsRunning` | `[]ListedIsRunning` | `Liberties = {}` |
| | `OneActivationHolds` | `[]OneActivation` | `Liberties = {}` |
| | `PollsAreKept` | `[]NoLostPoll` | `Liberties = {}` |
| | `BroadcastsAreExact` | `[]BroadcastExact` | `Liberties = {}` |
| `EtimerProofs` | `EtimerTypeCorrect` | `[]TypeOK` | |
| | `ListStaysSound` | `[]ListSound` | |
| | `NoTimerMissed` | `[]NoMissedTimer` | `Spans` |
| | `ExpiredIsPolled` | `[]ExpiredIsPrompt` | `Spans` |
| | `ImplementsService` | `ServiceSpec` | `Spans` |
| `ServiceProofs` (callback timers) | `ListMatches` | `[]EtimersMatch` | no `set_queued` |
| | `CallbackNotEarly` | `NotEarly` | no `set_queued` |
| `ServiceProofs` (process mutex) | `MutexTypeCorrect`, `Exclusion`, `WakeupNotLost` | types, `[]MutualExclusion`, `[]NoLostWakeup` | |
| `TschQueueProofs` (ring) | `TypeCorrect`, `PeekHolds`, `SlotsStayDisjoint`, `ImplementsFifo` | types, `[]PeekStable`, `[]SlotsDisjoint`, `FifoSpec` of `RingBufIndex` | |
| `TschQueueProofs` (TSCH) | `PacketsAreOwned` | `[]Owned` | |
| | `RingIsFifo` | `FifoSpec` | |
| | `PacketsInSequence` | `InSequence` | |
| `MacLinkProofs` | `CsmaTypeCorrect` | `[]TypeOK` | |
| | `PoolsNeverLeak` | `[]NothingLeaks` | |
| | `RetriesAreCounted` | `[]RetriesCounted` | |
| | `SentInQueueOrder` | `InOrder` | |
| | `NotDeliveredAgain` | `[]NotAgain` | |
| | `DroppedInRoundOnly` | `[]DroppedIsRound` | |
| `SixpProofs` | `SixpTypeCorrect` | `[]TypeOK` | |
| | `OneTransactionPerPeer` | `[]OnePerPeer` | |
| | `ClearingKeepsZero` | `[]ClearKeepsZero` | |
| | `AnswersAreMatched` | `[]AnswersMatch` | |
| | `CallbacksAreBound` | `[]NoDanglingCallback` | |
| `ReassemblyProofs` | `EverythingIsAccounted` | `[]Accounted` | |
| | `DeliveredIsWhole` | `[]DeliveredWhole` | |

The hypotheses are what the code needs; section 6 has a counterexample for the
lack of each.

* `Liberties = {}` of `Process`: threads keep to the discipline that every process of the
  repository keeps to (they do not exit a process that is being called, and so on).
* `Spans`: an interval, also with what `etimer_adjust` adds, is less than half a
  turn of the clock, and a start is not moved into the future. `ClockAssumption`
  also limits a run to less than half a turn, wherever on the clock it starts. The code has
  no other means to tell an expired timer from one far ahead, so a model that
  runs on would have to assume that no expired timer waits that long.
* no `set_queued`: nobody sets a ctimer while the event of its earlier setting
  is queued.

How the proofs go:

* *Process, types.* `TypeOK` is inductive. A lemma for each helper (`PushIs`,
  `CallIsTyped`, `ExitIsTyped`, `ServePollsIsTyped`, ...) says what it does to
  the stack; one step per action then follows.
* *Process, FIFO.* `Waiting` is `Contents` of a ring; only `process_post` and
  `DoEvent` change it. `DataLemmas` shows once that writing the free place
  appends and moving the first index drops the head; `TschQueueProofs` uses
  the same lemmas.
* *Process, current.* `CurrentIsExecuting` is not inductive: when a nested call
  returns, `process_current` is what a frame saved. `Saved` adds `Covered`: the frame
  directly above a thread that is not executing is the call it made, and saved
  that thread's process. The `Saved...` lemmas say that pushes, pops,
  calls and moves of the top keep it, and each action is one of them.
* *Process, list, activations, polls, broadcasts.* One inductive invariant, `PInv`,
  for all four: none is inductive alone, since the cursors on the stack, the list
  and the states change together. `Chain` says that the list has no cycle and
  holds who runs; `Good` relates the frames to the rest: a process is CALLED
  exactly while a frame is its activation or the end of one (`Active`), which
  frames may lie above which (`Shape`), `do_poll` stands on the list (`Cursors`), a
  wanted poll is ahead of a cursor or requested (`Kept`), and a broadcast's
  cursor reaches those it owes the event and none it has served (`Exact`). The
  stack matters only as a set of marks, so a step is a lemma on that set.
* *Etimer, list.* `SoundInv` adds to `ListSound` that the list is acyclic: the
  list lemmas then say that putting a timer at the head, taking one out and
  purging a process' timers do just that to the set of listed timers, also when the scan stands
  on one of them.
* *Etimer, time.* In `TimeInv` a time of the clock is compared through its distance, never
  its value. `NoMissedTimer` is not inductive, as `CLOCK_LT` may hold of two
  times half a turn apart. `Covered` says more: `next_expiration`, and the
  time `update_time` has computed and not yet stored, lie at most an interval
  before the expiry. A tick then reaches `next_expiration` before the expiry,
  and polls.
* *Etimer, service.* Every step of the code is a step of `TimerService` or
  leaves `DueTimes`, `Owners`, `now` and the queue as they are. Setting a timer arms it,
  a scan that posts fires it, a purge disarms all of one owner; a tick changes
  the distance of every expiry by one and `now` by one, so no due time moves.
  `Ctimer` is built on `TimerService`, so its theorems hold over `etimer.c` wherever
  `Spans` does.
* *Ctimer.* `CInv` puts each ctimer in one of four stages (its etimer runs; its
  event is queued and due; it was stopped with its event queued; nothing is
  left). A running etimer has no event queued: that is what keeps a callback
  from being made for an older setting.
* *RingBufIndex.* `PeekStable` with `TypeOK` is inductive: each side only makes
  the other's condition more true. `SlotsDisjoint` follows from it, and FIFO
  from both, because a `Fill` writes outside `Waiting`.
* *TschQueue.* `OInv`. `Steps` ties the two contexts together: a slot transmits
  exactly while the producer has a place on the ring, never under the lock, the
  consumer is where `tsch_tx_process_pending` is, and a packet on the air can be
  freed only until the slot is done with it. `OnAir`: until that happens it is the
  first of its neighbor's queue. `Jobs` says what the main program may
  rely on after an interrupt: the packet it is about to queue is new, the neighbor it is
  about to remove has no packets (the lock was released before, but only the main program
  adds). `InPlace` says of the queues, the
  ring and the memory what `Owned` says by counting; one lemma for each way a
  packet moves (added, moved to the ring, called, flushed) keeps it, and all
  other steps leave it alone.
* *TschQueue, order.* `Flow` says that a step moves packets in one of four ways: one is
  added behind a queue, the head of a queue goes to the end of the ring, the
  first of the ring is called, or a queue is flushed. It is proved with `OInv`, from the
  same lemmas. `To(n, s)`, the packets of a sequence that go to `n`, has one
  lemma for an append and one for a tail, so that a move from queue to ring leaves
  `Pipe(n)` as it is and every other way is a step of the FIFO. That it has room is
  `PipeIs`: by `OInv` a packet is on the pipe once and only if it is in
  `packet_memb`, which has `QUEUEBUF_NUM` places.
* *ProcessMutex.* The inductive invariant of `WakeupNotLost` is `WInv`: `TypeOK`,
  `NoLostWakeup` and `Named` (when more than one process waits no name is left,
  so that an unlock posts to all). The steps that matter are the unlock, whose
  event has to reach whoever was known, and the delivery, which hands a queued
  event on to `receivers`.
* *Csma.* `PInv`: an entry is live while its queue holds something (`EntriesLive`),
  and what the pools lack is the number of places that are held. `RInv` adds
  where each frame is (`Placed`) and what the shared counters of an
  entry mean for the frame at its head (`Counts`): those behind it have
  not been tried.
* *MacLink.* Both theorems are about the table, and rest on one invariant, `LInv`:
  it has one entry per sender and no more than `MAX_SEQNOS` (`Table`); numbers are
  given once and in order, and a sequence number is such a number modulo `DsnSize`
  (`Numbered`); the entry of the sender has the sequence number of the frame that was
  registered last, which was delivered (`Latest`); and as long as fewer others than the
  table has entries registered after it, the entry is there, behind exactly
  those (`InPlace`). A frame delivered twice was then displaced, and one that is
  dropped though new has the sequence number of another that was delivered.
* *Sixp.* `SInv` is one statement per node, `Kept(n, Local(n))`, about the record the handlers
  pass on, so that each C function has one lemma saying it keeps it, and a handler is
  their composition. With the pool as it is, a new transaction is
  made only where none is listed for the peer. For `ClearKeepsZero` the peer is
  marked from a received CLEAR until its transaction ends, and no write of a SeqNum passes the mark.
* *Sixp, answers.* `AnswersMatch` speaks of one step; what makes it true is spread over
  both ends. `Tellable` says that every SeqNum of a request anybody still
  knows of (a transaction, or a frame of either queue) is smaller than its
  maker's `next_seqno`, and that two of one node to one peer with the same
  SeqNum are about the same request. It is inductive as long as no number goes back, which is why
  `AnswersMatch` names `receded`, and it needs to know that an answer's
  SeqNum is that of the request it answers, through the transaction at the peer.
* *Sixp, callbacks.* `Backed` (in `Sound`) says that each frame with a callback has its
  transaction in its block, waiting in the state of sending this frame alone, unless it is
  `Exempt`: its transaction went on without it. The proof follows the id of a
  frame through each C function: a transaction that leaves a sending state without
  the report of its frame does so by an answer or a time-out, which
  notes the id, or by a report that is not its own, of a frame that is noted itself.
* *Reassembly.* `RInv` has three parts. `Flight` and `Distinct`: what the MAC has from one
  node for another is of one packet under one tag, which nothing else of that node has.
  `Sound` and `Waits` are `Accounted` and the identity of what is stored: a context is
  of the packet whose fragment took it (`of`), each of its buffers holds a fragment of that
  packet, and so does `first_frag` unless the first fragment was refused. `Matches`
  ties the two: a fragment still under way under a context's tag is of the context's packet,
  for a tag is taken only when no context of the sender has it. That a
  packet is whole when the lengths add up is arithmetic: `PayloadsAre`,
  `MiddlesIs` and `FragmentsAre` say what length each fragment has (all of a packet's
  are positive, and together they are `uip_len`), and `WholeIs` that different
  fragments of a packet reach that sum only if all are there. Sums over
  finite sets are `MapThenSumSet`, a recursive function over subsets; `SumIs` and
  `SumUnique` characterise it, by a least counterexample (`LeastOf`) instead of induction.
* *DataLemmas on lists.* Only traversal by a least set is needed: what `Reachable`
  gains and loses when a node is put at the head, unlinked or given another
  successor, that of two nodes on a list one comes after the other, and that
  one that is taken out keeps its way to the rest.

What proving changed. `Liberties` of `Process` became stricter (section 6). In
`Sixp` two CASE expressions had arms that overlap, of which TLC takes the first
and the logic any: they are IFs now. `ExpiredIsPrompt` had an alternative, that
the next tick polls, which the proof never used; without it the property is
stronger, and TLC and the proof agree. `AnswersMatch` had no condition on SeqNums that
go back: its failed proof gave `SixpLate`. `NoDanglingCallback` was once limited to nodes that
do not reboot or send a CLEAR, which the proof never used; what it needs is what the property
now names, that the transaction of the frame went on without its report. `PoolsAccounted` names the
places held, so that their number can be reasoned about. `Reassembly` had no assumption that
packets are ones `output` fragments: a packet that fits one frame would have had a first
fragment longer than itself, which the code never makes. In `TschQueue` the
FIFO of `InSequence` had room for all packets there are; its bound is now the packet memory,
which says more, and `To` has taken the place of `SelectSeq`, which the provers cannot
expand. `Ctimer` and `ProcessMutex` now name the kernel by the same constants
(`Kernel`).

## 8 What is only model-checked, and what is not modelled

*Only model-checked:* liveness (`PollDelivered`, `EventTaken`, `ExpiredIsPosted`,
`CallbackComes`, `FreeIsTaken`, `SentIsReported`, `TransEnds`, `SentComes`,
`ExpiredIsFreed`) and anything about ENABLED are outside what TLAPS 1.4.5 proves.
The safety properties without a theorem are those of `Coffee`: `FilesKept`, `CrashKeepsCopy`
and `NothingDangles`. What they say of files found again rests on scans of the flash (`next_file`, the collector,
the search for free pages), which are recursive functions over pages and sectors: what
each of them finds would need an induction of its own, by a least counterexample as for
the sums of `Reassembly`. And
they are not true of every flash: where extents do not start and end
with a sector the collector hides files (`CoffeeScan`), and where all slots can
be referenced an extent is lost (section 6). A theorem would have to assume that
all extents are whole sectors and that `COFFEE_FD_SET_SIZE` is less than
`COFFEE_MAX_OPEN_FILES`. No `cfs-coffee-arch.h` of the repository is so: sky has
logs of 1024 bytes in sectors of 65536, 8 descriptors and 6 slots; cc2538 logs of
half a sector, 5 descriptors and 5 slots. The assumptions would exclude
every platform, so the instance of the run is all that is claimed.

`TypeOK` of each module with proofs, and `PeekStable` and `SlotsDisjoint` of
`RingBufIndex`, are proved for every value of the constants and not run.

*Left out of the modelled components:*

* `Process`: event numbers (`process_alloc_event`), the data pointers of events,
  `process_start`'s INIT argument, the names of processes. A thread's code is
  any sequence of at most `MaxOps` calls.
* `Etimer`: torn reads of a 64-bit clock on a 32-bit CPU; the sleep of the port.
* `Ctimer`: what happens to a ctimer whose process has exited (it still calls
  back, in that process' context); the order of the list.
* `Csma`: backoff delays, the frame's content, acknowledgment frames, the
  number of queuebufs others use (a buffer may always be missing).
* `MacLink`: one sender is modelled, others are noise. Ages are a nondeterministic
  choice: any entry may be too old at any time.
* `TschQueue`: the time source, EBs, bursts, joining and leaving, the order of
  the neighbor table (any unicast packet may be chosen), what an Rx slot hears,
  the timeout of `tsch_get_lock` when TSCH is not associated, and what a slot does with
  a packet after a flush freed it.
* `Reassembly`: header compression but for the lengths it makes, packets in one
  frame, fragments larger than a buffer; 16-bit tags are those not in use. Which first
  fragments are refused is a constant (`Refused`), and `reassembled_len` does not wrap.
* `Coffee`: seeking past the end of a file, `io_flags`, configured log sizes, logs
  longer than `COFFEE_LOG_TABLE_LIMIT` records (`find_next_record`), directories,
  formatting, and the reluctant collection after a removal, which
  `COFFEE_EXTENDED_WEAR_LEVELLING` turns off; a byte is a unit of a log record and
  of a page. What a node does after a crash in the middle of a call is not
  explored, only what is on its flash.
* `Sixp`: packet formats, return codes and cell lists except where they decide
  the number of steps; the capacity and garbage collection of neighbor tables;
  the callbacks of scheduling functions, which do not change 6P state.

*Components not modelled:* see the table of section 1 and the notes under
`components` in `PROJECT.json`. Formatting, cryptography, drivers, slot timing
and floating-point estimation are outside what TLC can usefully explore; the
rest is planned.

## 9 Plan

In this order; the first two groups are done.

1. Kernel and timers: `Process`, `Etimer`, `TimerService`, `Ctimer`,
   `ProcessMutex`, `RingBufIndex`. MAC: `Csma`, `MacLink`, `Sixp`.
2. `TschQueue` over `RingBufIndex`, `Reassembly`, `Coffee`.
3. `NbrTable`: keys, bitmaps of used and locked entries, eviction, callbacks.
   A locked entry stays; an index is never shared by two keys.
4. `Trickle` over `TimerService`, with the callback that calls back in.
5. `CoapObserve`: transactions, retransmission, observers removed in a loop.
6. `RplLite`: ranks, parent switches, versions, DAO sequence numbers (lollipop).
7. Neighbor discovery (NUD), `list.c`/`memb.c`/`heapmem.c` as data modules, the
   HMM link contexts, a composition of `Process`, `Etimer` and `Ctimer`.

Theorems next: those of the modules of groups 3 to 6. For `Coffee` first an
invariant of the flash that holds with extents across sector borders and says
which files the collector can hide.
