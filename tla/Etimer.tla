--------------------------------- MODULE Etimer --------------------------------
(***************************************************************************)
(* os/sys/etimer.c with the timer it is built on (os/sys/timer.c) and the  *)
(* tick interrupt that drives it (arch/cpu/nrf/sys/clock-arch.c).          *)
(*                                                                         *)
(* Event timers are on a linked list in no order; next_expiration is the   *)
(* time of the first.  The tick interrupt compares it with the clock and   *)
(* polls etimer_process, which then scans the list and posts a TIMER event *)
(* for every expired timer.  The clock may tick between any two steps: in  *)
(* a scan, after a timer was started and before update_time reads the      *)
(* clock, after that and before next_expiration is stored.  It wraps.      *)
(*                                                                         *)
(* Of the process kernel only what etimer.c uses is here: the poll flag of *)
(* etimer_process and the bounded event queue, which other events fill     *)
(* too; see Process.                                                       *)
(***************************************************************************)
EXTENDS Integers, Sequences, FiniteSets, LinkedList

CONSTANTS
  Timer,      (* struct etimer objects                                     *)
  Proc,       (* processes                                                 *)
  User,       (* the processes that set a timer                            *)
  NULL,
  ClockSize,  (* 2^w for a clock_time_t of w bits                          *)
  Boot,       (* the clock's value at the start: it wraps soon             *)
  MaxTime,    (* bound: ticks of a run, less than half of ClockSize        *)
  Interval,   (* the intervals processes ask for                           *)
  Diff,       (* the adjustments processes make                            *)
  NumEvents,  (* PROCESS_CONF_NUMEVENTS                                    *)
  MaxOthers,  (* how much of the queue is filled with other events         *)
  Liberties   (* "adjust_ahead": etimer_adjust may move a timer's start    *)
              (* past the present                                          *)

Clock == 0 .. ClockSize - 1

ASSUME ClockAssumption ==
  /\ ClockSize \in Nat \ {0} /\ Boot \in Clock
  /\ MaxTime \in Nat /\ 2 * (MaxTime + 1) <= ClockSize
  /\ User \in [Timer -> SUBSET Proc]
  /\ Interval # {} /\ Interval \subseteq Clock /\ Diff \subseteq Clock
ASSUME NumEventsAssumption == NumEvents \in Nat \ {0} /\ MaxOthers \in 0 .. NumEvents
ASSUME NullAssumption == NULL \notin Proc \cup Timer \cup Int

VARIABLES
  now,              (* ticks since boot; clock_time is Boot + now, wrapped *)
  timerlist,
  next,             (* et->next                                            *)
  p,                (* et->p, NULL for PROCESS_NONE                        *)
  start,            (* et->timer.start                                     *)
  interval,         (* et->timer.interval                                  *)
  next_expiration,
  poll,             (* etimer_process's needspoll                          *)
  queue,            (* the event queue: [p |-> receiver, et |-> timer]     *)
  alive,            (* the processes that run                              *)
  pc,               (* what the kernel executes                            *)
  ret,              (* where update_time returns to                        *)
  t,                (* etimer_process's cursor                             *)
  u,                (* ... and the timer before it                         *)
  fresh             (* what update_time computed and has not yet stored    *)

list   == <<timerlist, next, p>>
times  == <<start, interval>>
kernel == <<poll, queue, alive>>
flow   == <<pc, ret, t, u, fresh>>
vars   == <<now, list, times, next_expiration, kernel, flow>>

Event == [p : Proc, et : Timer] \cup {[p |-> NULL, et |-> NULL]}

\* arithmetic of clock_time_t
Plus(a, b)  == (a + b) % ClockSize
Minus(a, b) == (a + ClockSize - b) % ClockSize

CLOCK_LT(a, b) == 2 * Minus(a, b) >= ClockSize

clock_time == Plus(Boot, now)
Expiry(et) == Plus(start[et], interval[et])

\* mutant of Expired
ExpiredEarly(s, i, c) == i <= Plus(Minus(c, s), 1)
\* timer_expired for a timer that started at s, when the clock shows c
Expired(s, i, c) == i < Plus(Minus(c, s), 1)
timer_expired(et) == Expired(start[et], interval[et], clock_time)

Visits(c) == Reachable(Timer, NULL, next, c)
Listed == Visits(timerlist)

(* The run starts when every timer was set once, to the shortest interval, *)
(* and that is over: a timer "must be set with etimer_set() before it can  *)
(* be used" (etimer.h:74).                                                *)
Shortest == CHOOSE i \in Interval : \A j \in Interval : i <= j
Init ==
  /\ now = 0
  /\ timerlist = NULL
  /\ next = [et \in Timer |-> NULL]
  /\ p = [et \in Timer |-> NULL]
  /\ start = [et \in Timer |-> Minus(Boot, Shortest)]
  /\ interval = [et \in Timer |-> Shortest]
  /\ next_expiration = 0
  /\ poll = FALSE
  /\ queue = << >>
  /\ alive = Proc
  /\ pc = "idle"
  /\ ret = "idle"
  /\ t = NULL
  /\ u = NULL
  /\ fresh = 0

--------------------------------------------------------------------------------
(* The tick interrupt.                                                     *)

Tick ==
  /\ now < MaxTime
  /\ now' = now + 1
  /\ poll' = (poll \/ (timerlist # NULL /\ ~CLOCK_LT(clock_time', next_expiration)))
  /\ UNCHANGED <<list, times, next_expiration, queue, alive, flow>>

--------------------------------------------------------------------------------
(* update_time: the timer with the shortest distance to go is the next.    *)

update_time(k) ==
  /\ pc' = "update"
  /\ ret' = k

Nearest(D) == CHOOSE d \in D : \A e \in D : d <= e

Compute ==
  IF timerlist = NULL THEN 0
  ELSE Plus(clock_time, Nearest({Minus(Expiry(et), clock_time) : et \in Listed}))

Update ==
  /\ pc = "update"
  /\ fresh' = Compute
  /\ pc' = "store"
  /\ UNCHANGED <<now, list, times, next_expiration, kernel, ret, t, u>>

Store ==
  /\ pc = "store"
  /\ next_expiration' = fresh
  /\ pc' = ret
  /\ fresh' = 0 /\ ret' = "idle"     (* locals of update_time: gone          *)
  /\ UNCHANGED <<now, list, times, kernel, t, u>>

--------------------------------------------------------------------------------
(* The calls of a process.                                                 *)

\* mutant of add_timer
add_timerUnpolled(et, q) ==
  /\ p' = [p EXCEPT ![et] = q]
  /\ IF p[et] # NULL /\ et \in Listed
     THEN UNCHANGED <<timerlist, next>>
     ELSE /\ timerlist' = et
          /\ next' = [next EXCEPT ![et] = timerlist]
  /\ update_time("idle")
  /\ UNCHANGED <<now, next_expiration, poll, queue, alive, t, u, fresh>>

(* add_timer: a timer that its p says is on the list is looked for there   *)
add_timer(et, q) ==
  /\ poll' = TRUE
  /\ p' = [p EXCEPT ![et] = q]
  /\ IF p[et] # NULL /\ et \in Listed
     THEN UNCHANGED <<timerlist, next>>
     ELSE /\ timerlist' = et
          /\ next' = [next EXCEPT ![et] = timerlist]
  /\ update_time("idle")
  /\ UNCHANGED <<now, next_expiration, queue, alive, t, u, fresh>>

\* timer_reset
Restarted(et) == IF timer_expired(et) THEN Expiry(et) ELSE start[et]

etimer_set(et, i, q) ==
  /\ pc = "idle" /\ q \in alive
  /\ start' = [start EXCEPT ![et] = clock_time]
  /\ interval' = [interval EXCEPT ![et] = i]
  /\ add_timer(et, q)

etimer_reset_with_new_interval(et, i, q) ==
  /\ pc = "idle" /\ q \in alive
  /\ start' = [start EXCEPT ![et] = Restarted(et)]
  /\ interval' = [interval EXCEPT ![et] = i]
  /\ add_timer(et, q)

etimer_reset(et, q) ==
  /\ pc = "idle" /\ q \in alive
  /\ start' = [start EXCEPT ![et] = Restarted(et)]
  /\ add_timer(et, q)
  /\ UNCHANGED interval

etimer_restart(et, q) ==
  /\ pc = "idle" /\ q \in alive
  /\ start' = [start EXCEPT ![et] = clock_time]
  /\ add_timer(et, q)
  /\ UNCHANGED interval

etimer_adjust(et, d) ==
  /\ pc = "idle"
  /\ CLOCK_LT(clock_time, Plus(start[et], d)) => "adjust_ahead" \in Liberties
  /\ start' = [start EXCEPT ![et] = Plus(start[et], d)]
  /\ update_time("idle")
  /\ UNCHANGED <<now, list, interval, next_expiration, kernel, t, u, fresh>>

\* the element before et is linked to the one after it
Bypass(et) == [x \in Timer |-> IF x \in Listed /\ next[x] = et THEN next[et] ELSE next[x]]

etimer_stop(et) ==
  /\ pc = "idle"
  /\ timerlist' = IF et = timerlist THEN next[et] ELSE timerlist
  /\ next' = [Bypass(et) EXCEPT ![et] = NULL]
  /\ p' = [p EXCEPT ![et] = NULL]
  /\ IF et \in Listed THEN update_time("idle") ELSE UNCHANGED <<pc, ret>>
  /\ UNCHANGED <<now, times, next_expiration, kernel, t, u, fresh>>

--------------------------------------------------------------------------------
(* etimer_process.                                                         *)

Poll ==
  /\ pc = "idle" /\ poll
  /\ poll' = FALSE
  /\ pc' = "again"
  /\ UNCHANGED <<now, list, times, next_expiration, queue, alive, ret, t, u, fresh>>

Again ==
  /\ pc = "again"
  /\ t' = timerlist
  /\ u' = NULL
  /\ pc' = "scan"
  /\ UNCHANGED <<now, list, times, next_expiration, kernel, ret, fresh>>

ScanEnds ==
  /\ pc = "scan" /\ t = NULL
  /\ pc' = "idle"
  /\ u' = NULL
  /\ UNCHANGED <<now, list, times, next_expiration, kernel, ret, t, fresh>>

ScanPasses ==
  /\ pc = "scan" /\ t # NULL
  /\ ~timer_expired(t)
  /\ t' = next[t]
  /\ u' = t
  /\ UNCHANGED <<now, list, times, next_expiration, kernel, pc, ret, fresh>>

\* mutant of ScanBlocked
ScanBlockedSilently ==
  /\ pc = "scan" /\ t # NULL
  /\ timer_expired(t)
  /\ Len(queue) = NumEvents
  /\ t' = next[t]
  /\ u' = t
  /\ UNCHANGED <<now, list, times, next_expiration, kernel, pc, ret, fresh>>
\* the queue is full: etimer_process asks to be polled again
ScanBlocked ==
  /\ pc = "scan" /\ t # NULL
  /\ timer_expired(t)
  /\ Len(queue) = NumEvents
  /\ poll' = TRUE
  /\ t' = next[t]
  /\ u' = t
  /\ UNCHANGED <<now, list, times, next_expiration, queue, alive, pc, ret, fresh>>

ScanPosts ==
  /\ pc = "scan" /\ t # NULL
  /\ timer_expired(t)
  /\ Len(queue) < NumEvents
  /\ queue' = Append(queue, [p |-> p[t], et |-> t])
  /\ p' = [p EXCEPT ![t] = NULL]
  /\ timerlist' = IF u = NULL THEN next[t] ELSE timerlist
  /\ next' = [x \in Timer |-> IF x = t THEN NULL ELSE IF x = u THEN next[t] ELSE next[x]]
  /\ update_time("again")
  /\ UNCHANGED <<now, times, next_expiration, poll, alive, t, u, fresh>>

\* the first element of S on the list from c
First(S, c) ==
  LET f == S \cap Visits(c)
  IN  IF f = {} THEN NULL ELSE CHOOSE x \in f : f \subseteq Visits(x)

\* mutant of Exited
ExitedHeadOnly(q) ==
  /\ pc = "idle" /\ q \in alive
  /\ alive' = alive \ {q}
  /\ timerlist' = First({x \in Listed : p[x] # q}, timerlist)
  /\ UNCHANGED <<now, next, p, times, next_expiration, poll, queue, flow>>
(* etimer_process gets EXITED for q; the timers of q leave the list.       *)
Exited(q) ==
  /\ pc = "idle" /\ q \in alive
  /\ alive' = alive \ {q}
  /\ LET stay == {x \in Listed : p[x] # q}
     IN  /\ timerlist' = First(stay, timerlist)
         /\ next' = [x \in Timer |-> IF x \in stay THEN First(stay, next[x]) ELSE next[x]]
  /\ UNCHANGED <<now, p, times, next_expiration, poll, queue, flow>>

--------------------------------------------------------------------------------
(* The rest of the system: processes start again, post other events, and   *)
(* the kernel delivers the first event.                                    *)

Started(q) ==
  /\ pc = "idle" /\ q \notin alive
  /\ alive' = alive \cup {q}
  /\ UNCHANGED <<now, list, times, next_expiration, poll, queue, flow>>

Others == Cardinality({i \in DOMAIN queue : queue[i].et = NULL})

PostOther ==
  /\ pc = "idle" /\ Len(queue) < NumEvents /\ Others < MaxOthers
  /\ queue' = Append(queue, [p |-> NULL, et |-> NULL])
  /\ UNCHANGED <<now, list, times, next_expiration, poll, alive, flow>>

Deliver ==
  /\ pc = "idle" /\ queue # << >>
  /\ queue' = Tail(queue)
  /\ UNCHANGED <<now, list, times, next_expiration, poll, alive, flow>>

Scanning == Again \/ ScanEnds \/ ScanPasses \/ ScanBlocked \/ ScanPosts
Running  == Scanning \/ Update \/ Store
Calls ==
  \/ \E et \in Timer : \E q \in User[et] :
       \/ \E i \in Interval : \/ etimer_set(et, i, q)
                              \/ etimer_reset_with_new_interval(et, i, q)
       \/ etimer_reset(et, q)
       \/ etimer_restart(et, q)
  \/ \E et \in Timer : etimer_stop(et) \/ \E d \in Diff : etimer_adjust(et, d)
Processes == PostOther \/ \E q \in Proc : Exited(q) \/ Started(q)

Next == Tick \/ Poll \/ Running \/ Calls \/ Processes \/ Deliver

Spec == Init /\ [][Next]_vars

(* process_run serves a poll, then an event, again and again, and every    *)
(* handler returns; the clock does not stop.                               *)
FairSpec ==
  Spec /\ WF_vars(Running) /\ SF_vars(Poll) /\ SF_vars(Deliver) /\ WF_vars(Tick)

--------------------------------------------------------------------------------
(* Properties.                                                             *)

TypeOK ==
  /\ now \in 0 .. MaxTime
  /\ timerlist \in Timer \cup {NULL} /\ next \in [Timer -> Timer \cup {NULL}]
  /\ p \in [Timer -> Proc \cup {NULL}]
  /\ start \in [Timer -> Clock] /\ interval \in [Timer -> Clock]
  /\ next_expiration \in Clock /\ fresh \in Clock
  /\ poll \in BOOLEAN
  /\ queue \in Seq(Event) /\ Len(queue) <= NumEvents
  /\ alive \subseteq Proc
  /\ pc \in {"idle", "update", "store", "again", "scan"} /\ ret \in {"idle", "again"}
  /\ t \in Timer \cup {NULL} /\ u \in Timer \cup {NULL}

(* No timer is missed: for every timer on the list, the poll is pending,   *)
(* or the scan has yet to see it, or the tick interrupt compares the clock *)
(* with a time that is not after its expiry.  add_timer, update_time and   *)
(* the scan keep this although the clock ticks between all their steps.    *)
ToBeScanned(et) ==
  \/ pc \in {"update", "store"} /\ ret = "again"
  \/ pc = "again"
  \/ pc = "scan" /\ et \in Visits(t)
NoMissedTimer ==
  \A et \in Listed : poll \/ ToBeScanned(et) \/ ~CLOCK_LT(Expiry(et), next_expiration)

(* "When the event timer expires, the event PROCESS_EVENT_TIMER will be    *)
(* posted" (etimer.h:96): whenever a process runs while a timer is expired, *)
(* the poll that will post for it is pending.                              *)
ExpiredIsPrompt == \A et \in Listed : pc = "idle" /\ timer_expired(et) => poll

(* The list is sound while it is scanned and purged.  It holds the timers   *)
(* that are owed to a running process: p of a listed timer is a process     *)
(* that runs, so that no event is posted to one that exited and none to     *)
(* PROCESS_BROADCAST, which NULL is.  The scan's cursors stay on the list:  *)
(* t and, before it, u.                                                     *)
OwnersRun == \A et \in Listed : p[et] \in alive
CursorsListed ==
  pc = "scan" => /\ t # NULL => t \in Listed
                 /\ IF u = NULL THEN t = timerlist ELSE u \in Listed /\ next[u] = t
ListSound == OwnersRun /\ CursorsListed

(* Event timers implement TimerService: a TIMER event is posted only for a  *)
(* timer that is armed, to the process that armed it, not before its       *)
(* interval is over by a clock that wraps, and once for each time it was    *)
(* armed; stopping a timer, or the exit of its owner, disarms it, and only  *)
(* a process that runs arms one (etimer.c:70-140).  That an expired timer   *)
(* is posted is what NoMissedTimer and ExpiredIsPosted say.                 *)
Signed(d) == IF 2 * d >= ClockSize THEN d - ClockSize ELSE d
DueTimes ==
  LET on == Listed
  IN  [et \in Timer |-> IF et \in on THEN now + Signed(Minus(Plus(start[et], interval[et]), clock_time))
                        ELSE NULL]
Owners == LET on == Listed IN [et \in Timer |-> IF et \in on THEN p[et] ELSE NULL]
Service == INSTANCE TimerService
             WITH due <- DueTimes, owner <- Owners, Delay <- -MaxTime .. ClockSize \div 2
ServiceSpec == Service!SSpec

(* A timer that expired while the clock runs is posted, stopped or set     *)
(* again, if the queue has a slot that other events do not fill and as     *)
(* long as no interval is 0: else the other events, or a timer that is set *)
(* again at once and stands at the head of the list, can starve it.        *)
ExpiredIsPosted ==
  \A et \in Timer :
    (et \in Listed /\ timer_expired(et) /\ now < MaxTime) 
      ~> (et \notin Listed \/ ~timer_expired(et) \/ \E o \in Listed : interval[o] = 0)
================================================================================
