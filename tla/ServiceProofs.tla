----------------------------- MODULE ServiceProofs -----------------------------
(***************************************************************************)
(* Theorems about two services that are built on the process kernel.       *)
(*                                                                         *)
(* Callback timers, for any timers, intervals, queue size and length of a  *)
(* run, and for event timers that do what TimerService promises.  They     *)
(* need what the two runs show is needed: that no ctimer is set while the  *)
(* event of an earlier setting waits in the queue.                         *)
(*                                                                         *)
(* The process mutex, for any number of processes and any capacity of the  *)
(* event queue: types, mutual exclusion, and that no wake-up is lost       *)
(* unless an unlock found the queue full.                                  *)
(***************************************************************************)
EXTENDS Ctimer, ProcessMutex, TLAPS

--------------------------------------------------------------------------------
(* Callback timers.                                                        *)

Event == [p : {ctimer_process, NULL}, et : Timer \cup {NULL}]

\* every etimer that runs belongs to ctimer_process
Typed ==
  /\ now \in Nat
  /\ due \in [Timer -> Nat \cup {NULL}] /\ asked \in [Timer -> Nat \cup {NULL}]
  /\ owner \in [Timer -> {ctimer_process, NULL}]
  /\ queue \in Seq(Event)
  /\ initialized \in BOOLEAN /\ ctimer_list \subseteq Timer
  /\ start \in [Timer -> Nat] /\ interval \in [Timer -> Nat]

(* The inductive invariant.  Before ctimer_process runs no etimer does.    *)
(* From then on a timer is in one of four stages: its etimer runs; its     *)
(* event is queued and due; it was stopped with its event in the queue; or *)
(* nothing is left of it.  That a running etimer has no event in the queue *)
(* is what keeps the callback from being made for an older setting.        *)
Before(c) == due[c] = NULL /\ asked[c] = NULL /\ ~Queued(c)
Runs(c) == due[c] # NULL => c \in ctimer_list /\ asked[c] = due[c] /\ ~Queued(c)
Posted(c) == c \in ctimer_list /\ Queued(c) => asked[c] # NULL /\ asked[c] <= now
Expects(c) == asked[c] # NULL => c \in ctimer_list /\ (due[c] = asked[c] \/ Queued(c))

Stages ==
  \A c \in Timer : IF initialized THEN Runs(c) /\ Posted(c) /\ Expects(c) ELSE Before(c)

CInv == Typed /\ Stages

--------------------------------------------------------------------------------
(* What the steps of the queue do to the events in it.                     *)

Has(q, c) == \E i \in DOMAIN q : q[i].et = c

LEMMA HasInTail ==
  ASSUME NEW S, NEW q \in Seq(S), q # << >>, NEW c
  PROVE  Has(q, c) <=> Head(q).et = c \/ Has(Tail(q), c)
<1>1. /\ Tail(q) \in Seq(S) /\ Len(q) \in Nat \ {0} /\ Len(Tail(q)) = Len(q) - 1
      /\ Head(q) = q[1] /\ DOMAIN q = 1 .. Len(q) /\ DOMAIN Tail(q) = 1 .. Len(q) - 1
      /\ \A i \in 1 .. Len(q) - 1 : Tail(q)[i] = q[i + 1]
  OBVIOUS
<1>2. ASSUME NEW i \in DOMAIN q, q[i].et = c, i # 1
      PROVE  Has(Tail(q), c)
  <2>1. i - 1 \in DOMAIN Tail(q) /\ Tail(q)[i - 1] = q[i]
    BY <1>1, <1>2
  <2> QED
    BY <1>2, <2>1 DEF Has
<1>3. ASSUME Has(Tail(q), c)
      PROVE  Has(q, c)
  <2>1. PICK i \in DOMAIN Tail(q) : Tail(q)[i].et = c
    BY <1>3 DEF Has
  <2>2. i + 1 \in DOMAIN q /\ q[i + 1] = Tail(q)[i]
    BY <1>1
  <2> QED
    BY <2>1, <2>2 DEF Has
<1>4. 1 \in DOMAIN q
  BY <1>1
<1> QED
  BY <1>1, <1>2, <1>3, <1>4 DEF Has

LEMMA HasInAppend ==
  ASSUME NEW S, NEW q \in Seq(S), NEW e, NEW c
  PROVE  Has(Append(q, e), c) <=> Has(q, c) \/ e.et = c
<1>1. /\ Len(q) \in Nat /\ DOMAIN q = 1 .. Len(q) /\ DOMAIN Append(q, e) = 1 .. Len(q) + 1
      /\ Append(q, e)[Len(q) + 1] = e /\ Len(q) + 1 \in 1 .. Len(q) + 1
      /\ \A i \in 1 .. Len(q) : Append(q, e)[i] = q[i] /\ i \in 1 .. Len(q) + 1
      /\ \A i \in 1 .. Len(q) + 1 : i = Len(q) + 1 \/ i \in 1 .. Len(q)
  OBVIOUS
<1> QED
  BY <1>1 DEF Has

LEMMA TakeIs ==
  ASSUME CInv, STake
  PROVE  /\ queue' \in Seq(Event) /\ Head(queue) \in Event
         /\ \A c : Queued(c) <=> Head(queue).et = c \/ Queued(c)'
<1>1. queue \in Seq(Event) /\ queue # << >> /\ queue' = Tail(queue)
  BY DEF CInv, Typed, STake
<1>2. \A c : Has(queue, c) <=> Head(queue).et = c \/ Has(Tail(queue), c)
  BY <1>1, HasInTail
<1> QED
  BY <1>1, <1>2 DEF Has, Queued

--------------------------------------------------------------------------------
(* Each step keeps the invariant.                                          *)

LEMMA TakesKeep ==
  ASSUME CInv, TakeOther \/ \E c \in Timer : Callback(c) \/ Ignore(c)
  PROVE  CInv'
<1>1. STake
  BY DEF TakeOther, Callback, Ignore
<1>2. /\ queue' \in Seq(Event)
      /\ \A c : Queued(c) <=> Head(queue).et = c \/ Queued(c)'
      /\ UNCHANGED <<now, due, owner>>
  BY <1>1, TakeIs DEF STake
<1>3. ASSUME NEW c \in Timer, Callback(c)
      PROVE  CInv'
  <2>1. Typed'
    BY <1>2, <1>3 DEF CInv, Typed, Callback
  <2>2. ASSUME NEW b \in Timer
        PROVE  (IF initialized THEN Runs(b) /\ Posted(b) /\ Expects(b) ELSE Before(b))'
    <3>1. IF initialized THEN Runs(b) /\ Posted(b) /\ Expects(b) ELSE Before(b)
      BY DEF CInv, Stages
    <3>2. /\ Head(queue).et = c /\ ctimer_list' = ctimer_list \ {c} /\ initialized' = initialized
          /\ asked' = [asked EXCEPT ![c] = NULL] /\ asked \in [Timer -> Nat \cup {NULL}]
          /\ Queued(c)
      BY <1>2, <1>3 DEF Callback, CInv, Typed
    <3>3. CASE b = c
      BY <1>2, <3>1, <3>2, <3>3 DEF Runs, Posted, Expects, Before
    <3>4. CASE b # c
      BY <1>2, <3>1, <3>2, <3>4 DEF Runs, Posted, Expects, Before
    <3> QED
      BY <3>3, <3>4
  <2> QED
    BY <2>1, <2>2 DEF CInv, Stages
<1>4. ASSUME TakeOther \/ \E c \in Timer : Ignore(c)
      PROVE  CInv'
  <2>1. UNCHANGED cvars /\ Head(queue).et \notin ctimer_list
    BY <1>4, CtimerAssumption DEF TakeOther, Ignore, CInv, Typed
  <2>2. Typed'
    BY <1>2, <2>1 DEF CInv, Typed, cvars
  <2>3. ASSUME NEW b \in Timer
        PROVE  (IF initialized THEN Runs(b) /\ Posted(b) /\ Expects(b) ELSE Before(b))'
    BY <1>2, <2>1 DEF CInv, Stages, Runs, Posted, Expects, Before, cvars
  <2> QED
    BY <2>2, <2>3 DEF CInv, Stages
<1> QED
  BY <1>3, <1>4

LEMMA PostsKeep ==
  ASSUME CInv, Tick \/ Other \/ \E c \in Timer : Fire(c)
  PROVE  CInv'
<1>1. CASE Tick
  <2>1. Typed'
    BY <1>1 DEF CInv, Typed, Tick, STick, cvars
  <2>2. ASSUME NEW b \in Timer
        PROVE  (IF initialized THEN Runs(b) /\ Posted(b) /\ Expects(b) ELSE Before(b))'
    <3>1. /\ IF initialized THEN Runs(b) /\ Posted(b) /\ Expects(b) ELSE Before(b)
          /\ UNCHANGED <<due, queue, cvars>> /\ now' = now + 1
          /\ now \in Nat /\ asked[b] \in Nat \cup {NULL}
      BY <1>1 DEF CInv, Stages, Tick, STick, Typed
    <3> QED
      BY <3>1 DEF Runs, Posted, Expects, Before, Queued, cvars
  <2> QED
    BY <2>1, <2>2 DEF CInv, Stages
<1>2. CASE Other
  <2>1. [p |-> NULL, et |-> NULL] \in Event
    BY DEF Event
  <2>2. /\ queue \in Seq(Event) /\ queue' = Append(queue, [p |-> NULL, et |-> NULL])
        /\ UNCHANGED <<now, due, owner, cvars>>
    BY <1>2 DEF Other, SOther, CInv, Typed
  <2>3. Typed'
    BY <2>1, <2>2 DEF CInv, Typed, cvars
  <2>4. \A b \in Timer : Queued(b)' <=> Queued(b)
    BY <2>2, HasInAppend, CtimerAssumption DEF Has, Queued
  <2>5. ASSUME NEW b \in Timer
        PROVE  (IF initialized THEN Runs(b) /\ Posted(b) /\ Expects(b) ELSE Before(b))'
    BY <2>2, <2>4 DEF CInv, Stages, Runs, Posted, Expects, Before, cvars
  <2> QED
    BY <2>3, <2>5 DEF CInv, Stages
<1>3. ASSUME NEW c \in Timer, Fire(c)
      PROVE  CInv'
  <2> DEFINE e == [p |-> owner[c], et |-> c]
  <2>1. e \in Event /\ e.et = c
    BY DEF Event, CInv, Typed
  <2>2. /\ queue \in Seq(Event) /\ queue' = Append(queue, e)
        /\ due[c] # NULL /\ due[c] <= now
        /\ due' = [due EXCEPT ![c] = NULL] /\ owner' = [owner EXCEPT ![c] = NULL]
        /\ UNCHANGED <<now, cvars>>
    BY <1>3 DEF Fire, SFire, CInv, Typed, Armed
  <2> HIDE DEF e
  <2>3. Typed'
    BY <2>1, <2>2 DEF CInv, Typed, cvars
  <2>4. \A b \in Timer : Queued(b)' <=> Queued(b) \/ b = c
    BY <2>1, <2>2, HasInAppend DEF Has, Queued
  <2>5. ASSUME NEW b \in Timer
        PROVE  (IF initialized THEN Runs(b) /\ Posted(b) /\ Expects(b) ELSE Before(b))'
    <3>1. /\ IF initialized THEN Runs(b) /\ Posted(b) /\ Expects(b) ELSE Before(b)
          /\ IF initialized THEN Runs(c) ELSE Before(c)
          /\ due \in [Timer -> Nat \cup {NULL}]
      BY DEF CInv, Stages, Typed
    <3> QED
      BY <2>2, <2>4, <3>1 DEF Runs, Posted, Expects, Before, cvars
  <2> QED
    BY <2>3, <2>5 DEF CInv, Stages
<1> QED
  BY <1>1, <1>2, <1>3

LEMMA StartKeeps ==
  ASSUME CInv, StartTimers
  PROVE  CInv'
<1>1. Typed'
  BY DEF CInv, Typed, StartTimers
<1>2. \A b \in Timer : Before(b)
  BY DEF CInv, Stages, StartTimers
<1>3. ASSUME NEW b \in Timer
      PROVE  Runs(b)' /\ Posted(b)' /\ Expects(b)'
  BY <1>2 DEF StartTimers, Runs, Posted, Expects, Before, Queued, CInv, Typed
<1> QED
  BY <1>1, <1>3 DEF CInv, Stages, StartTimers

LEMMA SetKeeps ==
  ASSUME "set_queued" \notin Liberties, CInv,
         NEW c \in Timer, NEW s \in Nat, NEW i \in Nat, SetEtimer(c, s, i)
  PROVE  CInv'
<1>1. CASE initialized
  <2>1. /\ ~Queued(c) /\ ctimer_list' = ctimer_list \cup {c} /\ initialized' = initialized
        /\ interval' = [interval EXCEPT ![c] = i] /\ start' = [start EXCEPT ![c] = s]
        /\ due' = [due EXCEPT ![c] = s + i] /\ owner' = [owner EXCEPT ![c] = ctimer_process]
        /\ asked' = [asked EXCEPT ![c] = s + i]
        /\ UNCHANGED <<now, queue>>
    BY <1>1 DEF SetEtimer, SArm
  <2>2. Typed'
    BY <2>1 DEF CInv, Typed
  <2>3. ASSUME NEW b \in Timer
        PROVE  (IF initialized THEN Runs(b) /\ Posted(b) /\ Expects(b) ELSE Before(b))'
    BY <1>1, <2>1 DEF CInv, Stages, Typed, Runs, Posted, Expects, Queued
  <2> QED
    BY <2>2, <2>3 DEF CInv, Stages
<1>2. CASE ~initialized
  <2>1. /\ ctimer_list' = ctimer_list \cup {c} /\ interval' = [interval EXCEPT ![c] = i]
        /\ UNCHANGED <<svars, start, asked, initialized>>
    BY <1>2 DEF SetEtimer
  <2> QED
    BY <1>2, <2>1 DEF CInv, Typed, Stages, Before, Queued, svars
<1> QED
  BY <1>1, <1>2

LEMMA StopKeeps ==
  ASSUME CInv, NEW c \in Timer, ctimer_stop(c)
  PROVE  CInv'
<1>1. /\ ctimer_list' = ctimer_list \ {c} /\ asked' = [asked EXCEPT ![c] = NULL]
      /\ UNCHANGED <<now, queue, initialized, start, interval>>
      /\ IF initialized
         THEN /\ due' = [b \in Timer |-> IF b \in {c} THEN NULL ELSE due[b]]
              /\ owner' = [b \in Timer |-> IF b \in {c} THEN NULL ELSE owner[b]]
         ELSE UNCHANGED <<due, owner>>
  BY DEF ctimer_stop, SStop, Disarmed, svars
<1>2. Typed'
  BY <1>1 DEF CInv, Typed
<1>3. ASSUME NEW b \in Timer
      PROVE  (IF initialized THEN Runs(b) /\ Posted(b) /\ Expects(b) ELSE Before(b))'
  BY <1>1 DEF CInv, Stages, Typed, Runs, Posted, Expects, Before, Queued
<1> QED
  BY <1>2, <1>3 DEF CInv, Stages

LEMMA CallsKeep ==
  ASSUME "set_queued" \notin Liberties, CInv, NEW c \in Timer, Calls(c)
  PROVE  CInv'
<1>1. Restarted(c) \in Nat /\ now \in Nat /\ interval[c] \in Nat /\ Interval \subseteq Nat
  BY CtimerAssumption DEF Restarted, CInv, Typed
<1>2. CASE ctimer_stop(c)
  BY <1>2, StopKeeps
<1>3. CASE ~ctimer_stop(c)
  <2>1. \E s \in Nat, i \in Nat : SetEtimer(c, s, i)
    BY <1>1, <1>3 DEF Calls, ctimer_set, ctimer_reset, ctimer_reset_with_new_interval, ctimer_restart
  <2> QED
    BY <2>1, SetKeeps
<1> QED
  BY <1>2, <1>3

LEMMA InitCInv == Init => CInv
<1> SUFFICES ASSUME Init
             PROVE  CInv
  OBVIOUS
<1>0. << >> \in Seq(Event) /\ Len(<< >>) = 0 /\ DOMAIN << >> = 1 .. 0
  OBVIOUS
<1>1. Typed
  BY <1>0 DEF Init, SInit, Typed
<1>2. \A c \in Timer : ~Queued(c)
  <2>1. DOMAIN queue = 1 .. 0
    BY <1>0 DEF Init, SInit
  <2> QED
    BY <2>1 DEF Queued
<1> QED
  BY <1>1, <1>2 DEF Init, SInit, CInv, Stages, Before

LEMMA NextCInv ==
  "set_queued" \notin Liberties => (CInv /\ [Next]_vars => CInv')
<1> SUFFICES ASSUME "set_queued" \notin Liberties, CInv, [Next]_vars
             PROVE  CInv'
  OBVIOUS
<1>1. CASE UNCHANGED vars
  BY <1>1 DEF vars, svars, cvars, CInv, Typed, Stages, Runs, Posted, Expects, Before, Queued
<1>2. CASE Next
  BY <1>2, TakesKeep, PostsKeep, StartKeeps, CallsKeep DEF Next
<1> QED
  BY <1>1, <1>2

--------------------------------------------------------------------------------

(* The types, and the four stages of every timer.                          *)
LEMMA Invariance == "set_queued" \notin Liberties /\ Spec => []CInv
<1> SUFFICES ASSUME "set_queued" \notin Liberties
             PROVE  Spec => []CInv
  OBVIOUS
<1>1. CInv /\ [Next]_vars => CInv'
  BY NextCInv
<1> QED
  BY InitCInv, <1>1, PTL DEF Spec

(* ctimer_list and the etimers agree: no etimer is left running for a      *)
(* ctimer that is off the list, and no callback the program waits for is   *)
(* lost, if no ctimer is set while its older event is queued.              *)
THEOREM ListMatches == "set_queued" \notin Liberties /\ Spec => []EtimersMatch
<1>1. CInv => EtimersMatch
  BY DEF CInv, Stages, EtimersMatch, NoGhost, NothingLost, Runs, Expects, Before
<1> QED
  BY <1>1, Invariance, PTL

(* No callback is made before the time its ctimer was last set to, and     *)
(* none for a ctimer that was stopped, if no ctimer is set while its older *)
(* event is queued.                                                        *)
THEOREM CallbackNotEarly == "set_queued" \notin Liberties /\ Spec => NotEarly
<1>1. CInv /\ [Next]_vars =>
        [\A c \in Timer : Callback(c) => asked[c] # NULL /\ asked[c] <= now]_vars
  <2> SUFFICES ASSUME CInv, NEW c \in Timer, Callback(c)
               PROVE  asked[c] # NULL /\ asked[c] <= now
    OBVIOUS
  <2>1. Queued(c)
    BY TakeIs DEF Callback
  <2> QED
    BY <2>1, CtimerAssumption DEF Callback, CInv, Stages, Posted, Before
<1> QED
  BY <1>1, Invariance, PTL DEF Spec, NotEarly

--------------------------------------------------------------------------------
(* The process mutex.                                                      *)

USE NullAssumption, NumEventsAssumption

(* One event more, one event less, in a queue that stays bounded.          *)
LEMMA QueueKeepsType ==
  ASSUME NEW s \in Seq(Receiver), Len(s) <= NumEvents
  PROVE  /\ s # << >> => Head(s) \in Receiver /\ Tail(s) \in Seq(Receiver) /\ Len(Tail(s)) <= NumEvents
         /\ \A r \in Receiver :
              Len(s) < NumEvents => Append(s, r) \in Seq(Receiver) /\ Len(Append(s, r)) <= NumEvents
OBVIOUS

LEMMA InitTypeOK == MutexInit => TypeOK
<1> SUFFICES ASSUME MutexInit PROVE TypeOK
  OBVIOUS
<1>1. events \in Seq(Receiver) /\ Len(events) <= NumEvents
  BY DEF MutexInit
<1>2. pc \in [Proc -> {"out", "waiting", "in"}]
  BY DEF MutexInit
<1> QED BY <1>1, <1>2 DEF MutexInit, TypeOK, Receiver

LEMMA TryLockType ==
  ASSUME TypeOK, NEW q \in Proc, process_mutex_try_lock(q)
  PROVE  /\ waiting_process' \in Receiver /\ has_more_waiting_processes' \in BOOLEAN
         /\ is_locked' \in BOOLEAN /\ current' \in Receiver
         /\ pc' \in [Proc -> {"out", "waiting", "in"}]
BY DEF TypeOK, process_mutex_try_lock, Enters, Waits, LeavesName, Receiver

LEMMA WakesType ==
  ASSUME TypeOK, NEW q \in Proc, Wakes(q)
  PROVE  /\ waiting_process' \in Receiver /\ has_more_waiting_processes' \in BOOLEAN
         /\ is_locked' \in BOOLEAN /\ current' \in Receiver
         /\ pc' \in [Proc -> {"out", "waiting", "in"}]
         /\ events' = events /\ dropped' = dropped
<1>1. CASE pc[q] = "waiting"
  BY <1>1, TryLockType DEF Wakes
<1>2. CASE pc[q] # "waiting"
  BY <1>2 DEF Wakes, TypeOK, mutex, Receiver
<1> QED BY <1>1, <1>2

LEMMA NextTypeOK == TypeOK /\ [MutexNext]_mvars => TypeOK'
<1> SUFFICES ASSUME TypeOK, [MutexNext]_mvars PROVE TypeOK'
  OBVIOUS
<1> USE DEF TypeOK
<1>1. CASE Deliver
  <2>1. Head(events) \in Receiver /\ Tail(events) \in Seq(Receiver) /\ Len(Tail(events)) <= NumEvents
    BY <1>1, QueueKeepsType DEF Deliver
  <2> QED BY <1>1, <2>1 DEF Deliver, mutex, Receiver
<1>2. CASE Yields
  BY <1>2 DEF Yields, mutex, Receiver
<1>3. ASSUME NEW q \in Proc, Call(q) PROVE TypeOK'
  BY <1>3, WakesType DEF Call
<1>4. ASSUME NEW q \in Proc, Poll(q) PROVE TypeOK'
  BY <1>4, WakesType DEF Poll
<1>5. ASSUME NEW q \in Proc, Asks(q) PROVE TypeOK'
  BY <1>5, TryLockType DEF Asks
<1>6. ASSUME NEW q \in Proc, process_mutex_unlock(q) PROVE TypeOK'
  <2>1. events' \in Seq(Receiver) /\ Len(events') <= NumEvents /\ dropped' \in BOOLEAN
    BY <1>6, QueueKeepsType DEF process_mutex_unlock, process_post
  <2> QED BY <1>6, <2>1 DEF process_mutex_unlock, Receiver
<1>7. ASSUME NEW q \in Proc, PostOther(q) PROVE TypeOK'
  <2>1. events' \in Seq(Receiver) /\ Len(events') <= NumEvents
    BY <1>7, QueueKeepsType DEF PostOther, Receiver
  <2> QED BY <1>7, <2>1 DEF PostOther, mutex
<1>8. CASE UNCHANGED mvars
  BY <1>8 DEF mvars, mutex
<1> QED BY <1>1, <1>2, <1>3, <1>4, <1>5, <1>6, <1>7, <1>8 DEF MutexNext

(* The mutex's fields, the queue and what the processes do keep their      *)
(* types: in particular the event queue never exceeds its capacity.        *)
THEOREM MutexTypeCorrect == MutexSpec => []TypeOK
<1> QED BY InitTypeOK, NextTypeOK, PTL DEF MutexSpec

--------------------------------------------------------------------------------
LEMMA TryLockExclusion ==
  ASSUME TypeOK, MutualExclusion, NEW q \in Proc, process_mutex_try_lock(q), pc[q] # "in"
  PROVE  MutualExclusion'
<1>1. CASE Enters(q)
  <2>1. \A r \in Proc : pc[r] # "in"
    BY <1>1 DEF Enters, MutualExclusion, TypeOK
  <2> QED BY <1>1, <2>1 DEF Enters, MutualExclusion, TypeOK
<1>2. CASE Waits(q)
  BY <1>2 DEF Waits, MutualExclusion, TypeOK
<1> QED BY <1>1, <1>2 DEF process_mutex_try_lock

LEMMA WakesExclusion ==
  ASSUME TypeOK, MutualExclusion, NEW q \in Proc, Wakes(q)
  PROVE  MutualExclusion'
<1>1. CASE pc[q] = "waiting"
  BY <1>1, TryLockExclusion DEF Wakes
<1>2. CASE pc[q] # "waiting"
  BY <1>2 DEF Wakes, MutualExclusion, mutex
<1> QED BY <1>1, <1>2

LEMMA NextExclusion == TypeOK /\ MutualExclusion /\ [MutexNext]_mvars => MutualExclusion'
<1> SUFFICES ASSUME TypeOK, MutualExclusion, [MutexNext]_mvars PROVE MutualExclusion'
  OBVIOUS
<1>1. CASE Deliver \/ Yields \/ UNCHANGED mvars
  BY <1>1 DEF Deliver, Yields, mvars, mutex, MutualExclusion
<1>2. ASSUME NEW q \in Proc, Call(q) \/ Poll(q) PROVE MutualExclusion'
  BY <1>2, WakesExclusion DEF Call, Poll
<1>3. ASSUME NEW q \in Proc, Asks(q) PROVE MutualExclusion'
  BY <1>3, TryLockExclusion DEF Asks
<1>4. ASSUME NEW q \in Proc, process_mutex_unlock(q) PROVE MutualExclusion'
  BY <1>4 DEF process_mutex_unlock, MutualExclusion, TypeOK
<1>5. ASSUME NEW q \in Proc, PostOther(q) PROVE MutualExclusion'
  BY <1>5 DEF PostOther, MutualExclusion, mutex
<1> QED BY <1>1, <1>2, <1>3, <1>4, <1>5 DEF MutexNext

(* At most one process is between try_lock and unlock, however events,     *)
(* polls and other processes' attempts interleave.                         *)
THEOREM Exclusion == MutexSpec => []MutualExclusion
<1>1. MutexInit => MutualExclusion
  BY DEF MutexInit, MutualExclusion
<1> QED BY <1>1, InitTypeOK, NextTypeOK, NextExclusion, PTL DEF MutexSpec

--------------------------------------------------------------------------------
(* A broadcast is asked for only by a mutex that names no single process:  *)
(* else unlock would wake that one alone.                                  *)
Named == has_more_waiting_processes => waiting_process = NULL

LEMMA TryLockNamed ==
  ASSUME TypeOK, Named, NEW q \in Proc, process_mutex_try_lock(q)
  PROVE  Named'
BY DEF Named, TypeOK, process_mutex_try_lock, Enters, Waits, LeavesName

LEMMA NextNamed == TypeOK /\ Named /\ [MutexNext]_mvars => Named'
<1> SUFFICES ASSUME TypeOK, Named, [MutexNext]_mvars PROVE Named'
  OBVIOUS
<1>1. CASE Deliver \/ Yields \/ UNCHANGED mvars
  BY <1>1 DEF Deliver, Yields, mvars, mutex, Named
<1>2. ASSUME NEW q \in Proc, Call(q) \/ Poll(q) PROVE Named'
  <2>1. process_mutex_try_lock(q) \/ UNCHANGED mutex
    BY <1>2 DEF Call, Poll, Wakes, mutex
  <2> QED BY <2>1, TryLockNamed DEF Named, mutex
<1>3. ASSUME NEW q \in Proc, Asks(q) PROVE Named'
  BY <1>3, TryLockNamed DEF Asks
<1>4. ASSUME NEW q \in Proc, process_mutex_unlock(q) PROVE Named'
  BY <1>4 DEF process_mutex_unlock, Named
<1>5. ASSUME NEW q \in Proc, PostOther(q) PROVE Named'
  BY <1>5 DEF PostOther, Named, mutex
<1> QED BY <1>1, <1>2, <1>3, <1>4, <1>5 DEF MutexNext

(* An event that is on its way stays so when another is appended, and when *)
(* the first is taken and its receivers are called next.                   *)
LEMMA AppendKeeps ==
  ASSUME NEW s \in Seq(Receiver), NEW r \in Receiver, NEW i \in DOMAIN s
  PROVE  i \in DOMAIN Append(s, r) /\ Append(s, r)[i] = s[i]
OBVIOUS

LEMMA AppendAdds ==
  ASSUME NEW s \in Seq(Receiver), NEW r \in Receiver
  PROVE  \E i \in DOMAIN Append(s, r) : Append(s, r)[i] = r
<1>1. Len(s) + 1 \in DOMAIN Append(s, r) /\ Append(s, r)[Len(s) + 1] = r
  OBVIOUS
<1> QED BY <1>1

LEMMA TailKeeps ==
  ASSUME NEW s \in Seq(Receiver), s # << >>, NEW i \in DOMAIN s, i # 1
  PROVE  \E j \in DOMAIN Tail(s) : Tail(s)[j] = s[i]
<1>1. i - 1 \in DOMAIN Tail(s) /\ Tail(s)[i - 1] = s[i]
  OBVIOUS
<1> QED BY <1>1

(* After q tried the mutex, q has it or the mutex knows q, and whom it     *)
(* knew before, it still knows.                                            *)
LEMMA TryLockKnows ==
  ASSUME TypeOK, NEW q \in Proc, process_mutex_try_lock(q)
  PROVE  /\ pc'[q] = "waiting" => Known(q)'
         /\ \A r \in Proc \ {q} : pc'[r] = pc[r] /\ (Known(r) => Known(r)')
<1>1. CASE Enters(q)
  BY <1>1 DEF Enters, Known, TypeOK
<1>2. CASE Waits(q)
  <2>1. Known(q)'
    BY <1>2 DEF Waits, LeavesName, Known, TypeOK
  <2>2. ASSUME NEW r \in Proc \ {q} PROVE pc'[r] = pc[r] /\ (Known(r) => Known(r)')
    <3>1. r # q /\ r # NULL
      OBVIOUS
    <3> QED BY <1>2, <3>1 DEF Waits, LeavesName, Known, TypeOK
  <2> QED BY <2>1, <2>2
<1> QED BY <1>1, <1>2 DEF process_mutex_try_lock

WInv == TypeOK /\ Named /\ NoLostWakeup

LEMMA WakesKeeps ==
  ASSUME WInv, ~dropped, NEW q \in Proc, Wakes(q), receivers' \in SUBSET Proc,
         receivers \subseteq receivers' \cup {q}
  PROVE  \A r \in Proc : pc'[r] = "waiting" => Known(r)' \/ OnItsWay(r)'
<1> SUFFICES ASSUME NEW r \in Proc, pc'[r] = "waiting" PROVE Known(r)' \/ OnItsWay(r)'
  OBVIOUS
<1>1. CASE pc[q] = "waiting"
  <2>1. process_mutex_try_lock(q) /\ events' = events
    BY <1>1 DEF Wakes
  <2>2. CASE r = q
    BY <2>1, <2>2, TryLockKnows DEF WInv
  <2>3. CASE r # q
    <3>1. pc[r] = "waiting" /\ (Known(r) => Known(r)')
      BY <2>1, <2>3, TryLockKnows DEF WInv
    <3>2. OnItsWay(r) => OnItsWay(r)'
      BY <2>1, <2>3 DEF OnItsWay
    <3> QED BY <3>1, <3>2 DEF WInv, NoLostWakeup
  <2> QED BY <2>2, <2>3
<1>2. CASE pc[q] # "waiting"
  <2>1. UNCHANGED <<waiting_process, has_more_waiting_processes, is_locked, pc, events>>
    BY <1>2 DEF Wakes, mutex
  <2>2. r # q /\ pc[r] = "waiting"
    BY <1>2, <2>1
  <2>3. Known(r) => Known(r)'
    BY <2>1 DEF Known
  <2>4. OnItsWay(r) => OnItsWay(r)'
    BY <2>1, <2>2 DEF OnItsWay
  <2> QED BY <2>2, <2>3, <2>4 DEF WInv, NoLostWakeup
<1> QED BY <1>1, <1>2

LEMMA UnlockKeeps ==
  ASSUME WInv, NEW q \in Proc, process_mutex_unlock(q), ~dropped', ~dropped
  PROVE  \A r \in Proc : pc'[r] = "waiting" => Known(r)' \/ OnItsWay(r)'
<1> SUFFICES ASSUME NEW r \in Proc, pc'[r] = "waiting" PROVE OnItsWay(r)'
  OBVIOUS
<1>1. r # q /\ pc[r] = "waiting" /\ receivers' = receivers
  BY DEF process_mutex_unlock, WInv, TypeOK
<1>2. events \in Seq(Receiver) /\ waiting_process \in Receiver
  BY DEF WInv, TypeOK
<1>3. CASE Known(r)
  <2>1. waiting_process \in {r, NULL}
    BY <1>3 DEF Known, WInv, Named
  <2>2. events' = Append(events, waiting_process)
    BY <1>3 DEF Known, process_mutex_unlock, process_post
  <2>3. \E i \in DOMAIN Append(events, waiting_process) :
           Append(events, waiting_process)[i] = waiting_process
    BY <1>2, AppendAdds
  <2> QED BY <2>1, <2>2, <2>3 DEF OnItsWay
<1>4. CASE OnItsWay(r)
  <2>1. events' = events \/ events' = Append(events, waiting_process)
    BY DEF process_mutex_unlock, process_post
  <2>2. \A i \in DOMAIN events : i \in DOMAIN events' /\ events'[i] = events[i]
    BY <1>2, <2>1, AppendKeeps
  <2> QED BY <1>1, <1>4, <2>2 DEF OnItsWay
<1> QED BY <1>1, <1>3, <1>4 DEF WInv, NoLostWakeup

LEMMA DeliverKeeps ==
  ASSUME WInv, Deliver, ~dropped
  PROVE  \A r \in Proc : pc'[r] = "waiting" => Known(r)' \/ OnItsWay(r)'
<1> SUFFICES ASSUME NEW r \in Proc, pc'[r] = "waiting" PROVE Known(r)' \/ OnItsWay(r)'
  OBVIOUS
<1>1. pc[r] = "waiting" /\ receivers = {} /\ events' = Tail(events) /\ events # << >>
  BY DEF Deliver
<1>2. events \in Seq(Receiver)
  BY DEF WInv, TypeOK
<1>3. CASE Known(r)
  BY <1>3 DEF Deliver, Known, mutex
<1>4. CASE OnItsWay(r)
  <2>1. PICK i \in DOMAIN events : events[i] \in {r, NULL}
    BY <1>1, <1>4 DEF OnItsWay
  <2>2. CASE i = 1
    <3>1. Head(events) \in {r, NULL}
      BY <1>2, <2>1, <2>2
    <3>2. r \in receivers'
      BY <3>1 DEF Deliver
    <3> QED BY <3>2 DEF OnItsWay
  <2>3. CASE i # 1
    <3>1. \E j \in DOMAIN Tail(events) : Tail(events)[j] = events[i]
      BY <1>1, <1>2, <2>3, TailKeeps
    <3> QED BY <1>1, <2>1, <3>1 DEF OnItsWay
  <2> QED BY <2>2, <2>3
<1> QED BY <1>1, <1>3, <1>4 DEF WInv, NoLostWakeup

LEMMA NextNoLostWakeup == WInv /\ [MutexNext]_mvars => NoLostWakeup'
<1> SUFFICES ASSUME WInv, [MutexNext]_mvars, ~dropped'
             PROVE  \A r \in Proc : pc'[r] = "waiting" => Known(r)' \/ OnItsWay(r)'
  BY DEF NoLostWakeup
<1>0. ~dropped
  BY DEF MutexNext, Deliver, Yields, Call, Poll, Wakes, Asks, process_mutex_unlock, process_post,
         PostOther, mvars
<1>1. CASE Deliver
  BY <1>0, <1>1, DeliverKeeps
<1>2. CASE Yields \/ UNCHANGED mvars
  <2>1. UNCHANGED <<waiting_process, has_more_waiting_processes, is_locked, pc, events, receivers>>
    BY <1>2 DEF Yields, mvars, mutex
  <2> QED BY <1>0, <2>1 DEF WInv, NoLostWakeup, Known, OnItsWay
<1>3. ASSUME NEW q \in Proc, Call(q) \/ Poll(q)
      PROVE  \A r \in Proc : pc'[r] = "waiting" => Known(r)' \/ OnItsWay(r)'
  <2>1. Wakes(q) /\ receivers' \in SUBSET Proc /\ receivers \subseteq receivers' \cup {q}
    BY <1>3 DEF Call, Poll, WInv, TypeOK
  <2> QED BY <1>0, <2>1, WakesKeeps
<1>4. ASSUME NEW q \in Proc, Asks(q)
      PROVE  \A r \in Proc : pc'[r] = "waiting" => Known(r)' \/ OnItsWay(r)'
  <2> SUFFICES ASSUME NEW r \in Proc, pc'[r] = "waiting" PROVE Known(r)' \/ OnItsWay(r)'
    OBVIOUS
  <2>1. process_mutex_try_lock(q) /\ events' = events /\ receivers' = receivers
    BY <1>4 DEF Asks
  <2>2. CASE r = q
    BY <2>1, <2>2, TryLockKnows DEF WInv
  <2>3. CASE r # q
    <3>1. pc[r] = "waiting" /\ (Known(r) => Known(r)')
      BY <2>1, <2>3, TryLockKnows DEF WInv
    <3>2. OnItsWay(r) => OnItsWay(r)'
      BY <2>1 DEF OnItsWay
    <3> QED BY <1>0, <3>1, <3>2 DEF WInv, NoLostWakeup
  <2> QED BY <2>2, <2>3
<1>5. ASSUME NEW q \in Proc, process_mutex_unlock(q)
      PROVE  \A r \in Proc : pc'[r] = "waiting" => Known(r)' \/ OnItsWay(r)'
  BY <1>0, <1>5, UnlockKeeps
<1>6. ASSUME NEW q \in Proc, PostOther(q)
      PROVE  \A r \in Proc : pc'[r] = "waiting" => Known(r)' \/ OnItsWay(r)'
  <2> SUFFICES ASSUME NEW r \in Proc, pc'[r] = "waiting" PROVE Known(r)' \/ OnItsWay(r)'
    OBVIOUS
  <2>1. /\ UNCHANGED <<waiting_process, has_more_waiting_processes, is_locked, pc, receivers>>
        /\ events' = Append(events, q)
    BY <1>6 DEF PostOther, mutex
  <2>2. events \in Seq(Receiver) /\ q \in Receiver
    BY DEF WInv, TypeOK, Receiver
  <2>3. OnItsWay(r) => OnItsWay(r)'
    BY <2>1, <2>2, AppendKeeps DEF OnItsWay
  <2> QED BY <1>0, <2>1, <2>3 DEF WInv, NoLostWakeup, Known
<1> QED BY <1>1, <1>2, <1>3, <1>4, <1>5, <1>6 DEF MutexNext

(* As long as no unlock found the event queue full, every process that     *)
(* waits is known to the locked mutex or has an event on its way.          *)
THEOREM WakeupNotLost == MutexSpec => []NoLostWakeup
<1>1. MutexInit => WInv
  BY InitTypeOK DEF MutexInit, WInv, Named, NoLostWakeup
<1>2. WInv /\ [MutexNext]_mvars => WInv'
  BY NextTypeOK, NextNamed, NextNoLostWakeup DEF WInv
<1>3. WInv => NoLostWakeup
  BY DEF WInv
<1> QED BY <1>1, <1>2, <1>3, PTL DEF MutexSpec
================================================================================
