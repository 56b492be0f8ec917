----------------------------- MODULE TimerService ------------------------------
(***************************************************************************)
(* What an event timer may do to the processes that use it: an armed timer *)
(* has one owner, which runs, and one due time; it is posted to its owner  *)
(* not before it is due and at most once for each time it was armed; when  *)
(* it is stopped, or its owner exits, it is no longer armed.  This is      *)
(* safety only: that an armed timer is posted in the end is not said here, *)
(* nor what becomes of an event already in the queue.  os/sys/etimer.c is  *)
(* shown to implement it (Etimer), and callback timers are built on it     *)
(* (Ctimer).                                                               *)
(***************************************************************************)
EXTENDS Kernel, Integers, Sequences

CONSTANTS
  Timer,
  Delay       (* how far from now, in either direction, a timer may be due  *)

VARIABLES
  now,
  due,        (* when an armed timer is due; NULL if it is not armed        *)
  owner,      (* the process an armed timer is posted to                    *)
  queue,      (* events not yet delivered: [p |-> process, et |-> timer]    *)
  alive       (* the processes that run                                     *)

svars == <<now, due, owner, queue, alive>>

Armed == {et \in Timer : due[et] # NULL}

SInit ==
  /\ now = 0
  /\ due = [et \in Timer |-> NULL]
  /\ owner = [et \in Timer |-> NULL]
  /\ queue = << >>
  /\ alive = Proc

STick ==
  /\ now' = now + 1
  /\ UNCHANGED <<due, owner, queue, alive>>

SArm(et, q, t) ==
  /\ q \in alive
  /\ UNCHANGED <<now, queue, alive>>
  /\ owner' = [owner EXCEPT ![et] = q]
  /\ t - now \in Delay
  /\ due' = [due EXCEPT ![et] = t]

Disarmed(S) ==
  /\ due' = [et \in Timer |-> IF et \in S THEN NULL ELSE due[et]]
  /\ owner' = [et \in Timer |-> IF et \in S THEN NULL ELSE owner[et]]

SStop(et) == Disarmed({et}) /\ UNCHANGED <<now, queue, alive>>

SFire(et) ==
  /\ UNCHANGED <<now, alive>>
  /\ Len(queue) < NumEvents
  /\ et \in Armed /\ due[et] <= now
  /\ queue' = Append(queue, [p |-> owner[et], et |-> et])
  /\ due' = [due EXCEPT ![et] = NULL]
  /\ owner' = [owner EXCEPT ![et] = NULL]

\* a process that exits loses all its timers
SExit(q) ==
  /\ q \in alive
  /\ alive' = alive \ {q}
  /\ Disarmed({et \in Timer : owner[et] = q})
  /\ UNCHANGED <<now, queue>>

SStart(q) ==
  /\ q \notin alive
  /\ alive' = alive \cup {q}
  /\ UNCHANGED <<now, due, owner, queue>>

SOther ==
  /\ Len(queue) < NumEvents
  /\ queue' = Append(queue, [p |-> NULL, et |-> NULL])
  /\ UNCHANGED <<now, due, owner, alive>>

STake ==
  /\ queue # << >>
  /\ queue' = Tail(queue)
  /\ UNCHANGED <<now, due, owner, alive>>

SNext ==
  \/ STick
  \/ \E et \in Timer : SFire(et) \/ SStop(et)
  \/ \E et \in Timer, q \in Proc : SArm(et, q, due'[et])
  \/ \E q \in Proc : SExit(q) \/ SStart(q)
  \/ SOther \/ STake

SSpec == SInit /\ [][SNext]_svars
================================================================================
