----------------------------- MODULE ProcessMutex ------------------------------
(***************************************************************************)
(* os/sys/process-mutex.c: a mutex of processes.  A process that finds it  *)
(* locked leaves its name in it and waits for an event                     *)
(* (PROCESS_WAIT_UNTIL(process_mutex_try_lock(m))); whoever unlocks posts  *)
(* UNLOCKED to the one process that waits or, if there are several, to     *)
(* all.  A waiting process tries again at every event it gets, also one    *)
(* that has nothing to do with the mutex, and a process that gets the      *)
(* mutex in between makes it wait and leave its name once more.            *)
(*                                                                         *)
(* The kernel is reduced to what the mutex needs: the bounded event queue, *)
(* one handler at a time, broadcasts that are delivered one by one.        *)
(***************************************************************************)
EXTENDS Kernel, Naturals, Sequences

ASSUME NullAssumption == NULL \notin Proc
ASSUME NumEventsAssumption == NumEvents \in Nat \ {0}

VARIABLES
  waiting_process,
  has_more_waiting_processes,
  is_locked,
  events,     (* the receivers of the events; NULL is PROCESS_BROADCAST     *)
  receivers,  (* who has yet to get the event that is being delivered       *)
  current,    (* process_current; NULL between two handlers                 *)
  pc,         (* where a process is: "out" of, "waiting" for, "in" the lock *)
  dropped     (* history: process_mutex_unlock found the queue full         *)

mutex == <<waiting_process, has_more_waiting_processes, is_locked>>
mvars == <<mutex, events, receivers, current, pc, dropped>>

Receiver == Proc \cup {NULL}

MutexInit ==
  /\ waiting_process = NULL
  /\ has_more_waiting_processes = FALSE
  /\ is_locked = FALSE
  /\ events = << >>
  /\ receivers = {}
  /\ current = NULL
  /\ pc = [q \in Proc |-> "out"]
  /\ dropped = FALSE

process_post(r) ==
  IF Len(events) < NumEvents
  THEN events' = Append(events, r) /\ UNCHANGED dropped
  ELSE UNCHANGED events /\ dropped' = TRUE

--------------------------------------------------------------------------------
(* process_mutex_try_lock by q, with the PROCESS_WAIT_UNTIL around it: q   *)
(* has the mutex and goes on, or yields.                                   *)

\* mutant of Enters
EntersUnasked(q) ==
  /\ is_locked' = TRUE
  /\ UNCHANGED <<waiting_process, has_more_waiting_processes>>
  /\ pc' = [pc EXCEPT ![q] = "in"]
  /\ current' = q
Enters(q) ==
  /\ ~is_locked
  /\ is_locked' = TRUE
  /\ UNCHANGED <<waiting_process, has_more_waiting_processes>>
  /\ pc' = [pc EXCEPT ![q] = "in"]
  /\ current' = q

\* mutant of LeavesName
LeavesNameOnce(q) ==
  IF waiting_process = NULL
  THEN waiting_process' = q /\ UNCHANGED has_more_waiting_processes
  ELSE UNCHANGED <<waiting_process, has_more_waiting_processes>>
LeavesName(q) ==
  IF waiting_process = NULL /\ ~has_more_waiting_processes
  THEN waiting_process' = q /\ UNCHANGED has_more_waiting_processes
  ELSE IF waiting_process # q
  THEN waiting_process' = NULL /\ has_more_waiting_processes' = TRUE
  ELSE UNCHANGED <<waiting_process, has_more_waiting_processes>>

Waits(q) ==
  /\ is_locked
  /\ LeavesName(q)
  /\ pc' = [pc EXCEPT ![q] = "waiting"]
  /\ current' = NULL
  /\ UNCHANGED is_locked

process_mutex_try_lock(q) == Enters(q) \/ Waits(q)

process_mutex_unlock(q) ==
  /\ current = q /\ pc[q] = "in"
  /\ IF waiting_process # NULL \/ has_more_waiting_processes
     THEN process_post(waiting_process)
     ELSE UNCHANGED <<events, dropped>>
  /\ waiting_process' = NULL
  /\ has_more_waiting_processes' = FALSE
  /\ is_locked' = FALSE
  /\ pc' = [pc EXCEPT ![q] = "out"]
  /\ UNCHANGED <<receivers, current>>

--------------------------------------------------------------------------------
(* The processes and the kernel.                                           *)

\* q gets an event or a poll; if it waits for the mutex, it tries again
Wakes(q) ==
  /\ IF pc[q] = "waiting"
     THEN process_mutex_try_lock(q)
     ELSE current' = q /\ UNCHANGED <<mutex, pc>>
  /\ UNCHANGED <<events, dropped>>

Deliver ==
  /\ current = NULL /\ receivers = {} /\ events # << >>
  /\ receivers' = IF Head(events) = NULL THEN Proc ELSE {Head(events)}
  /\ events' = Tail(events)
  /\ UNCHANGED <<mutex, current, pc, dropped>>

Call(q) ==
  /\ current = NULL /\ q \in receivers
  /\ receivers' = receivers \ {q}
  /\ Wakes(q)

Poll(q) ==
  /\ current = NULL /\ receivers = {}
  /\ Wakes(q)
  /\ UNCHANGED receivers

Asks(q) ==
  /\ current = q /\ pc[q] = "out"
  /\ process_mutex_try_lock(q)
  /\ UNCHANGED <<events, receivers, dropped>>

PostOther(q) ==
  /\ current # NULL
  /\ Len(events) < NumEvents
  /\ events' = Append(events, q)
  /\ UNCHANGED <<mutex, receivers, current, pc, dropped>>

Yields ==
  /\ current # NULL
  /\ current' = NULL
  /\ UNCHANGED <<mutex, events, receivers, pc, dropped>>

MutexNext ==
  \/ Deliver \/ Yields
  \/ \E q \in Proc :
       Call(q) \/ Poll(q) \/ Asks(q) \/ process_mutex_unlock(q) \/ PostOther(q)

MutexSpec == MutexInit /\ [][MutexNext]_mvars

(* Handlers return and the kernel delivers what is queued.                 *)
FairMutexSpec ==
  /\ MutexSpec /\ WF_mvars(Yields) /\ SF_mvars(Deliver)
  /\ \A q \in Proc : WF_mvars(Call(q))

--------------------------------------------------------------------------------
(* Properties.                                                             *)

TypeOK ==
  /\ waiting_process \in Receiver
  /\ has_more_waiting_processes \in BOOLEAN
  /\ is_locked \in BOOLEAN
  /\ events \in Seq(Receiver) /\ Len(events) <= NumEvents
  /\ receivers \subseteq Proc
  /\ current \in Receiver
  /\ pc \in [Proc -> {"out", "waiting", "in"}]
  /\ dropped \in BOOLEAN

(* At most one process has the mutex, and only when it is locked.          *)
MutualExclusion ==
  \A q \in Proc : pc[q] = "in" => is_locked /\ \A r \in Proc \ {q} : pc[r] # "in"

(* No wake-up is lost: the mutex knows of every process that waits, or an  *)
(* event for it is on its way; unless an unlock found the event queue      *)
(* full, for process_mutex_unlock ignores what process_post returns.       *)
Known(q) == is_locked /\ (waiting_process = q \/ has_more_waiting_processes)
OnItsWay(q) == q \in receivers \/ \E i \in DOMAIN events : events[i] \in {q, NULL}
NoLostWakeup ==
  ~dropped => \A q \in Proc : pc[q] = "waiting" => Known(q) \/ OnItsWay(q)

(* A mutex that is free while a process waits is taken, by that process or *)
(* by another.                                                             *)
FreeIsTaken ==
  \A q \in Proc :
    (pc[q] = "waiting" /\ ~is_locked) ~> (is_locked \/ dropped)
================================================================================
