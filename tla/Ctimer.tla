-------------------------------- MODULE Ctimer ---------------------------------
(***************************************************************************)
(* os/sys/ctimer.c: callback timers, built on event timers that belong to  *)
(* ctimer_process.  A ctimer is expected while it is on ctimer_list; the   *)
(* TIMER event of its etimer makes ctimer_process take it off the list and *)
(* call its callback.  A ctimer set before ctimer_process runs is only     *)
(* listed; the process starts its etimer.                                  *)
(*                                                                         *)
(* Event timers are what TimerService promises (and Etimer implements);    *)
(* their clock does not wrap here.  The order of ctimer_list, which only   *)
(* orders the etimers that ctimer_process starts, is left out.             *)
(***************************************************************************)
EXTENDS TimerService, FiniteSets

CONSTANTS
  Interval,
  MaxTime,     (* bound: ticks of a run                                     *)
  Liberties    (* "set_queued": a ctimer may be set while the event of an   *)
               (* earlier setting waits in the queue                        *)

ASSUME CtimerAssumption ==
  /\ Interval \subseteq Nat \ {0} /\ MaxTime \in Nat /\ NumEvents \in Nat \ {0}
  /\ NULL \notin Timer

ctimer_process == CHOOSE q \in Proc : TRUE

VARIABLES
  initialized,
  ctimer_list,
  start,        (* c->etimer.timer                                          *)
  interval,
  asked         (* history: when the callback the program waits for is due  *)

cvars == <<initialized, ctimer_list, start, interval, asked>>
vars  == <<svars, cvars>>

Init ==
  /\ SInit
  /\ initialized = FALSE
  /\ ctimer_list = {}
  /\ start = [c \in Timer |-> 0]
  /\ interval = [c \in Timer |-> 0]
  /\ asked = [c \in Timer |-> NULL]

Queued(c) == \E i \in DOMAIN queue : queue[i].et = c

Tick == now < MaxTime /\ STick /\ UNCHANGED cvars

Fire(c) == SFire(c) /\ UNCHANGED cvars

\* other events, which ctimer_process or another process ignores
Other == Len(queue) < NumEvents - 1 /\ SOther /\ UNCHANGED cvars
TakeOther == queue # << >> /\ Head(queue).et = NULL /\ STake /\ UNCHANGED cvars

--------------------------------------------------------------------------------
(* ctimer_process                                                          *)

\* mutant of StartTimers
StartNone ==
  /\ ~initialized
  /\ initialized' = TRUE
  /\ asked' = [c \in Timer |-> IF c \in ctimer_list THEN now + interval[c] ELSE NULL]
  /\ UNCHANGED <<svars, ctimer_list, start, interval>>
StartTimers ==
  /\ ~initialized
  /\ initialized' = TRUE
  /\ start' = [c \in Timer |-> IF c \in ctimer_list THEN now ELSE start[c]]
  /\ due' = [c \in Timer |-> IF c \in ctimer_list THEN now + interval[c] ELSE due[c]]
  /\ owner' = [c \in Timer |-> IF c \in ctimer_list THEN ctimer_process ELSE owner[c]]
  /\ asked' = due'
  /\ UNCHANGED <<now, queue, alive, ctimer_list, interval>>

Callback(c) ==
  /\ queue # << >> /\ Head(queue).et = c
  /\ c \in ctimer_list
  /\ ctimer_list' = ctimer_list \ {c}
  /\ asked' = [asked EXCEPT ![c] = NULL]
  /\ STake
  /\ UNCHANGED <<initialized, start, interval>>

\* the event of a timer that was stopped after it was posted
Ignore(c) ==
  /\ queue # << >> /\ Head(queue).et = c
  /\ c \notin ctimer_list
  /\ STake
  /\ UNCHANGED cvars

--------------------------------------------------------------------------------
(* The calls of a program, or of a callback.  The etimer calls are made in *)
(* the context of ctimer_process.                                          *)

\* etimer_set, etimer_reset, ...: the etimer runs from s for i
SetEtimer(c, s, i) ==
  /\ Queued(c) => "set_queued" \in Liberties
  /\ ctimer_list' = ctimer_list \cup {c}
  /\ interval' = [interval EXCEPT ![c] = i]
  /\ UNCHANGED initialized
  /\ IF initialized
     THEN /\ start' = [start EXCEPT ![c] = s]
          /\ SArm(c, ctimer_process, s + i)
          /\ asked' = [asked EXCEPT ![c] = s + i]
     ELSE UNCHANGED <<svars, start, asked>>

\* timer_reset
Restarted(c) == IF now >= start[c] + interval[c] THEN start[c] + interval[c] ELSE start[c]

ctimer_set(c, i) == SetEtimer(c, now, i)
ctimer_reset(c) == SetEtimer(c, Restarted(c), interval[c])
ctimer_reset_with_new_interval(c, i) == SetEtimer(c, Restarted(c), i)
ctimer_restart(c) == SetEtimer(c, now, interval[c])

\* mutant of ctimer_stop
ctimer_stopListed(c) ==
  /\ IF initialized THEN SStop(c) ELSE UNCHANGED svars
  /\ asked' = [asked EXCEPT ![c] = NULL]
  /\ UNCHANGED <<initialized, ctimer_list, start, interval>>
\* mutant of ctimer_stop
ctimer_stopUnlisted(c) ==
  /\ ctimer_list' = ctimer_list \ {c}
  /\ asked' = [asked EXCEPT ![c] = NULL]
  /\ UNCHANGED <<svars, initialized, start, interval>>
ctimer_stop(c) ==
  /\ ctimer_list' = ctimer_list \ {c}
  /\ IF initialized THEN SStop(c) ELSE UNCHANGED svars
  /\ asked' = [asked EXCEPT ![c] = NULL]
  /\ UNCHANGED <<initialized, start, interval>>

Calls(c) ==
  \/ \E i \in Interval : ctimer_set(c, i) \/ ctimer_reset_with_new_interval(c, i)
  \/ ctimer_reset(c)
  \/ ctimer_restart(c)
  \/ ctimer_stop(c)

Next ==
  \/ Tick \/ Other \/ TakeOther \/ StartTimers
  \/ \E c \in Timer : Fire(c) \/ Callback(c) \/ Ignore(c) \/ Calls(c)

Spec == Init /\ [][Next]_vars

Deliveries == TakeOther \/ \E c \in Timer : Callback(c) \/ Ignore(c)
FairSpec ==
  /\ Spec /\ WF_vars(StartTimers) /\ WF_vars(Deliveries)
  /\ \A c \in Timer : SF_vars(Fire(c))

--------------------------------------------------------------------------------
(* Properties.                                                             *)

(* A callback is made only for a setting that is not stopped and whose     *)
(* time has come: "When the callback timer expires, the callback function  *)
(* f will be called" (ctimer.h:122).                                       *)
NotEarly == [][\A c \in Timer : Callback(c) => asked[c] # NULL /\ asked[c] <= now]_vars

(* The list and the etimers agree.  When the callback was made or the      *)
(* ctimer was stopped, no etimer is left running for it: ctimer_expired,    *)
(* which asks the etimer, is right, and no event comes that could be taken  *)
(* for the event of a later setting.  A callback the program waits for is   *)
(* not lost: its ctimer is on the list and either the etimer runs to that   *)
(* very time or the event is queued.                                        *)
NoGhost == initialized => \A c \in Timer \ ctimer_list : due[c] = NULL
NothingLost ==
  \A c \in Timer : asked[c] # NULL =>
     c \in ctimer_list /\ (due[c] = asked[c] \/ Queued(c))
EtimersMatch == NoGhost /\ NothingLost

(* A callback that is due is made, unless the ctimer is stopped or set     *)
(* again; in the end a ctimer set before ctimer_process ran is not lost.   *)
CallbackComes ==
  \A c \in Timer :
    /\ (asked[c] # NULL /\ asked[c] <= now) ~> (asked[c] = NULL \/ asked[c] > now)
    /\ (c \in ctimer_list) ~> (c \notin ctimer_list \/ asked[c] # NULL)
================================================================================
