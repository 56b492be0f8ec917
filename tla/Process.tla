-------------------------------- MODULE Process --------------------------------
(***************************************************************************)
(* os/sys/process.c: the process kernel.  Cooperative processes are kept   *)
(* on a linked list; each is a thread function that the kernel calls with  *)
(* an event.  Events come from polls, which an interrupt may request at    *)
(* any time, and from a bounded queue.                                     *)
(*                                                                         *)
(* The kernel is re-entrant: a thread may post synchronously, start or     *)
(* exit a process, and every one of these calls other threads before it    *)
(* returns.  The C call stack is the variable stack, whose head is the     *)
(* function being executed; a loop over the list keeps its cursor in its   *)
(* frame and reads the next pointer only when the call it made returns.    *)
(***************************************************************************)
EXTENDS Naturals, Sequences, FiniteSets, Circular, LinkedList

CONSTANTS
  Proc,       (* struct process objects                                    *)
  NULL,       (* also PROCESS_BROADCAST, as in process.h                   *)
  NumEvents,  (* PROCESS_CONF_NUMEVENTS                                    *)
  MaxStack,   (* bound: frames of the stack under which threads make calls *)
  MaxOps,     (* bound: calls one activation of a thread makes             *)
  Liberties   (* what threads may do beyond the discipline of MayExit,     *)
              (* MayLeave, MayStart and MayCall                            *)

ASSUME NumEventsAssumption == NumEvents \in Nat \ {0}
ASSUME MaxOpsAssumption == MaxOps \in Nat
ASSUME ProcAssumption == IsFiniteSet(Proc)
ASSUME NullAssumption == NULL \notin Proc
ASSUME LibertiesAssumption ==
  Liberties \subseteq {"exit_called", "leave_in_exited", "busy_exit", "restart_cursor"}

VARIABLES
  process_list,     (* the head of the list                                *)
  next,             (* p->next                                             *)
  state,            (* p->state                                            *)
  needspoll,        (* p->needspoll                                        *)
  process_current,
  events,           (* the event queue: [p |-> receiver, ev |-> event]     *)
  fevent,
  nevents,
  poll_requested,
  stack,
  want,             (* history: polls not yet delivered                    *)
  due,              (* history: whom the current broadcast must yet reach  *)
  got               (* history: whom the current broadcast has reached     *)

list   == <<process_list, next>>
queue  == <<events, fevent, nevents>>
ghosts == <<want, due, got>>
vars   == <<process_list, next, state, needspoll, process_current, events,
            fevent, nevents, poll_requested, stack, want, due, got>>

Event == {"init", "poll", "exit", "exited", "msg"}
Pointer == Proc \cup {NULL}

\* the processes a traversal that starts at c would visit
ReachFrom(c) == Reachable(Proc, NULL, next, c)

Listed == ReachFrom(process_list)

--------------------------------------------------------------------------------
(* Stack frames: op is the function and the place in it, p its process or  *)
(* its cursor, ev its event, cur the saved process_current, left what is   *)
(* left of MaxOps.                                                         *)

Frame(op, p, ev, cur) == [op |-> op, p |-> p, ev |-> ev, cur |-> cur, left |-> 0]
Thread(op, p, ev) == [op |-> op, p |-> p, ev |-> ev, cur |-> NULL, left |-> MaxOps]

\* a loop's cursor, and the process of a call in progress
LoopOp == {"boot", "event", "poll", "bcast", "exited"}
CallOp == {"polled", "bcastcall", "bcasted", "thread", "exiting", "unlink",
           "exitednext", "restore"}
FrameType ==
  [op : LoopOp, p : Pointer, ev : Event, cur : Pointer, left : Nat] \cup
  [op : CallOp, p : Proc, ev : Event, cur : Pointer, left : Nat]

Push(f, k) == <<f>> \o k
top  == Head(stack)
rest == Tail(stack)
At(op) == stack # << >> /\ top.op = op
On(ops) == {i \in DOMAIN stack : stack[i].op \in ops}

\* process_is_running
process_is_running(p) == state[p] # "none"

\* mutant of call_process
call_processAgain(p, ev, k) ==
  IF process_is_running(p)
  THEN /\ process_current' = p
       /\ state' = [state EXCEPT ![p] = "called"]
       /\ stack' = Push(Thread("thread", p, ev), k)
  ELSE /\ stack' = k
       /\ UNCHANGED <<process_current, state>>

(* call_process up to the thread's first statement: only a process in      *)
(* state RUNNING is called, so one that is being called is not called      *)
(* again.  k is what the caller does next.                                 *)
call_process(p, ev, k) ==
  IF state[p] = "running"
  THEN /\ process_current' = p
       /\ state' = [state EXCEPT ![p] = "called"]
       /\ stack' = Push(Thread("thread", p, ev), k)
  ELSE /\ stack' = k
       /\ UNCHANGED <<process_current, state>>

(* The end of exit_process(p, fromprocess), after the EXIT handler.        *)
Unlink(p, k) == Push(Frame("unlink", p, "exit", process_current), k)

(* if(poll_requested) do_poll(), and then k: the loop starts at the head   *)
ServePolls(k) ==
  /\ poll_requested' = FALSE
  /\ stack' = IF poll_requested THEN Push(Frame("poll", process_list, "poll", NULL), k)
                                ELSE k

(* process_poll: nothing for a process that is not running                 *)
PollEffect(p) ==
  IF process_is_running(p)
  THEN /\ needspoll' = [needspoll EXCEPT ![p] = TRUE]
       /\ poll_requested' = TRUE
       /\ want' = want \cup {p}
  ELSE UNCHANGED <<needspoll, poll_requested, want>>

--------------------------------------------------------------------------------
(* The main program: process_init, the start of the first processes, then  *)
(* process_run for ever.                                                   *)

Init ==
  /\ process_list = NULL
  /\ next = [p \in Proc |-> NULL]
  /\ state = [p \in Proc |-> "none"]
  /\ needspoll = [p \in Proc |-> FALSE]
  /\ process_current = NULL
  /\ events = [i \in 0 .. NumEvents - 1 |-> [p |-> NULL, ev |-> "msg"]]
  /\ fevent = 0
  /\ nevents = 0
  /\ poll_requested = FALSE
  /\ stack = <<[Thread("boot", NULL, "msg") EXCEPT !.left = Cardinality(Proc)]>>
  /\ want = {}
  /\ due = {}
  /\ got = {}

(* the boot is over                                                        *)
BootDone ==
  /\ At("boot")
  /\ stack' = rest
  /\ UNCHANGED <<list, queue, ghosts, state, needspoll, process_current, poll_requested>>

\* mutant of Run
RunPollsOnly ==
  /\ stack = << >>
  /\ ServePolls(IF poll_requested THEN stack ELSE Push(Frame("event", NULL, "msg", NULL), stack))
  /\ UNCHANGED <<list, queue, ghosts, state, needspoll, process_current>>

\* mutant of Run
RunEventsFirst ==
  /\ stack = << >>
  /\ IF nevents = 0
     THEN ServePolls(stack)
     ELSE /\ stack' = Push(Frame("event", NULL, "msg", NULL), stack)
          /\ UNCHANGED poll_requested
  /\ UNCHANGED <<list, queue, ghosts, state, needspoll, process_current>>

(* process_run: do_poll if a poll was requested, then do_event             *)
Run ==
  /\ stack = << >>
  /\ ServePolls(Push(Frame("event", NULL, "msg", NULL), stack))
  /\ UNCHANGED <<list, queue, ghosts, state, needspoll, process_current>>

(* do_event: take the first event and start to deliver it                  *)
DoEvent ==
  /\ At("event")
  /\ IF nevents = 0
     THEN /\ stack' = rest
          /\ UNCHANGED <<fevent, nevents, state, process_current, due, got>>
     ELSE LET e == events[fevent]
          IN  /\ fevent' = Place(NumEvents, fevent, 1)
              /\ nevents' = nevents - 1
              /\ IF e.p = NULL
                 THEN /\ stack' = Push(Frame("bcast", process_list, e.ev, NULL), rest)
                      /\ due' = Listed
                      /\ got' = {}
                      /\ UNCHANGED <<state, process_current>>
                 ELSE /\ call_process(e.p, e.ev, rest)
                      /\ UNCHANGED <<due, got>>
  /\ UNCHANGED <<list, events, needspoll, poll_requested, want>>

(* do_event, the broadcast loop: polls are served before each process      *)
Broadcast ==
  /\ At("bcast")
  /\ IF top.p = NULL
     THEN /\ stack' = rest
          /\ UNCHANGED poll_requested
     ELSE ServePolls(Push([top EXCEPT !.op = "bcastcall"], rest))
  /\ UNCHANGED <<list, queue, ghosts, state, needspoll, process_current>>

BroadcastCall ==
  /\ At("bcastcall")
  /\ call_process(top.p, top.ev, Push([top EXCEPT !.op = "bcasted"], rest))
  /\ IF state[top.p] = "running"
     THEN /\ due' = due \ {top.p}
          /\ got' = got \cup {top.p}
     ELSE UNCHANGED <<due, got>>
  /\ UNCHANGED <<list, queue, needspoll, poll_requested, want>>

BroadcastNext ==
  /\ At("bcasted")
  /\ stack' = Push([top EXCEPT !.op = "bcast", !.p = next[top.p]], rest)
  /\ UNCHANGED <<list, queue, ghosts, state, needspoll, process_current, poll_requested>>

(* do_poll, one turn of its loop                                           *)
DoPoll ==
  /\ At("poll")
  /\ \/ /\ top.p = NULL
        /\ stack' = rest
        /\ UNCHANGED <<state, needspoll, process_current, want>>
     \/ /\ top.p # NULL
        /\ ~needspoll[top.p]
        /\ stack' = Push([top EXCEPT !.p = next[top.p]], rest)
        /\ UNCHANGED <<state, needspoll, process_current, want>>
     \/ /\ top.p # NULL
        /\ needspoll[top.p]
        /\ needspoll' = [needspoll EXCEPT ![top.p] = FALSE]
        /\ state' = [state EXCEPT ![top.p] = "called"]
        /\ process_current' = top.p
        /\ stack' = Push(Thread("thread", top.p, "poll"),
                         Push([top EXCEPT !.op = "polled"], rest))
        /\ want' = want \ {top.p}
  /\ UNCHANGED <<list, queue, poll_requested, due, got>>

\* mutant of DoPollNext
DoPollClear ==
  /\ At("polled")
  /\ needspoll' = [needspoll EXCEPT ![top.p] = FALSE]
  /\ stack' = Push([top EXCEPT !.op = "poll", !.p = next[top.p]], rest)
  /\ UNCHANGED <<list, queue, ghosts, state, process_current, poll_requested>>

DoPollNext ==
  /\ At("polled")
  /\ stack' = Push([top EXCEPT !.op = "poll", !.p = next[top.p]], rest)
  /\ UNCHANGED <<list, queue, ghosts, state, needspoll, process_current, poll_requested>>

--------------------------------------------------------------------------------
(* exit_process(p, fromprocess).  The EXIT handler of p runs first, unless *)
(* p is exiting itself; the rest is in frames under it.                    *)
exit_process(p, k) ==
  IF p \notin Listed
  THEN /\ stack' = k
       /\ UNCHANGED process_current
  ELSE IF process_is_running(p) /\ p # process_current
  THEN /\ process_current' = p
       /\ stack' = Push(Thread("exiting", p, "exit"), Unlink(p, k))
  ELSE /\ stack' = Unlink(p, k)
       /\ UNCHANGED process_current

\* mutant of NextWithout
NextForgotten(p) ==
  [q \in Proc |-> IF q = p THEN NULL
                 ELSE IF q \in Listed /\ next[q] = p THEN next[p] ELSE next[q]]

\* mutant of NextWithout
NextUnlinked(p) == next

(* Off the list: the one before p is linked to the one after it.  p keeps  *)
(* its own next pointer, on which a loop may be standing.                  *)
NextWithout(p) ==
  [q \in Proc |-> IF q \in Listed /\ next[q] = p THEN next[p] ELSE next[q]]

(* exit_process: take p off the list; if that ended it, tell all others    *)
Remove ==
  /\ At("unlink")
  /\ LET p == top.p
     IN  /\ process_list' = IF p = process_list THEN next[p] ELSE process_list
         /\ next' = NextWithout(p)
         /\ IF process_is_running(p)
            THEN /\ state' = [state EXCEPT ![p] = "none"]
                 /\ stack' = Push(Frame("exited", process_list', "exited", top.cur), rest)
                 /\ UNCHANGED process_current
            ELSE /\ process_current' = top.cur
                 /\ stack' = rest
                 /\ UNCHANGED state
         /\ want' = want \ {p}
         /\ due' = due \ {p}
         /\ got' = got \ {p}
  /\ UNCHANGED <<queue, needspoll, poll_requested>>

(* exit_process, one turn of the loop that delivers EXITED                 *)
TellExited ==
  /\ At("exited")
  /\ IF top.p = NULL
     THEN /\ process_current' = top.cur
          /\ stack' = rest
          /\ UNCHANGED state
     ELSE call_process(top.p, "exited", Push([top EXCEPT !.op = "exitednext"], rest))
  /\ UNCHANGED <<list, queue, ghosts, needspoll, poll_requested>>

TellExitedNext ==
  /\ At("exitednext")
  /\ stack' = Push([top EXCEPT !.op = "exited", !.p = next[top.p]], rest)
  /\ UNCHANGED <<list, queue, ghosts, state, needspoll, process_current, poll_requested>>

\* mutant of Restore
RestoreNothing ==
  /\ At("restore")
  /\ stack' = rest
  /\ UNCHANGED <<list, queue, ghosts, state, needspoll, process_current, poll_requested>>

(* process_post_synch, after the call                                      *)
Restore ==
  /\ At("restore")
  /\ process_current' = top.cur
  /\ stack' = rest
  /\ UNCHANGED <<list, queue, ghosts, state, needspoll, poll_requested>>

Kernel ==
  \/ BootDone \/ Run \/ DoEvent \/ Broadcast \/ BroadcastCall \/ BroadcastNext
  \/ DoPoll \/ DoPollNext \/ Remove \/ TellExited \/ TellExitedNext \/ Restore

--------------------------------------------------------------------------------
(* Threads.  A thread makes up to MaxOps calls of the kernel, then yields, *)
(* waits or ends.                                                          *)

InThread == stack # << >> /\ top.op \in {"thread", "exiting"}
HasLeft == stack # << >> /\ top.left > 0
CanCall == InThread /\ HasLeft
spent == Push([top EXCEPT !.left = @ - 1], rest)

(* The discipline the processes of this repository keep.  A process exits  *)
(* only processes it is not being called by, itself included; no process   *)
(* ends in its EXITED handler; an EXIT handler calls no other thread; and  *)
(* a process that ended is not started anew while a loop of the kernel     *)
(* stands on it or comes to it through the pointers of others that ended.  *)
MayLeave == "leave_in_exited" \in Liberties \/ On({"exited", "exitednext"}) = {}
MayExit(p) == /\ MayLeave
              /\ "exit_called" \in Liberties \/ state[p] # "called"
MayCall == "busy_exit" \in Liberties \/ On({"exiting"}) = {}
MayStart(p) ==
  \/ "restart_cursor" \in Liberties
  \/ \A i \in On({"polled", "bcast", "bcastcall", "bcasted"}) : p \notin ReachFrom(stack[i].p)

Room == Len(stack) < MaxStack

(* process_start                                                           *)
process_start(p) ==
  /\ HasLeft
  /\ At("boot") \/ (InThread /\ MayCall /\ Room /\ MayStart(p))
  /\ p \notin Listed
  /\ process_list' = p
  /\ next' = [next EXCEPT ![p] = process_list]
  /\ state' = [state EXCEPT ![p] = "called"]
  /\ process_current' = p
  /\ stack' = Push(Thread("thread", p, "init"),
                   Push(Frame("restore", p, "init", process_current), spent))
  /\ UNCHANGED <<queue, ghosts, needspoll, poll_requested>>

\* mutant of process_post
process_postFromStart(p) ==
  /\ CanCall
  /\ stack' = spent
  /\ IF nevents = NumEvents
     THEN UNCHANGED <<events, nevents>>
     ELSE /\ events' = [events EXCEPT ![nevents] = [p |-> p, ev |-> "msg"]]
          /\ nevents' = nevents + 1
  /\ UNCHANGED <<list, ghosts, state, needspoll, process_current, fevent, poll_requested>>

(* process_post: to a process, or to all                                   *)
process_post(p) ==
  /\ CanCall
  /\ stack' = spent
  /\ IF nevents = NumEvents
     THEN UNCHANGED <<events, nevents>>
     ELSE /\ events' = [events EXCEPT ![Place(NumEvents, fevent, nevents)] =
                                        [p |-> p, ev |-> "msg"]]
          /\ nevents' = nevents + 1
  /\ UNCHANGED <<list, ghosts, state, needspoll, process_current, fevent, poll_requested>>

(* process_post_synch                                                      *)
process_post_synch(p) ==
  /\ CanCall /\ MayCall /\ Room
  /\ call_process(p, "msg", Push(Frame("restore", p, "msg", process_current), spent))
  /\ UNCHANGED <<list, queue, ghosts, needspoll, poll_requested>>

(* process_exit                                                            *)
process_exit(p) ==
  /\ CanCall /\ MayCall /\ Room /\ MayExit(p)
  /\ exit_process(p, spent)
  /\ UNCHANGED <<list, queue, ghosts, state, needspoll, poll_requested>>

(* process_poll                                                            *)
process_poll(p) ==
  /\ CanCall
  /\ PollEffect(p)
  /\ stack' = spent
  /\ UNCHANGED <<list, queue, state, process_current, due, got>>

(* the thread waits or yields: its process may be called again             *)
ThreadWaits ==
  /\ InThread
  /\ state' = IF top.op = "thread" THEN [state EXCEPT ![top.p] = "running"] ELSE state
  /\ stack' = rest
  /\ UNCHANGED <<list, queue, ghosts, needspoll, process_current, poll_requested>>

(* the thread exits or reaches its end                                     *)
ThreadEnds ==
  /\ At("thread")
  /\ MayLeave
  /\ IF top.p \in Listed
     THEN stack' = Unlink(top.p, rest)
     ELSE stack' = rest
  /\ UNCHANGED <<list, queue, ghosts, state, needspoll, process_current, poll_requested>>

(* An interrupt handler polls a process, between any two steps.            *)
InterruptPoll(p) ==
  /\ PollEffect(p)
  /\ UNCHANGED <<list, queue, state, process_current, stack, due, got>>

ThreadCalls ==
  \E p \in Proc : \/ process_start(p) \/ process_post(p) \/ process_post_synch(p)
                  \/ process_exit(p) \/ process_poll(p)

Step == Kernel \/ ThreadCalls \/ process_post(NULL) \/ ThreadWaits \/ ThreadEnds
Next == Step \/ \E p \in Proc : InterruptPoll(p)

(* The CPU runs the kernel and the threads, and every thread returns.      *)
Spec == Init /\ [][Next]_vars
FairSpec == Spec /\ WF_vars(Step)

--------------------------------------------------------------------------------
(* Properties.                                                             *)

TypeOK ==
  /\ process_list \in Pointer
  /\ next \in [Proc -> Pointer]
  /\ state \in [Proc -> {"none", "running", "called"}]
  /\ needspoll \in [Proc -> BOOLEAN]
  /\ process_current \in Pointer
  /\ events \in [0 .. NumEvents - 1 -> [p : Pointer, ev : Event]]
  /\ fevent \in 0 .. NumEvents - 1
  /\ nevents \in 0 .. NumEvents
  /\ poll_requested \in BOOLEAN
  /\ stack \in Seq(FrameType)
  /\ want \subseteq Proc /\ due \subseteq Proc /\ got \subseteq Proc

(* The list is what process_is_running says: a process is on it exactly    *)
(* while it is not in state NONE, so that an exited process is never       *)
(* called and a running one is never out of reach of a broadcast.          *)
ListedIsRunning == Listed = {p \in Proc : process_is_running(p)}

(* The thread that executes is the one PROCESS_CURRENT names, after any    *)
(* nesting of synchronous posts, starts and exits.                         *)
CurrentIsExecuting == InThread => process_current = top.p

(* No process is called while it is being called: its protothread has one  *)
(* activation.                                                             *)
OneActivation ==
  \A i, j \in On({"thread", "exiting"}) : stack[i].p = stack[j].p => i = j

(* A poll is delivered: until it is, needspoll is set, and either another  *)
(* round is requested or the one in progress will still come to it.        *)
PollsAhead ==
  UNION {ReachFrom(IF stack[i].op = "poll" THEN stack[i].p ELSE next[stack[i].p])
           : i \in On({"poll", "polled"})}
NoLostPoll ==
  \A p \in want : needspoll[p] /\ (poll_requested \/ p \in PollsAhead)

(* A broadcast reaches every process that is there from its start to its   *)
(* end, whatever starts, exits or is polled between, and reaches it once.  *)
BroadcastAhead(f) ==
  ReachFrom(IF f.op = "bcasted" THEN next[f.p] ELSE f.p)
BroadcastExact ==
  \A i \in On({"bcast", "bcastcall", "bcasted"}) :
    due \subseteq BroadcastAhead(stack[i]) /\ got \cap BroadcastAhead(stack[i]) = {}

(* The event queue is a bounded FIFO: nothing posted is lost, overwritten  *)
(* or delivered out of order.                                              *)
Waiting == Contents(NumEvents, events, fevent, nevents)
Fifo == INSTANCE BoundedFifo
          WITH queue <- Waiting, Capacity <- NumEvents, Elem <- [p : Pointer, ev : Event]
FifoSpec == Fifo!Spec

(* Every poll of a process that stays is delivered in the end (stated for  *)
(* one of them, for the specification does not tell them apart), and       *)
(* events are taken for ever, unless there are none: as the queue is a     *)
(* FIFO, each posted event is, although interrupts may poll for ever.      *)
one == CHOOSE p \in Proc : TRUE
PollDelivered == one \in want ~> one \notin want
EventTaken == []<>(nevents = 0) \/ []<><<nevents' < nevents>>_nevents
================================================================================
