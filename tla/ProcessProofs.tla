----------------------------- MODULE ProcessProofs -----------------------------
(***************************************************************************)
(* Theorems about the process kernel, for any set of processes, any size   *)
(* of the event queue and any bounds of the stack and of the threads'      *)
(* calls: the types, the event queue and process_current whatever the      *)
(* threads do, the list, the polls and the broadcasts if the threads keep  *)
(* the discipline of MayExit, MayLeave, MayStart and MayCall               *)
(* (Liberties = {}).                                                       *)
(***************************************************************************)
EXTENDS Process, DataLemmas, FiniteSetTheorems

--------------------------------------------------------------------------------
(* The call stack as a data structure.                                     *)

LEMMA PushIs ==
  ASSUME NEW S, NEW f \in S, NEW k \in Seq(S)
  PROVE  /\ Push(f, k) \in Seq(S)
         /\ Push(f, k) # << >>
         /\ Head(Push(f, k)) = f
         /\ Tail(Push(f, k)) = k
         /\ Len(Push(f, k)) = Len(k) + 1
         /\ Push(f, k)[1] = f
         /\ \A i \in 1 .. Len(k) : Push(f, k)[i + 1] = k[i]
<1>1. <<f>> \in Seq(S) /\ Len(<<f>>) = 1 /\ <<f>>[1] = f
  OBVIOUS
<1> QED
  BY <1>1 DEF Push

LEMMA PopIs ==
  ASSUME NEW S, NEW s \in Seq(S), s # << >>
  PROVE  /\ Head(s) \in S
         /\ Tail(s) \in Seq(S)
OBVIOUS

LEMMA FramesAreTyped ==
  /\ \A op \in LoopOp, p \in Pointer, ev \in Event, cur \in Pointer :
       Frame(op, p, ev, cur) \in FrameType
  /\ \A op \in CallOp, p \in Proc, ev \in Event, cur \in Pointer :
       Frame(op, p, ev, cur) \in FrameType
  /\ \A op \in CallOp, p \in Proc, ev \in Event : Thread(op, p, ev) \in FrameType
BY MaxOpsAssumption DEF Frame, Thread, FrameType, LoopOp, CallOp, Pointer, Event

LEMMA FrameFields ==
  ASSUME NEW f \in FrameType
  PROVE  /\ f.op \in LoopOp \cup CallOp /\ f.p \in Pointer /\ f.ev \in Event
         /\ f.cur \in Pointer /\ f.left \in Nat
         /\ f.op \in CallOp => f.p \in Proc
         /\ \A op \in LoopOp, p \in Pointer : [f EXCEPT !.op = op, !.p = p] \in FrameType
         /\ \A op \in CallOp : f.p \in Proc => [f EXCEPT !.op = op] \in FrameType
         /\ f.op \in LoopOp => \A p \in Pointer : [f EXCEPT !.p = p] \in FrameType
         /\ f.left > 0 => [f EXCEPT !.left = @ - 1] \in FrameType
<1> DEFINE FT(Op, P) == [op : Op, p : P, ev : Event, cur : Pointer, left : Nat]
<1>1. FrameType = FT(LoopOp, Pointer) \cup FT(CallOp, Proc)
  BY DEF FrameType
<1>2. Proc \subseteq Pointer
  BY DEF Pointer
<1>3. CASE f \in FT(LoopOp, Pointer)
  <2>1. /\ f.op \in LoopOp /\ f.p \in Pointer /\ f.ev \in Event
        /\ f.cur \in Pointer /\ f.left \in Nat
    BY <1>3
  <2>2. f.op \notin CallOp
    BY <2>1 DEF LoopOp, CallOp
  <2>3. \A op \in LoopOp, p \in Pointer : [f EXCEPT !.op = op, !.p = p] \in FT(LoopOp, Pointer)
    BY <1>3
  <2>4. \A op \in CallOp : f.p \in Proc => [f EXCEPT !.op = op] \in FT(CallOp, Proc)
    BY <1>3
  <2>5. \A p \in Pointer : [f EXCEPT !.p = p] \in FT(LoopOp, Pointer)
    BY <1>3
  <2>6. f.left > 0 => [f EXCEPT !.left = @ - 1] \in FT(LoopOp, Pointer)
    BY <1>3
  <2> QED
    BY <1>1, <2>1, <2>2, <2>3, <2>4, <2>5, <2>6
<1>4. CASE f \in FT(CallOp, Proc)
  <2>1. /\ f.op \in CallOp /\ f.p \in Proc /\ f.ev \in Event
        /\ f.cur \in Pointer /\ f.left \in Nat
    BY <1>4
  <2>2. f.op \notin LoopOp
    BY <2>1 DEF LoopOp, CallOp
  <2>3. \A op \in LoopOp, p \in Pointer : [f EXCEPT !.op = op, !.p = p] \in FT(LoopOp, Pointer)
    BY <1>4
  <2>4. \A op \in CallOp : [f EXCEPT !.op = op] \in FT(CallOp, Proc)
    BY <1>4
  <2>6. f.left > 0 => [f EXCEPT !.left = @ - 1] \in FT(CallOp, Proc)
    BY <1>4
  <2> QED
    BY <1>1, <1>2, <2>1, <2>2, <2>3, <2>4, <2>6
<1> QED
  BY <1>1, <1>3, <1>4

--------------------------------------------------------------------------------
(* Type correctness.                                                       *)

LEMMA TopIs ==
  ASSUME TypeOK, stack # << >>
  PROVE  top \in FrameType /\ rest \in Seq(FrameType)
BY PopIs DEF TypeOK, top, rest

LEMMA SpentIs ==
  ASSUME TypeOK, HasLeft
  PROVE  spent \in Seq(FrameType) /\ spent # << >> /\ top.left - 1 \in Nat
<1>1. top \in FrameType /\ rest \in Seq(FrameType)
  BY TopIs DEF HasLeft
<1>2. [top EXCEPT !.left = @ - 1] \in FrameType /\ top.left \in Nat /\ top.left > 0
  BY <1>1, FrameFields DEF HasLeft
<1> DEFINE f == [top EXCEPT !.left = @ - 1]
           k == rest
<1> HIDE DEF f, k
<1>3. Push(f, k) \in Seq(FrameType) /\ Push(f, k) # << >>
  BY <1>1, <1>2, PushIs DEF f, k
<1> QED
  BY <1>2, <1>3 DEF spent, f, k

LEMMA CallIsTyped ==
  ASSUME TypeOK, NEW p \in Proc, NEW ev \in Event, NEW k \in Seq(FrameType),
         call_process(p, ev, k)
  PROVE  /\ process_current' \in Pointer
         /\ state' \in [Proc -> {"none", "running", "called"}]
         /\ stack' \in Seq(FrameType)
<1>1. "thread" \in CallOp
  BY DEF CallOp
<1>2. Thread("thread", p, ev) \in FrameType
  BY <1>1, FramesAreTyped
<1>3. Push(Thread("thread", p, ev), k) \in Seq(FrameType)
  BY <1>2, PushIs
<1>4. CASE state[p] = "running"
  BY <1>3, <1>4 DEF call_process, TypeOK, Pointer
<1>5. CASE state[p] # "running"
  BY <1>5 DEF call_process, TypeOK
<1> QED
  BY <1>4, <1>5

LEMMA UnlinkIsTyped ==
  ASSUME TypeOK, NEW p \in Proc, NEW k \in Seq(FrameType)
  PROVE  Unlink(p, k) \in Seq(FrameType)
<1>1. Frame("unlink", p, "exit", process_current) \in FrameType
  BY FramesAreTyped DEF CallOp, Event, TypeOK
<1> QED
  BY <1>1, PushIs DEF Unlink

LEMMA ExitIsTyped ==
  ASSUME TypeOK, NEW p \in Proc, NEW k \in Seq(FrameType), exit_process(p, k)
  PROVE  process_current' \in Pointer /\ stack' \in Seq(FrameType)
<1>1. Unlink(p, k) \in Seq(FrameType)
  BY UnlinkIsTyped
<1>2. Thread("exiting", p, "exit") \in FrameType
  BY FramesAreTyped DEF CallOp, Event
<1>3. Push(Thread("exiting", p, "exit"), Unlink(p, k)) \in Seq(FrameType)
  BY <1>1, <1>2, PushIs
<1> QED
  BY <1>1, <1>3 DEF exit_process, TypeOK, Pointer

LEMMA ServePollsIsTyped ==
  ASSUME TypeOK, NEW k \in Seq(FrameType), ServePolls(k)
  PROVE  poll_requested' \in BOOLEAN /\ stack' \in Seq(FrameType)
<1>1. Frame("poll", process_list, "poll", NULL) \in FrameType
  BY FramesAreTyped DEF LoopOp, Event, Pointer, TypeOK
<1>2. Push(Frame("poll", process_list, "poll", NULL), k) \in Seq(FrameType)
  BY <1>1, PushIs
<1> QED
  BY <1>2 DEF ServePolls

LEMMA PollIsTyped ==
  ASSUME TypeOK, NEW p \in Proc, PollEffect(p)
  PROVE  /\ needspoll' \in [Proc -> BOOLEAN] /\ poll_requested' \in BOOLEAN
         /\ want' \subseteq Proc
BY DEF TypeOK, PollEffect

(* a loop that stands on a process, and one that has moved on              *)
LEMMA MovedIsTyped ==
  ASSUME TypeOK, stack # << >>
  PROVE  /\ \A op \in LoopOp : top.op \in CallOp =>
               Push([top EXCEPT !.op = op, !.p = next[top.p]], rest) \in Seq(FrameType)
         /\ \A op \in CallOp : top.p \in Proc =>
               Push([top EXCEPT !.op = op], rest) \in Seq(FrameType)
         /\ (top.op \in LoopOp /\ top.p \in Proc) =>
               Push([top EXCEPT !.p = next[top.p]], rest) \in Seq(FrameType)
<1>1. top \in FrameType /\ rest \in Seq(FrameType)
  BY TopIs
<1>2. \A p \in Proc : next[p] \in Pointer
  BY DEF TypeOK
<1>3. /\ \A op \in LoopOp : top.op \in CallOp => [top EXCEPT !.op = op, !.p = next[top.p]] \in FrameType
      /\ \A op \in CallOp : top.p \in Proc => [top EXCEPT !.op = op] \in FrameType
      /\ (top.op \in LoopOp /\ top.p \in Proc) => [top EXCEPT !.p = next[top.p]] \in FrameType
  BY <1>1, <1>2, FrameFields
<1> QED
  BY <1>1, <1>3, PushIs
LEMMA InitIsTyped == Init => TypeOK
<1> SUFFICES ASSUME Init PROVE TypeOK
  OBVIOUS
<1> DEFINE f == [Thread("boot", NULL, "msg") EXCEPT !.left = Cardinality(Proc)]
<1>1. Cardinality(Proc) \in Nat
  BY ProcAssumption, FS_CardinalityType
<1>2. f \in FrameType
  BY <1>1 DEF Thread, FrameType, LoopOp, Pointer, Event
<1>3. stack \in Seq(FrameType)
  BY <1>2 DEF Init
<1>4. /\ fevent \in 0 .. NumEvents - 1 /\ nevents \in 0 .. NumEvents
      /\ events \in [0 .. NumEvents - 1 -> [p : Pointer, ev : Event]]
  BY NumEventsAssumption DEF Init, Pointer, Event
<1>5. /\ process_list \in Pointer /\ next \in [Proc -> Pointer]
      /\ state \in [Proc -> {"none", "running", "called"}]
      /\ needspoll \in [Proc -> BOOLEAN] /\ process_current \in Pointer
      /\ poll_requested \in BOOLEAN
      /\ want \subseteq Proc /\ due \subseteq Proc /\ got \subseteq Proc
  BY DEF Init, Pointer
<1> QED
  BY <1>3, <1>4, <1>5 DEF TypeOK

(* The kernel's own steps.                                                 *)
LEMMA KernelIsTyped ==
  ASSUME TypeOK, Kernel
  PROVE  TypeOK'
<1>1. CASE BootDone
  BY <1>1, TopIs DEF BootDone, At, TypeOK, list, queue, ghosts
<1>2. CASE Run
  <2>1. Frame("event", NULL, "msg", NULL) \in FrameType
    BY FramesAreTyped DEF LoopOp, Pointer, Event
  <2>2. Push(Frame("event", NULL, "msg", NULL), stack) \in Seq(FrameType)
    BY <2>1, PushIs DEF TypeOK
  <2>3. poll_requested' \in BOOLEAN /\ stack' \in Seq(FrameType)
    BY <1>2, <2>2, ServePollsIsTyped DEF Run
  <2> QED
    BY <1>2, <2>3 DEF Run, TypeOK, list, queue, ghosts
<1>3. CASE DoEvent
  <2>1. rest \in Seq(FrameType)
    BY <1>3, TopIs DEF DoEvent, At
  <2>2. CASE nevents = 0
    BY <1>3, <2>1, <2>2 DEF DoEvent, TypeOK, list
  <2>3. CASE nevents # 0
    <3> DEFINE e == events[fevent]
    <3>1. e.p \in Pointer /\ e.ev \in Event
      BY DEF TypeOK
    <3>2. fevent' \in 0 .. NumEvents - 1 /\ nevents' \in 0 .. NumEvents
      <4>1. NumEvents \in Nat /\ NumEvents > 0
        BY NumEventsAssumption
      <4>2. fevent' = (fevent + 1) % NumEvents /\ nevents' = nevents - 1
        BY <1>3, <2>3 DEF DoEvent, Place
      <4> QED
        BY <2>3, <4>1, <4>2 DEF TypeOK
    <3>3. CASE e.p = NULL
      <4>1. Frame("bcast", process_list, e.ev, NULL) \in FrameType
        BY <3>1, FramesAreTyped DEF LoopOp, Pointer, TypeOK
      <4>2. Push(Frame("bcast", process_list, e.ev, NULL), rest) \in Seq(FrameType)
        BY <2>1, <4>1, PushIs
      <4>3. Listed \subseteq Proc
        BY DEF Listed, ReachFrom, Reachable
      <4> QED
        BY <1>3, <2>3, <3>2, <3>3, <4>2, <4>3 DEF DoEvent, TypeOK, list
    <3>4. CASE e.p # NULL
      <4>1. e.p \in Proc /\ call_process(e.p, e.ev, rest)
        BY <1>3, <2>3, <3>1, <3>4 DEF DoEvent, Pointer
      <4> HIDE DEF e
      <4>2. /\ process_current' \in Pointer /\ stack' \in Seq(FrameType)
            /\ state' \in [Proc -> {"none", "running", "called"}]
        BY <2>1, <3>1, <4>1, CallIsTyped
      <4>3. UNCHANGED <<list, events, needspoll, poll_requested, want, due, got>>
        BY <1>3, <2>3, <3>4 DEF DoEvent, e
      <4> QED
        BY <3>2, <4>2, <4>3 DEF TypeOK, list
    <3> QED
      BY <3>3, <3>4
  <2> QED
    BY <2>2, <2>3
<1>4. CASE Broadcast
  <2>1. stack # << >> /\ rest \in Seq(FrameType) /\ top.p \in Pointer
    BY <1>4, TopIs, FrameFields DEF Broadcast, At
  <2>2. CASE top.p = NULL
    BY <1>4, <2>1, <2>2 DEF Broadcast, TypeOK, list, queue, ghosts
  <2>3. CASE top.p # NULL
    <3>1. "bcastcall" \in CallOp /\ top.p \in Proc
      BY <2>1, <2>3 DEF CallOp, Pointer
    <3>2. Push([top EXCEPT !.op = "bcastcall"], rest) \in Seq(FrameType)
      BY <2>1, <3>1, MovedIsTyped
    <3>3. poll_requested' \in BOOLEAN /\ stack' \in Seq(FrameType)
      BY <1>4, <2>3, <3>2, ServePollsIsTyped DEF Broadcast
    <3> QED
      BY <1>4, <3>3 DEF Broadcast, TypeOK, list, queue, ghosts
  <2> QED
    BY <2>2, <2>3
<1>5. CASE BroadcastCall
  <2>1. top \in FrameType /\ rest \in Seq(FrameType) /\ stack # << >> /\ top.op = "bcastcall"
    BY <1>5, TopIs DEF BroadcastCall, At
  <2>2. top.p \in Proc /\ top.ev \in Event
    BY <2>1, FrameFields DEF CallOp
  <2>3. "bcasted" \in CallOp
    BY DEF CallOp
  <2>4. Push([top EXCEPT !.op = "bcasted"], rest) \in Seq(FrameType)
    BY <2>1, <2>2, <2>3, MovedIsTyped
  <2>5. /\ process_current' \in Pointer /\ stack' \in Seq(FrameType)
        /\ state' \in [Proc -> {"none", "running", "called"}]
    BY <1>5, <2>2, <2>4, CallIsTyped DEF BroadcastCall
  <2>6. due' \subseteq Proc /\ got' \subseteq Proc
    BY <1>5, <2>2 DEF BroadcastCall, TypeOK
  <2> QED
    BY <1>5, <2>5, <2>6 DEF BroadcastCall, TypeOK, list, queue
<1>6. CASE BroadcastNext
  <2>1. stack # << >> /\ top.op \in CallOp /\ "bcast" \in LoopOp
    BY <1>6 DEF BroadcastNext, At, CallOp, LoopOp
  <2>2. Push([top EXCEPT !.op = "bcast", !.p = next[top.p]], rest) \in Seq(FrameType)
    BY <2>1, MovedIsTyped
  <2> QED
    BY <1>6, <2>2 DEF BroadcastNext, TypeOK, list, queue, ghosts
<1>7. CASE DoPoll
  <2>1. /\ top \in FrameType /\ rest \in Seq(FrameType) /\ stack # << >>
        /\ top.op \in LoopOp
    BY <1>7, TopIs DEF DoPoll, At, LoopOp
  <2>2. top.p \in Pointer
    BY <2>1, FrameFields
  <2>3. CASE top.p = NULL
    BY <1>7, <2>1, <2>3 DEF DoPoll, TypeOK, list, queue
  <2>4. CASE top.p \in Proc /\ ~needspoll[top.p]
    <3>1. Push([top EXCEPT !.p = next[top.p]], rest) \in Seq(FrameType)
      BY <2>1, <2>4, MovedIsTyped
    <3>2. /\ stack' = Push([top EXCEPT !.p = next[top.p]], rest)
          /\ UNCHANGED <<state, needspoll, process_current, want>>
      BY <1>7, <2>4, NullAssumption DEF DoPoll
    <3> QED
      BY <1>7, <3>1, <3>2 DEF DoPoll, TypeOK, list, queue
  <2>5. CASE top.p \in Proc /\ needspoll[top.p]
    <3>1. "polled" \in CallOp /\ "thread" \in CallOp /\ "poll" \in Event
      BY DEF CallOp, Event
    <3>2. Push([top EXCEPT !.op = "polled"], rest) \in Seq(FrameType)
      BY <2>1, <2>5, <3>1, MovedIsTyped
    <3>3. Thread("thread", top.p, "poll") \in FrameType
      BY <2>5, <3>1, FramesAreTyped
    <3>4. stack' = Push(Thread("thread", top.p, "poll"), Push([top EXCEPT !.op = "polled"], rest))
      BY <1>7, <2>5, NullAssumption DEF DoPoll
    <3>5. stack' \in Seq(FrameType)
      BY <3>2, <3>3, <3>4, PushIs
    <3>6. /\ needspoll' = [needspoll EXCEPT ![top.p] = FALSE]
          /\ state' = [state EXCEPT ![top.p] = "called"]
          /\ process_current' = top.p
          /\ want' = want \ {top.p}
      BY <1>7, <2>5, NullAssumption DEF DoPoll
    <3> QED
      BY <1>7, <2>2, <3>5, <3>6 DEF DoPoll, TypeOK, list, queue
  <2> QED
    BY <2>2, <2>3, <2>4, <2>5 DEF Pointer
<1>8. CASE DoPollNext
  <2>1. stack # << >> /\ top.op \in CallOp /\ "poll" \in LoopOp
    BY <1>8 DEF DoPollNext, At, CallOp, LoopOp
  <2>2. Push([top EXCEPT !.op = "poll", !.p = next[top.p]], rest) \in Seq(FrameType)
    BY <2>1, MovedIsTyped
  <2> QED
    BY <1>8, <2>2 DEF DoPollNext, TypeOK, list, queue, ghosts
<1>9. CASE Remove
  <2>1. /\ top \in FrameType /\ rest \in Seq(FrameType) /\ stack # << >>
        /\ top.op \in CallOp
    BY <1>9, TopIs DEF Remove, At, CallOp
  <2>2. top.p \in Proc /\ top.cur \in Pointer
    BY <2>1, FrameFields
  <2>3. process_list' \in Pointer /\ next' \in [Proc -> Pointer]
    BY <1>9, <2>2 DEF Remove, NextWithout, TypeOK
  <2>4. Frame("exited", process_list', "exited", top.cur) \in FrameType
    BY <2>2, <2>3, FramesAreTyped DEF LoopOp, Event
  <2>5. Push(Frame("exited", process_list', "exited", top.cur), rest) \in Seq(FrameType)
    BY <2>1, <2>4, PushIs
  <2>6. /\ state' \in [Proc -> {"none", "running", "called"}]
        /\ stack' \in Seq(FrameType)
        /\ process_current' \in Pointer
    BY <1>9, <2>1, <2>2, <2>5 DEF Remove, TypeOK
  <2>7. want' \subseteq Proc /\ due' \subseteq Proc /\ got' \subseteq Proc
    BY <1>9 DEF Remove, TypeOK
  <2> QED
    BY <1>9, <2>3, <2>6, <2>7 DEF Remove, TypeOK, queue
<1>10. CASE TellExited
  <2>1. top \in FrameType /\ rest \in Seq(FrameType) /\ stack # << >>
    BY <1>10, TopIs DEF TellExited, At
  <2>2. top.p \in Pointer /\ top.cur \in Pointer
    BY <2>1, FrameFields
  <2>3. CASE top.p = NULL
    BY <1>10, <2>1, <2>2, <2>3 DEF TellExited, TypeOK, list, queue, ghosts
  <2>4. CASE top.p # NULL
    <3>1. "exitednext" \in CallOp /\ "exited" \in Event /\ top.p \in Proc
      BY <2>2, <2>4 DEF CallOp, Event, Pointer
    <3>2. Push([top EXCEPT !.op = "exitednext"], rest) \in Seq(FrameType)
      BY <2>1, <3>1, MovedIsTyped
    <3>3. /\ process_current' \in Pointer /\ stack' \in Seq(FrameType)
          /\ state' \in [Proc -> {"none", "running", "called"}]
      BY <1>10, <2>4, <3>1, <3>2, CallIsTyped DEF TellExited
    <3> QED
      BY <1>10, <3>3 DEF TellExited, TypeOK, list, queue, ghosts
  <2> QED
    BY <2>3, <2>4
<1>11. CASE TellExitedNext
  <2>1. stack # << >> /\ top.op \in CallOp /\ "exited" \in LoopOp
    BY <1>11 DEF TellExitedNext, At, CallOp, LoopOp
  <2>2. Push([top EXCEPT !.op = "exited", !.p = next[top.p]], rest) \in Seq(FrameType)
    BY <2>1, MovedIsTyped
  <2> QED
    BY <1>11, <2>2 DEF TellExitedNext, TypeOK, list, queue, ghosts
<1>12. CASE Restore
  <2>1. top.cur \in Pointer /\ rest \in Seq(FrameType)
    BY <1>12, TopIs, FrameFields DEF Restore, At
  <2> QED
    BY <1>12, <2>1 DEF Restore, TypeOK, list, queue, ghosts
<1> QED
  BY <1>1, <1>2, <1>3, <1>4, <1>5, <1>6, <1>7, <1>8, <1>9, <1>10, <1>11, <1>12 DEF Kernel
(* The calls of a thread.                                                  *)
LEMMA ThreadCallsAreTyped ==
  ASSUME TypeOK, ThreadCalls \/ process_post(NULL)
  PROVE  TypeOK'
<1>1. ASSUME NEW p \in Proc, process_start(p) PROVE TypeOK'
  <2>1. spent \in Seq(FrameType)
    BY <1>1, SpentIs DEF process_start
  <2>2. /\ Frame("restore", p, "init", process_current) \in FrameType
        /\ Thread("thread", p, "init") \in FrameType
    BY FramesAreTyped DEF CallOp, Event, TypeOK
  <2>3. Push(Frame("restore", p, "init", process_current), spent) \in Seq(FrameType)
    BY <2>1, <2>2, PushIs
  <2>4. stack' \in Seq(FrameType)
    BY <1>1, <2>2, <2>3, PushIs DEF process_start
  <2>5. /\ process_list' \in Pointer /\ next' \in [Proc -> Pointer]
        /\ process_current' \in Pointer
        /\ state' \in [Proc -> {"none", "running", "called"}]
    BY <1>1 DEF process_start, TypeOK, Pointer
  <2> QED
    BY <1>1, <2>4, <2>5 DEF process_start, TypeOK, queue, ghosts
<1>2. ASSUME NEW p \in Pointer, process_post(p) PROVE TypeOK'
  <2>1. spent \in Seq(FrameType)
    BY <1>2, SpentIs DEF process_post, CanCall
  <2>2. CASE nevents = NumEvents
    BY <1>2, <2>1, <2>2 DEF process_post, TypeOK, list, ghosts
  <2>3. CASE nevents # NumEvents
    <3>1. [p |-> p, ev |-> "msg"] \in [p : Pointer, ev : Event]
      BY DEF Event
    <3>2. events' \in [0 .. NumEvents - 1 -> [p : Pointer, ev : Event]]
      BY <1>2, <2>3, <3>1 DEF process_post, TypeOK
    <3>3. nevents' \in 0 .. NumEvents
      BY <1>2, <2>3, NumEventsAssumption DEF process_post, TypeOK
    <3> QED
      BY <1>2, <2>1, <3>2, <3>3 DEF process_post, TypeOK, list, ghosts
  <2> QED
    BY <2>2, <2>3
<1>3. ASSUME NEW p \in Proc, process_post_synch(p) PROVE TypeOK'
  <2>1. spent \in Seq(FrameType)
    BY <1>3, SpentIs DEF process_post_synch, CanCall
  <2>2. Frame("restore", p, "msg", process_current) \in FrameType /\ "msg" \in Event
    BY FramesAreTyped DEF CallOp, Event, TypeOK
  <2>3. Push(Frame("restore", p, "msg", process_current), spent) \in Seq(FrameType)
    BY <2>1, <2>2, PushIs
  <2>4. /\ process_current' \in Pointer /\ stack' \in Seq(FrameType)
        /\ state' \in [Proc -> {"none", "running", "called"}]
    BY <1>3, <2>2, <2>3, CallIsTyped DEF process_post_synch
  <2> QED
    BY <1>3, <2>4 DEF process_post_synch, TypeOK, list, queue, ghosts
<1>4. ASSUME NEW p \in Proc, process_exit(p) PROVE TypeOK'
  <2>1. spent \in Seq(FrameType)
    BY <1>4, SpentIs DEF process_exit, CanCall
  <2>2. process_current' \in Pointer /\ stack' \in Seq(FrameType)
    BY <1>4, <2>1, ExitIsTyped DEF process_exit
  <2> QED
    BY <1>4, <2>2 DEF process_exit, TypeOK, list, queue, ghosts
<1>5. ASSUME NEW p \in Proc, process_poll(p) PROVE TypeOK'
  <2>1. spent \in Seq(FrameType)
    BY <1>5, SpentIs DEF process_poll, CanCall
  <2>2. /\ needspoll' \in [Proc -> BOOLEAN] /\ poll_requested' \in BOOLEAN
        /\ want' \subseteq Proc
    BY <1>5, PollIsTyped DEF process_poll
  <2> QED
    BY <1>5, <2>1, <2>2 DEF process_poll, TypeOK, list, queue
<1> QED
  BY <1>1, <1>2, <1>3, <1>4, <1>5 DEF ThreadCalls, Pointer

LEMMA NextIsTyped ==
  ASSUME TypeOK, [Next]_vars
  PROVE  TypeOK'
<1>1. CASE ThreadWaits
  <2>1. top \in FrameType /\ rest \in Seq(FrameType) /\ top.op \in CallOp
    BY <1>1, TopIs DEF ThreadWaits, InThread, CallOp
  <2>2. top.p \in Proc
    BY <2>1, FrameFields
  <2> QED
    BY <1>1, <2>1, <2>2 DEF ThreadWaits, TypeOK, list, queue, ghosts
<1>2. CASE ThreadEnds
  <2>1. top \in FrameType /\ rest \in Seq(FrameType) /\ top.op \in CallOp
    BY <1>2, TopIs DEF ThreadEnds, At, CallOp
  <2>2. top.p \in Proc
    BY <2>1, FrameFields
  <2>3. stack' \in Seq(FrameType)
    BY <1>2, <2>1, <2>2, UnlinkIsTyped DEF ThreadEnds
  <2> QED
    BY <1>2, <2>3 DEF ThreadEnds, TypeOK, list, queue, ghosts
<1>3. ASSUME NEW p \in Proc, InterruptPoll(p) PROVE TypeOK'
  <2>1. /\ needspoll' \in [Proc -> BOOLEAN] /\ poll_requested' \in BOOLEAN
        /\ want' \subseteq Proc
    BY <1>3, PollIsTyped DEF InterruptPoll
  <2> QED
    BY <1>3, <2>1 DEF InterruptPoll, TypeOK, list, queue
<1>4. CASE UNCHANGED vars
  BY <1>4 DEF vars, TypeOK
<1> QED
  BY <1>1, <1>2, <1>3, <1>4, KernelIsTyped, ThreadCallsAreTyped DEF Next, Step

(* Every variable of the kernel keeps its type: the event queue never      *)
(* holds more than NumEvents events and no loop stands on anything but a   *)
(* process or the end of the list.                                         *)
THEOREM TypeCorrect == Spec => []TypeOK
<1>1. Init => TypeOK
  BY InitIsTyped
<1>2. TypeOK /\ [Next]_vars => TypeOK'
  BY NextIsTyped
<1> QED
  BY <1>1, <1>2, PTL DEF Spec
--------------------------------------------------------------------------------
(* The event queue implements a bounded FIFO.                              *)

Queued == [p : Pointer, ev : Event]

LEMMA QueueIs ==
  ASSUME TypeOK
  PROVE  /\ NumEvents \in Nat /\ NumEvents > 0
         /\ fevent \in 0 .. NumEvents - 1 /\ nevents \in 0 .. NumEvents
         /\ events \in [0 .. NumEvents - 1 -> Queued]
BY NumEventsAssumption DEF TypeOK, Queued

LEMMA PostPuts ==
  ASSUME TypeOK, NEW p \in Pointer, process_post(p)
  PROVE  Waiting' = Waiting \/ \E e \in Queued : Fifo!Put(e)
<1> DEFINE e == [p |-> p, ev |-> "msg"]
           n == nevents
           slots == [events EXCEPT ![Place(NumEvents, fevent, n)] = e]
<1>1. CASE nevents = NumEvents
  BY <1>1 DEF process_post, Waiting
<1>2. CASE nevents # NumEvents
  <2>1. /\ NumEvents \in Nat /\ NumEvents > 0
        /\ fevent \in 0 .. NumEvents - 1 /\ n \in 0 .. NumEvents - 1
        /\ events \in [0 .. NumEvents - 1 -> Queued] /\ e \in Queued
    BY <1>2, QueueIs DEF Queued, Event
  <2>2. events' = slots /\ nevents' = n + 1 /\ fevent' = fevent
    BY <1>2 DEF process_post
  <2> HIDE DEF e, n
  <2>3. Place(NumEvents, fevent, n) \in 0 .. NumEvents - 1
    BY <2>1, PlaceIs
  <2>4. slots \in [0 .. NumEvents - 1 -> Queued] /\ slots[Place(NumEvents, fevent, n)] = e
    BY <2>1, <2>3
  <2>5. Contents(NumEvents, slots, fevent, n) = Contents(NumEvents, events, fevent, n)
    BY <2>1, WriteFree
  <2> HIDE DEF slots
  <2>6. /\ Contents(NumEvents, slots, fevent, n + 1)
             = Append(Contents(NumEvents, slots, fevent, n), slots[Place(NumEvents, fevent, n)])
        /\ Len(Contents(NumEvents, slots, fevent, n)) = n
    BY <2>1, <2>4, CountAppends
  <2>7. Waiting' = Append(Waiting, e) /\ Len(Waiting) < NumEvents
    BY <2>1, <2>2, <2>4, <2>5, <2>6 DEF Waiting, n
  <2> QED
    BY <2>1, <2>7 DEF Fifo!Put
<1> QED
  BY <1>1, <1>2

LEMMA DoEventGets ==
  ASSUME TypeOK, DoEvent
  PROVE  Waiting' = Waiting \/ Fifo!Get
<1>1. CASE nevents = 0
  BY <1>1 DEF DoEvent, Waiting
<1>2. CASE nevents # 0
  <2>1. /\ NumEvents \in Nat /\ NumEvents > 0
        /\ fevent \in 0 .. NumEvents - 1 /\ nevents \in 1 .. NumEvents
        /\ events \in [0 .. NumEvents - 1 -> Queued]
    BY <1>2, QueueIs
  <2>2. /\ Contents(NumEvents, events, fevent, nevents) # << >>
        /\ Contents(NumEvents, events, Place(NumEvents, fevent, 1), nevents - 1)
             = Tail(Contents(NumEvents, events, fevent, nevents))
    BY <2>1, AdvanceRemoves
  <2>3. /\ fevent' = Place(NumEvents, fevent, 1) /\ nevents' = nevents - 1
        /\ events' = events
    BY <1>2 DEF DoEvent
  <2> QED
    BY <2>2, <2>3 DEF Waiting, Fifo!Get
<1> QED
  BY <1>1, <1>2

LEMMA OthersKeepQueue ==
  ASSUME \/ BootDone \/ Run \/ Broadcast \/ BroadcastCall \/ BroadcastNext \/ DoPoll
         \/ DoPollNext \/ Remove \/ TellExited \/ TellExitedNext \/ Restore
         \/ ThreadWaits \/ ThreadEnds \/ UNCHANGED vars
         \/ \E p \in Proc : \/ process_start(p) \/ process_post_synch(p) \/ process_exit(p)
                            \/ process_poll(p) \/ InterruptPoll(p)
  PROVE  Waiting' = Waiting
<1>1. queue' = queue
  BY DEF BootDone, Run, Broadcast, BroadcastCall, BroadcastNext, DoPoll, DoPollNext,
         Remove, TellExited, TellExitedNext, Restore, ThreadWaits, ThreadEnds, vars, queue,
         process_start, process_post_synch, process_exit, process_poll, InterruptPoll
<1> QED
  BY <1>1 DEF queue, Waiting

(* No event posted is lost, overwritten, duplicated or delivered out of    *)
(* order, for any queue size: process.c implements BoundedFifo.            *)
THEOREM ImplementsFifo == Spec => FifoSpec
<1>1. Init => Fifo!Init
  <2> SUFFICES ASSUME Init PROVE Waiting = << >>
    BY DEF Fifo!Init
  <2>1. nevents = 0
    BY DEF Init
  <2> QED
    BY <2>1 DEF Waiting, Contents
<1>2. TypeOK /\ [Next]_vars => [Fifo!Next]_Waiting
  <2> SUFFICES ASSUME TypeOK, [Next]_vars
               PROVE  \/ Waiting' = Waiting
                      \/ Fifo!Get
                      \/ \E e \in Queued : Fifo!Put(e)
    BY DEF Fifo!Next, Queued
  <2>1. CASE \E p \in Pointer : process_post(p)
    BY <2>1, PostPuts
  <2>2. CASE DoEvent
    BY <2>2, DoEventGets
  <2> QED
    BY <2>1, <2>2, OthersKeepQueue DEF Next, Step, Kernel, ThreadCalls, Pointer
<1> QED
  BY <1>1, <1>2, TypeCorrect, PTL DEF Spec, FifoSpec, Fifo!Spec
--------------------------------------------------------------------------------
(* process_current is restored on every path.                              *)

ThreadOp == {"thread", "exiting"}
SaveOp == {"restore", "unlink", "exited", "exitednext"}

(* A thread that is not executing has made a call, which is the frame      *)
(* above it and which saved the process_current the thread ran under.      *)
Covers(f, g) == g.op \in ThreadOp => f.op \in SaveOp /\ f.cur = g.p
Covered(s) == \A i \in 1 .. Len(s) - 1 : Covers(s[i], s[i + 1])
Saved == Covered(stack) /\ CurrentIsExecuting

LEMMA CoveredPush ==
  ASSUME NEW f \in FrameType, NEW k \in Seq(FrameType), Covered(k),
         k # << >> => Covers(f, Head(k))
  PROVE  Covered(Push(f, k))
<1> DEFINE s == Push(f, k)
<1>1. /\ Len(s) = Len(k) + 1 /\ s[1] = f
      /\ \A i \in 1 .. Len(k) : s[i + 1] = k[i]
  BY PushIs
<1> HIDE DEF s
<1>2. ASSUME NEW i \in 1 .. Len(s) - 1 PROVE Covers(s[i], s[i + 1])
  <2>1. CASE i = 1
    <3>1. k # << >> /\ Head(k) = k[1] /\ 1 \in 1 .. Len(k)
      BY <1>1, <1>2, <2>1
    <3>2. s[1 + 1] = k[1]
      BY <1>1, <3>1
    <3> QED
      BY <1>1, <2>1, <3>1, <3>2
  <2>2. CASE i # 1
    <3> DEFINE j == i - 1
    <3>1. j \in 1 .. Len(k) - 1 /\ j \in 1 .. Len(k) /\ j + 1 \in 1 .. Len(k) /\ i = j + 1
      BY <1>1, <1>2, <2>2
    <3> HIDE DEF j
    <3>2. s[j + 1] = k[j] /\ s[(j + 1) + 1] = k[j + 1]
      BY <1>1, <3>1
    <3>3. Covers(k[j], k[j + 1])
      BY <3>1 DEF Covered
    <3> QED
      BY <3>1, <3>2, <3>3
  <2> QED
    BY <2>1, <2>2
<1> QED
  BY <1>2 DEF Covered, s

LEMMA CoveredTail ==
  ASSUME NEW s \in Seq(FrameType), s # << >>, Covered(s)
  PROVE  /\ Covered(Tail(s))
         /\ Tail(s) # << >> => Covers(Head(s), Head(Tail(s)))
<1> DEFINE t == Tail(s)
<1>1. t \in Seq(FrameType) /\ Len(t) = Len(s) - 1 /\ \A i \in 1 .. Len(t) : t[i] = s[i + 1]
  OBVIOUS
<1>2. Head(s) = s[1] /\ Len(s) \in Nat
  OBVIOUS
<1> HIDE DEF t
<1>3. ASSUME NEW i \in 1 .. Len(t) - 1 PROVE Covers(t[i], t[i + 1])
  <2>1. i \in 1 .. Len(t) /\ i + 1 \in 1 .. Len(t) /\ i + 1 \in 1 .. Len(s) - 1
    BY <1>1, <1>2, <1>3
  <2>2. t[i] = s[i + 1] /\ t[i + 1] = s[(i + 1) + 1]
    BY <1>1, <2>1
  <2> QED
    BY <2>1, <2>2 DEF Covered
<1>4. t # << >> => Covers(s[1], Head(t))
  <2> SUFFICES ASSUME t # << >> PROVE Covers(s[1], Head(t))
    OBVIOUS
  <2>1. Head(t) = t[1] /\ 1 \in 1 .. Len(t) /\ 1 \in 1 .. Len(s) - 1
    BY <1>1, <1>2
  <2>2. t[1] = s[1 + 1]
    BY <1>1, <2>1
  <2> QED
    BY <2>1, <2>2 DEF Covered
<1> QED
  BY <1>2, <1>3, <1>4 DEF Covered, t

(* what is under a frame that saves nothing is not a thread                *)
LEMMA UnderTop ==
  ASSUME TypeOK, Saved, stack # << >>
  PROVE  /\ Covered(rest)
         /\ (rest # << >> /\ Head(rest).op \in ThreadOp) =>
              top.op \in SaveOp /\ top.cur = Head(rest).p
BY CoveredTail DEF TypeOK, Saved, top, rest, Covers

(* a frame on top of what is no thread                                     *)
LEMMA SavedPush ==
  ASSUME NEW f \in FrameType, NEW k \in Seq(FrameType), Covered(k),
         f.op \notin ThreadOp, k # << >> => Covers(f, Head(k)), stack' = Push(f, k)
  PROVE  Saved'
<1>1. Covered(Push(f, k))
  BY CoveredPush
<1>2. Head(Push(f, k)) = f
  BY PushIs
<1> QED
  BY <1>1, <1>2 DEF Saved, CurrentIsExecuting, InThread, top, ThreadOp
(* the top frame returns                                                   *)
LEMMA SavedPop ==
  ASSUME TypeOK, Saved, stack # << >>, stack' = rest,
         top.op \in SaveOp => process_current' = top.cur
  PROVE  Saved'
<1>1. Covered(stack')
  BY UnderTop
<1>2. CASE rest # << >> /\ Head(rest).op \in ThreadOp
  BY <1>1, <1>2, UnderTop DEF Saved, CurrentIsExecuting, top
<1>3. CASE rest = << >> \/ Head(rest).op \notin ThreadOp
  BY <1>1, <1>3 DEF Saved, CurrentIsExecuting, InThread, ThreadOp, top
<1> QED
  BY <1>2, <1>3

(* the top frame moves on, and keeps what it saved if it saved anything    *)
LEMMA SavedMove ==
  ASSUME TypeOK, Saved, stack # << >>, NEW f \in FrameType, f.op \notin ThreadOp,
         top.op \in SaveOp => f.op \in SaveOp /\ f.cur = top.cur
  PROVE  Covered(Push(f, rest)) /\ (stack' = Push(f, rest) => Saved')
<1>1. Covered(rest) /\ rest \in Seq(FrameType)
  BY UnderTop, TopIs
<1>2. rest # << >> => Covers(f, Head(rest))
  BY UnderTop DEF Covers
<1> QED
  BY <1>1, <1>2, CoveredPush, SavedPush

(* a thread is called on behalf of a frame that is no thread               *)
LEMMA SavedCall ==
  ASSUME NEW p \in Proc, NEW ev \in Event, NEW op \in ThreadOp, NEW k \in Seq(FrameType),
         Covered(k), k = << >> \/ Covers(Thread(op, p, ev), Head(k)),
         process_current' = p, stack' = Push(Thread(op, p, ev), k)
  PROVE  Saved'
<1> DEFINE f == Thread(op, p, ev)
<1>1. f \in FrameType /\ f.p = p
  BY FramesAreTyped DEF Thread, ThreadOp, CallOp
<1> HIDE DEF f
<1>2. Covered(Push(f, k)) /\ Head(Push(f, k)) = f
  BY <1>1, CoveredPush, PushIs DEF f
<1> QED
  BY <1>1, <1>2 DEF Saved, CurrentIsExecuting, top, f

LEMMA SavedByCall ==
  ASSUME NEW p \in Proc, NEW ev \in Event, NEW k \in Seq(FrameType),
         Covered(k), k = << >> \/ Head(k).op \notin ThreadOp,
         call_process(p, ev, k)
  PROVE  Saved'
<1>1. CASE state[p] = "running"
  <2>1. process_current' = p /\ stack' = Push(Thread("thread", p, ev), k)
    BY <1>1 DEF call_process
  <2>2. "thread" \in ThreadOp /\ (k = << >> \/ Covers(Thread("thread", p, ev), Head(k)))
    BY DEF ThreadOp, Covers
  <2> QED
    BY <2>1, <2>2, SavedCall
<1>2. CASE state[p] # "running"
  BY <1>2 DEF call_process, Saved, CurrentIsExecuting, InThread, ThreadOp, top
<1> QED
  BY <1>1, <1>2

(* the top frame with one call less to make is still the same function     *)
LEMMA SpentKeeps ==
  ASSUME TypeOK, Saved, HasLeft
  PROVE  /\ spent \in Seq(FrameType) /\ spent # << >>
         /\ Covered(spent)
         /\ Head(spent).op = top.op /\ Head(spent).p = top.p
<1> DEFINE f == [top EXCEPT !.left = @ - 1]
<1>1. stack # << >> /\ top \in FrameType /\ rest \in Seq(FrameType) /\ top.left > 0
  BY TopIs DEF HasLeft
<1>2. f \in FrameType
  BY <1>1, FrameFields
<1>3. f.op = top.op /\ f.p = top.p /\ f.cur = top.cur
  BY <1>1 DEF FrameType
<1> HIDE DEF f
<1>4. rest # << >> => Covers(f, Head(rest))
  BY <1>1, <1>3, UnderTop DEF Covers
<1>5. /\ Covered(Push(f, rest)) /\ Head(Push(f, rest)) = f
      /\ Push(f, rest) \in Seq(FrameType) /\ Push(f, rest) # << >>
  BY <1>1, <1>2, <1>4, CoveredPush, UnderTop, PushIs
<1> QED
  BY <1>3, <1>5 DEF spent, f
LEMMA KernelSaves ==
  ASSUME TypeOK, Saved, Kernel
  PROVE  Saved'
<1>1. CASE BootDone
  BY <1>1, SavedPop DEF BootDone, At, SaveOp
<1>2. CASE Run
  <2>1. /\ Frame("event", NULL, "msg", NULL) \in FrameType
        /\ Frame("poll", process_list, "poll", NULL) \in FrameType
    BY FramesAreTyped DEF LoopOp, Pointer, Event, TypeOK
  <2> DEFINE k == Push(Frame("event", NULL, "msg", NULL), stack)
  <2>2. k \in Seq(FrameType) /\ Head(k) = Frame("event", NULL, "msg", NULL)
    BY <2>1, PushIs DEF TypeOK
  <2>3. stack = << >> /\ stack \in Seq(FrameType) /\ Covered(stack)
    BY <1>2 DEF Run, Saved, TypeOK
  <2>4. Covered(k)
    BY <2>1, <2>3, CoveredPush
  <2>5. ServePolls(k)
    BY <1>2 DEF Run
  <2> HIDE DEF k
  <2>6. CASE poll_requested
    <3>1. stack' = Push(Frame("poll", process_list, "poll", NULL), k)
      BY <2>5, <2>6 DEF ServePolls
    <3>2. Covers(Frame("poll", process_list, "poll", NULL), Head(k))
      BY <2>2 DEF Covers, Frame, ThreadOp
    <3>3. Frame("poll", process_list, "poll", NULL).op \notin ThreadOp
      BY DEF Frame, ThreadOp
    <3> QED
      BY <2>1, <2>2, <2>4, <3>1, <3>2, <3>3, SavedPush
  <2>7. CASE ~poll_requested
    BY <2>2, <2>4, <2>5, <2>7 DEF ServePolls, Saved, CurrentIsExecuting, InThread, top, Frame
  <2> QED
    BY <2>6, <2>7
<1>3. CASE DoEvent
  <2>1. /\ stack # << >> /\ top.op \notin SaveOp /\ rest \in Seq(FrameType) /\ Covered(rest)
        /\ rest = << >> \/ Head(rest).op \notin ThreadOp
    BY <1>3, TopIs, UnderTop DEF DoEvent, At, SaveOp
  <2>2. CASE nevents = 0
    BY <1>3, <2>1, <2>2, SavedPop DEF DoEvent
  <2>3. CASE nevents # 0
    <3> DEFINE e == events[fevent]
    <3>1. e.p \in Pointer /\ e.ev \in Event
      BY DEF TypeOK
    <3>2. CASE e.p = NULL
      <4> DEFINE f == Frame("bcast", process_list, e.ev, NULL)
      <4>1. f \in FrameType /\ f.op = "bcast"
        BY <3>1, FramesAreTyped DEF LoopOp, Pointer, TypeOK, Frame
      <4>2. stack' = Push(f, rest)
        BY <1>3, <2>3, <3>2 DEF DoEvent
      <4> HIDE DEF f
      <4> QED
        BY <2>1, <4>1, <4>2, SavedMove DEF ThreadOp
    <3>3. CASE e.p # NULL
      <4>1. e.p \in Proc /\ call_process(e.p, e.ev, rest)
        BY <1>3, <2>3, <3>1, <3>3 DEF DoEvent, Pointer
      <4> HIDE DEF e
      <4> QED
        BY <2>1, <3>1, <4>1, SavedByCall
    <3> QED
      BY <3>2, <3>3
  <2> QED
    BY <2>2, <2>3
<1>4. CASE Broadcast
  <2>1. /\ stack # << >> /\ top \in FrameType /\ rest \in Seq(FrameType)
        /\ top.op = "bcast" /\ top.p \in Pointer
    BY <1>4, TopIs, FrameFields DEF Broadcast, At
  <2>2. CASE top.p = NULL
    BY <1>4, <2>1, <2>2, SavedPop DEF Broadcast, SaveOp
  <2>3. CASE top.p # NULL
    <3> DEFINE f == [top EXCEPT !.op = "bcastcall"]
               k == Push(f, rest)
    <3>1. f \in FrameType
      BY <2>1, <2>3, FrameFields DEF CallOp, Pointer
    <3>2. f.op = "bcastcall"
      BY <2>1 DEF FrameType
    <3>3. ServePolls(k)
      BY <1>4, <2>3 DEF Broadcast
    <3> HIDE DEF f
    <3>4. Covered(k) /\ (stack' = k => Saved')
      BY <2>1, <3>1, <3>2, SavedMove DEF SaveOp, ThreadOp
    <3>5. k \in Seq(FrameType) /\ Head(k) = f
      BY <2>1, <3>1, PushIs
    <3> HIDE DEF k
    <3>6. /\ Frame("poll", process_list, "poll", NULL) \in FrameType
          /\ Frame("poll", process_list, "poll", NULL).op \notin ThreadOp
      <4>1. Frame("poll", process_list, "poll", NULL) \in FrameType
        BY FramesAreTyped DEF LoopOp, Event, Pointer, TypeOK
      <4>2. Frame("poll", process_list, "poll", NULL).op \notin ThreadOp
        BY DEF Frame, ThreadOp
      <4> QED
        BY <4>1, <4>2
    <3>7. Covers(Frame("poll", process_list, "poll", NULL), Head(k))
      BY <3>2, <3>5 DEF Covers, ThreadOp
    <3>8. stack' = k \/ stack' = Push(Frame("poll", process_list, "poll", NULL), k)
      BY <3>3 DEF ServePolls
    <3> QED
      BY <3>4, <3>5, <3>6, <3>7, <3>8, SavedPush
  <2> QED
    BY <2>2, <2>3
<1>5. CASE BroadcastCall
  <2>1. /\ stack # << >> /\ top \in FrameType /\ rest \in Seq(FrameType)
        /\ top.op = "bcastcall"
    BY <1>5, TopIs DEF BroadcastCall, At
  <2> DEFINE f == [top EXCEPT !.op = "bcasted"]
             k == Push(f, rest)
  <2>2. f \in FrameType /\ f.op = "bcasted" /\ top.p \in Proc /\ top.ev \in Event
    <3>1. f \in FrameType
      BY <2>1, FrameFields DEF CallOp
    <3>2. f.op = "bcasted" /\ top.p \in Proc /\ top.ev \in Event
      BY <2>1 DEF FrameType, CallOp, LoopOp
    <3> QED
      BY <3>1, <3>2
  <2>3. call_process(top.p, top.ev, k)
    BY <1>5 DEF BroadcastCall
  <2> HIDE DEF f
  <2>4. Covered(k)
    BY <2>1, <2>2, SavedMove DEF SaveOp, ThreadOp
  <2>5. k \in Seq(FrameType) /\ Head(k) = f
    BY <2>1, <2>2, PushIs
  <2> HIDE DEF k
  <2> QED
    BY <2>2, <2>3, <2>4, <2>5, SavedByCall DEF ThreadOp
<1>6. CASE BroadcastNext
  <2>1. stack # << >> /\ top \in FrameType /\ top.op = "bcasted"
    BY <1>6, TopIs DEF BroadcastNext, At
  <2> DEFINE f == [top EXCEPT !.op = "bcast", !.p = next[top.p]]
  <2>2. f \in FrameType /\ f.op = "bcast"
    <3>1. f \in FrameType
      BY <2>1, FrameFields DEF CallOp, LoopOp, TypeOK
    <3>2. f.op = "bcast"
      BY <2>1 DEF FrameType, CallOp, LoopOp
    <3> QED
      BY <3>1, <3>2
  <2>3. stack' = Push(f, rest)
    BY <1>6 DEF BroadcastNext
  <2> HIDE DEF f
  <2> QED
    BY <2>1, <2>2, <2>3, SavedMove DEF SaveOp, ThreadOp
<1>7. CASE DoPoll
  <2>1. stack # << >> /\ top \in FrameType /\ rest \in Seq(FrameType) /\ top.op = "poll"
    BY <1>7, TopIs DEF DoPoll, At
  <2>2. top.p \in Pointer
    BY <2>1, FrameFields
  <2>3. CASE top.p = NULL
    BY <1>7, <2>1, <2>3, SavedPop DEF DoPoll, SaveOp
  <2>4. CASE top.p \in Proc /\ ~needspoll[top.p]
    <3> DEFINE f == [top EXCEPT !.p = next[top.p]]
    <3>1. f \in FrameType /\ f.op = "poll"
      <4>1. f \in FrameType
        BY <2>1, <2>4, FrameFields DEF LoopOp, TypeOK
      <4>2. f.op = "poll"
        BY <2>1, <2>4 DEF FrameType, CallOp, LoopOp
      <4> QED
        BY <4>1, <4>2
    <3>2. stack' = Push(f, rest)
      BY <1>7, <2>4, NullAssumption DEF DoPoll
    <3> HIDE DEF f
    <3> QED
      BY <2>1, <3>1, <3>2, SavedMove DEF SaveOp, ThreadOp
  <2>5. CASE top.p \in Proc /\ needspoll[top.p]
    <3> DEFINE f == [top EXCEPT !.op = "polled"]
               k == Push(f, rest)
    <3>1. f \in FrameType /\ f.op = "polled"
      <4>1. f \in FrameType
        BY <2>1, <2>5, FrameFields DEF CallOp
      <4>2. f.op = "polled"
        BY <2>1, <2>5 DEF FrameType, CallOp, LoopOp
      <4> QED
        BY <4>1, <4>2
    <3>2. /\ process_current' = top.p
          /\ stack' = Push(Thread("thread", top.p, "poll"), k)
      BY <1>7, <2>5, NullAssumption DEF DoPoll
    <3> HIDE DEF f
    <3>3. Covered(k)
      BY <2>1, <3>1, SavedMove DEF SaveOp, ThreadOp
    <3>4. k \in Seq(FrameType) /\ Head(k) = f
      BY <2>1, <3>1, PushIs
    <3> HIDE DEF k
    <3>5. "thread" \in ThreadOp /\ "poll" \in Event /\ Covers(Thread("thread", top.p, "poll"), Head(k))
      BY <3>1, <3>4 DEF ThreadOp, Event, Covers
    <3> QED
      BY <2>5, <3>2, <3>3, <3>4, <3>5, SavedCall
  <2> QED
    BY <2>2, <2>3, <2>4, <2>5 DEF Pointer
<1>8. CASE DoPollNext
  <2>1. stack # << >> /\ top \in FrameType /\ top.op = "polled"
    BY <1>8, TopIs DEF DoPollNext, At
  <2> DEFINE f == [top EXCEPT !.op = "poll", !.p = next[top.p]]
  <2>2. f \in FrameType /\ f.op = "poll"
    <3>1. f \in FrameType
      BY <2>1, FrameFields DEF CallOp, LoopOp, TypeOK
    <3>2. f.op = "poll"
      BY <2>1 DEF FrameType, CallOp, LoopOp
    <3> QED
      BY <3>1, <3>2
  <2>3. stack' = Push(f, rest)
    BY <1>8 DEF DoPollNext
  <2> HIDE DEF f
  <2> QED
    BY <2>1, <2>2, <2>3, SavedMove DEF SaveOp, ThreadOp
<1>9. CASE Remove
  <2>1. stack # << >> /\ top \in FrameType /\ top.op = "unlink"
    BY <1>9, TopIs DEF Remove, At
  <2>2. CASE process_is_running(top.p)
    <3> DEFINE f == Frame("exited", process_list', "exited", top.cur)
    <3>1. process_list' \in Pointer /\ top.cur \in Pointer
      BY <1>9, <2>1, FrameFields DEF Remove, TypeOK, CallOp
    <3>2. f \in FrameType /\ f.op = "exited" /\ f.cur = top.cur
      <4>1. f \in FrameType
        BY <3>1, FramesAreTyped DEF LoopOp, Event
      <4>2. f.op = "exited" /\ f.cur = top.cur
        BY DEF Frame
      <4> QED
        BY <4>1, <4>2
    <3>3. stack' = Push(f, rest)
      BY <1>9, <2>2 DEF Remove
    <3> HIDE DEF f
    <3> QED
      BY <2>1, <3>2, <3>3, SavedMove DEF SaveOp, ThreadOp
  <2>3. CASE ~process_is_running(top.p)
    BY <1>9, <2>1, <2>3, SavedPop DEF Remove
  <2> QED
    BY <2>2, <2>3
<1>10. CASE TellExited
  <2>1. /\ stack # << >> /\ top \in FrameType /\ rest \in Seq(FrameType)
        /\ top.op = "exited" /\ top.p \in Pointer
    BY <1>10, TopIs, FrameFields DEF TellExited, At
  <2>2. CASE top.p = NULL
    BY <1>10, <2>1, <2>2, SavedPop DEF TellExited
  <2>3. CASE top.p # NULL
    <3> DEFINE f == [top EXCEPT !.op = "exitednext"]
               k == Push(f, rest)
    <3>1. f \in FrameType
      BY <2>1, <2>3, FrameFields DEF CallOp, Pointer
    <3>2. f.op = "exitednext" /\ f.cur = top.cur /\ top.p \in Proc
      BY <2>1, <2>3 DEF FrameType, Pointer
    <3>3. call_process(top.p, "exited", k) /\ "exited" \in Event
      BY <1>10, <2>3 DEF TellExited, Event
    <3> HIDE DEF f
    <3>4. Covered(k)
      BY <2>1, <3>1, <3>2, SavedMove DEF SaveOp, ThreadOp
    <3>5. k \in Seq(FrameType) /\ Head(k) = f
      BY <2>1, <3>1, PushIs
    <3> HIDE DEF k
    <3> QED
      BY <3>2, <3>3, <3>4, <3>5, SavedByCall DEF ThreadOp
  <2> QED
    BY <2>2, <2>3
<1>11. CASE TellExitedNext
  <2>1. stack # << >> /\ top \in FrameType /\ top.op = "exitednext"
    BY <1>11, TopIs DEF TellExitedNext, At
  <2> DEFINE f == [top EXCEPT !.op = "exited", !.p = next[top.p]]
  <2>2. f \in FrameType /\ f.op = "exited" /\ f.cur = top.cur
    <3>1. f \in FrameType
      BY <2>1, FrameFields DEF CallOp, LoopOp, TypeOK
    <3>2. f.op = "exited" /\ f.cur = top.cur
      BY <2>1 DEF FrameType, CallOp, LoopOp
    <3> QED
      BY <3>1, <3>2
  <2>3. stack' = Push(f, rest)
    BY <1>11 DEF TellExitedNext
  <2> HIDE DEF f
  <2> QED
    BY <2>1, <2>2, <2>3, SavedMove DEF SaveOp, ThreadOp
<1>12. CASE Restore
  BY <1>12, SavedPop DEF Restore, At
<1> QED
  BY <1>1, <1>2, <1>3, <1>4, <1>5, <1>6, <1>7, <1>8, <1>9, <1>10, <1>11, <1>12 DEF Kernel
LEMMA ThreadCallsSave ==
  ASSUME TypeOK, Saved, ThreadCalls \/ process_post(NULL)
  PROVE  Saved'
<1>1. ASSUME NEW p \in Proc, process_start(p) PROVE Saved'
  <2>1. HasLeft /\ (At("boot") \/ InThread)
    BY <1>1 DEF process_start
  <2> DEFINE f == Frame("restore", p, "init", process_current)
             k == Push(f, spent)
  <2>2. f \in FrameType /\ "init" \in Event /\ "thread" \in ThreadOp
    BY FramesAreTyped DEF CallOp, Event, TypeOK, ThreadOp
  <2>3. f.op = "restore" /\ f.cur = process_current
    BY DEF Frame
  <2>4. process_current' = p /\ stack' = Push(Thread("thread", p, "init"), k)
    BY <1>1 DEF process_start
  <2> HIDE DEF f
  <2>5. Covers(f, Head(spent))
    BY <2>1, <2>3, SpentKeeps DEF Covers, Saved, CurrentIsExecuting, InThread, At, ThreadOp, SaveOp
  <2>6. Covered(k) /\ k \in Seq(FrameType) /\ Head(k) = f
    BY <2>1, <2>2, <2>5, SpentKeeps, CoveredPush, PushIs
  <2> HIDE DEF k
  <2>7. Covers(Thread("thread", p, "init"), Head(k))
    BY <2>3, <2>6 DEF Covers, ThreadOp
  <2> QED
    BY <2>2, <2>4, <2>6, <2>7, SavedCall
<1>2. ASSUME NEW p \in Pointer, CanCall, stack' = spent, process_current' = process_current
      PROVE  Saved'
  <2>1. HasLeft /\ InThread
    BY <1>2 DEF CanCall
  <2> QED
    BY <1>2, <2>1, SpentKeeps DEF Saved, CurrentIsExecuting, InThread, top
<1>3. ASSUME NEW p \in Proc, process_post_synch(p) PROVE Saved'
  <2>1. HasLeft /\ InThread
    BY <1>3 DEF process_post_synch, CanCall
  <2> DEFINE f == Frame("restore", p, "msg", process_current)
             k == Push(f, spent)
  <2>2. f \in FrameType /\ "msg" \in Event
    BY FramesAreTyped DEF CallOp, Event, TypeOK
  <2>3. f.op = "restore" /\ f.cur = process_current
    BY DEF Frame
  <2>4. call_process(p, "msg", k)
    BY <1>3 DEF process_post_synch
  <2> HIDE DEF f
  <2>5. Covers(f, Head(spent))
    BY <2>1, <2>3, SpentKeeps DEF Covers, Saved, CurrentIsExecuting, SaveOp
  <2>6. Covered(k) /\ k \in Seq(FrameType) /\ Head(k) = f
    BY <2>1, <2>2, <2>5, SpentKeeps, CoveredPush, PushIs
  <2> HIDE DEF k
  <2> QED
    BY <2>2, <2>3, <2>4, <2>6, SavedByCall DEF ThreadOp
<1>4. ASSUME NEW p \in Proc, process_exit(p) PROVE Saved'
  <2>1. HasLeft /\ InThread /\ exit_process(p, spent)
    BY <1>4 DEF process_exit, CanCall
  <2> DEFINE f == Frame("unlink", p, "exit", process_current)
             k == Push(f, spent)
  <2>2. f \in FrameType /\ "exit" \in Event /\ "exiting" \in ThreadOp
    BY FramesAreTyped DEF CallOp, Event, TypeOK, ThreadOp
  <2>3. f.op = "unlink" /\ f.cur = process_current
    BY DEF Frame
  <2>4. \/ stack' = spent /\ process_current' = process_current
        \/ process_current' = p /\ stack' = Push(Thread("exiting", p, "exit"), k)
        \/ stack' = k
    BY <2>1 DEF exit_process, Unlink
  <2> HIDE DEF f
  <2>5. Covers(f, Head(spent))
    BY <2>1, <2>3, SpentKeeps DEF Covers, Saved, CurrentIsExecuting, SaveOp
  <2>6. Covered(k) /\ k \in Seq(FrameType) /\ Head(k) = f
    BY <2>1, <2>2, <2>5, SpentKeeps, CoveredPush, PushIs
  <2>7. CASE stack' = k
    BY <2>1, <2>2, <2>3, <2>5, <2>7, SpentKeeps, SavedPush DEF ThreadOp
  <2> HIDE DEF k
  <2>8. CASE process_current' = p /\ stack' = Push(Thread("exiting", p, "exit"), k)
    <3>1. Covers(Thread("exiting", p, "exit"), Head(k))
      BY <2>3, <2>6 DEF Covers, ThreadOp
    <3> QED
      BY <2>2, <2>6, <2>8, <3>1, SavedCall
  <2>9. CASE stack' = spent /\ process_current' = process_current
    BY <1>2, <1>4, <2>9 DEF process_exit, Pointer
  <2> QED
    BY <2>4, <2>7, <2>8, <2>9
<1>5. ASSUME NEW p \in Pointer, process_post(p) \/ process_poll(p) PROVE Saved'
  BY <1>2, <1>5 DEF process_post, process_poll
<1> QED
  BY <1>1, <1>3, <1>4, <1>5 DEF ThreadCalls, Pointer

LEMMA NextSaves ==
  ASSUME TypeOK, Saved, [Next]_vars
  PROVE  Saved'
<1>1. CASE ThreadWaits
  BY <1>1, SavedPop DEF ThreadWaits, InThread, SaveOp
<1>2. CASE ThreadEnds
  <2>1. /\ stack # << >> /\ top \in FrameType /\ rest \in Seq(FrameType)
        /\ top.op = "thread"
    BY <1>2, TopIs DEF ThreadEnds, At
  <2> DEFINE f == Frame("unlink", top.p, "exit", process_current)
  <2>2. f \in FrameType
    BY <2>1, FrameFields, FramesAreTyped DEF CallOp, Event, TypeOK
  <2>3. f.op = "unlink"
    BY DEF Frame
  <2>4. stack' = Push(f, rest) \/ stack' = rest
    BY <1>2 DEF ThreadEnds, Unlink
  <2> HIDE DEF f
  <2> QED
    BY <2>1, <2>2, <2>3, <2>4, SavedMove, SavedPop DEF ThreadOp, SaveOp
<1>3. CASE \E p \in Proc : InterruptPoll(p)
  BY <1>3 DEF InterruptPoll, Saved, CurrentIsExecuting, InThread, top
<1>4. CASE UNCHANGED vars
  BY <1>4 DEF vars, Saved, CurrentIsExecuting, InThread, top
<1> QED
  BY <1>1, <1>2, <1>3, <1>4, KernelSaves, ThreadCallsSave DEF Next, Step

(* Whatever the threads do to each other, the thread that executes is the  *)
(* process that PROCESS_CURRENT names.                                     *)
THEOREM CurrentHolds == Spec => []CurrentIsExecuting
<1>1. Init => Saved
  BY DEF Init, Saved, Covered, CurrentIsExecuting, InThread, top, Thread
<1>2. TypeOK /\ Saved /\ [Next]_vars => Saved'
  BY NextSaves
<1>3. Saved => CurrentIsExecuting
  BY DEF Saved
<1> QED
  BY <1>1, <1>2, <1>3, TypeCorrect, PTL DEF Spec
--------------------------------------------------------------------------------
(* What the kernel and disciplined threads keep (Liberties = {}).          *)

(* The marks of a stack are the functions on it, each with its process or  *)
(* its cursor.                                                             *)
Mark(f) == <<f.op, f.p>>
Marks(s) == {Mark(s[i]) : i \in 1 .. Len(s)}

(* Frame f may lie on frame g, when L is the set of listed processes.      *)
(* Some frames are only ever at the top of the stack, some only at its     *)
(* bottom; polls are served for do_event; an EXIT handler runs for the     *)
(* frame that will take its process off the list; and the process a poll   *)
(* was delivered to leaves the list only when its own thread ends.         *)
TopOp == {"poll", "bcast", "exited", "exiting"}
BottomOp == {"boot", "event", "bcast", "bcastcall", "bcasted"}
Own == {"thread", "unlink"}
Above(L, f, g) ==
  /\ f.op \notin BottomOp
  /\ g.op \notin TopOp
  /\ f.op \in {"poll", "polled"} <=> g.op \in {"event", "bcastcall"}
  /\ f.op = "exiting" <=> g.op = "unlink"
  /\ f.op = "exiting" => f.p = g.p
  /\ g.op = "polled" => \/ f.op \in Own /\ f.p = g.p /\ g.p \in L
                        \/ f.op \in {"exited", "exitednext"}
Nested(L, s) == \A i \in 1 .. Len(s) - 1 : Above(L, s[i], s[i + 1])

(* A process has at most one thread on the stack, or the end of one.       *)
OwnOnce(s) ==
  \A i, j \in 1 .. Len(s) : s[i].op \in Own /\ s[j].op \in Own /\ s[i].p = s[j].p => i = j

Shape(s) ==
  /\ Nested(Listed, s)
  /\ OwnOnce(s)
  /\ (\E p \in Proc : <<"unlink", p>> \in Marks(s)) =>
       \A p \in Pointer : <<"exited", p>> \notin Marks(s) /\ <<"exitednext", p>> \notin Marks(s)

(* The list has no cycle, and holds what the histories speak of.           *)
Chain ==
  /\ Acyclic(Proc, NULL, next, process_list)
  /\ ListedIsRunning
  /\ want \subseteq Listed /\ due \subseteq Listed

(* A process is called exactly while it has a thread, or its end, on the   *)
(* stack, except in its EXIT handler.                                      *)
Active(M) ==
  \A p \in Proc :
    /\ <<"thread", p>> \in M => state[p] = "called"
    /\ <<"exiting", p>> \in M => state[p] = "running"
    /\ <<"unlink", p>> \in M => p \in Listed
    /\ state[p] = "called" => <<"thread", p>> \in M \/ <<"unlink", p>> \in M

(* do_poll stands on the list.                                             *)
Cursors(M) ==
  /\ \A p \in Proc : <<"poll", p>> \in M => p \in Listed
  /\ \A p \in Proc : <<"polled", p>> \in M => next[p] \in Listed \cup {NULL}

(* NoLostPoll and BroadcastExact, said of the marks.                       *)
Ahead(M, p) ==
  \/ \E c \in Pointer : <<"poll", c>> \in M /\ p \in ReachFrom(c)
  \/ \E c \in Proc : <<"polled", c>> \in M /\ p \in ReachFrom(next[c])
Kept(M) == \A p \in want : needspoll[p] /\ (poll_requested \/ Ahead(M, p))
Comes(c) == due \subseteq ReachFrom(c) /\ got \cap ReachFrom(c) = {}
Exact(M) ==
  /\ \A c \in Pointer : <<"bcast", c>> \in M \/ <<"bcastcall", c>> \in M => Comes(c)
  /\ \A c \in Proc : <<"bcasted", c>> \in M => Comes(next[c])

(* the state would be good with call stack s                               *)
Good(s) ==
  Shape(s) /\ Active(Marks(s)) /\ Cursors(Marks(s)) /\ Kept(Marks(s)) /\ Exact(Marks(s))
PInv == Chain /\ Good(stack)

LEMMA MarksPush ==
  ASSUME NEW f \in FrameType, NEW k \in Seq(FrameType)
  PROVE  Marks(Push(f, k)) = {Mark(f)} \cup Marks(k)
<1> DEFINE s == Push(f, k)
<1>0. Len(k) \in Nat
  OBVIOUS
<1>1. /\ Len(s) = Len(k) + 1 /\ s[1] = f
      /\ \A i \in 1 .. Len(k) : s[i + 1] = k[i]
  BY PushIs
<1> HIDE DEF s
<1>2. ASSUME NEW i \in 1 .. Len(s) PROVE Mark(s[i]) \in {Mark(f)} \cup Marks(k)
  <2>1. CASE i = 1
    BY <1>1, <2>1
  <2>2. CASE i # 1
    <3>1. i - 1 \in 1 .. Len(k) /\ (i - 1) + 1 = i
      BY <1>1, <2>2
    <3>2. s[i] = k[i - 1]
      BY <1>1, <3>1
    <3> QED
      BY <3>1, <3>2 DEF Marks
  <2> QED
    BY <2>1, <2>2
<1>3. ASSUME NEW i \in 1 .. Len(k) PROVE Mark(k[i]) \in Marks(s)
  <2>1. i + 1 \in 1 .. Len(s) /\ s[i + 1] = k[i]
    BY <1>1
  <2> QED
    BY <2>1 DEF Marks
<1>4. Mark(f) \in Marks(s)
  <2>1. 1 \in 1 .. Len(s)
    BY <1>1
  <2> QED
    BY <1>1, <2>1 DEF Marks
<1>5. Marks(s) \subseteq {Mark(f)} \cup Marks(k)
  BY <1>2 DEF Marks
<1>6. Marks(k) \subseteq Marks(s)
  BY <1>3 DEF Marks
<1> QED
  BY <1>4, <1>5, <1>6 DEF s

LEMMA PopPushes ==
  ASSUME NEW s \in Seq(FrameType), s # << >>
  PROVE  s = Push(Head(s), Tail(s))
<1> DEFINE k == Tail(s)
           f == Head(s)
           t == Push(f, k)
<1>1. /\ f \in FrameType /\ k \in Seq(FrameType) /\ Len(s) = Len(k) + 1 /\ s[1] = f
      /\ \A i \in 1 .. Len(k) : k[i] = s[i + 1]
  OBVIOUS
<1> HIDE DEF f, k
<1>0. Len(k) \in Nat
  BY <1>1
<1>2. /\ t \in Seq(FrameType) /\ Len(t) = Len(k) + 1 /\ t[1] = f
      /\ \A i \in 1 .. Len(k) : t[i + 1] = k[i]
  BY <1>1, PushIs
<1> HIDE DEF t
<1>3. ASSUME NEW i \in 1 .. Len(s) PROVE s[i] = t[i]
  <2>1. i = 1 \/ (i - 1 \in 1 .. Len(k) /\ i = (i - 1) + 1)
    BY <1>1, <1>2
  <2> QED
    BY <1>0, <1>1, <1>2, <2>1
<1>4. Len(s) = Len(t)
  BY <1>1, <1>2
<1>5. s = t
  BY <1>2, <1>3, <1>4
<1> QED
  BY <1>5 DEF t, f, k

LEMMA NestedPush ==
  ASSUME NEW L, NEW f \in FrameType, NEW k \in Seq(FrameType)
  PROVE  Nested(L, Push(f, k)) <=> /\ Nested(L, k)
                                   /\ k # << >> => Above(L, f, Head(k))
<1> DEFINE s == Push(f, k)
<1>0. Len(k) \in Nat
  OBVIOUS
<1>1. /\ Len(s) = Len(k) + 1 /\ s[1] = f
      /\ \A i \in 1 .. Len(k) : s[i + 1] = k[i]
  BY PushIs
<1> HIDE DEF s
<1>2. ASSUME Nested(L, k), k # << >> => Above(L, f, Head(k)), NEW i \in 1 .. Len(s) - 1
      PROVE  Above(L, s[i], s[i + 1])
  <2>1. CASE i = 1
    <3>1. k # << >> /\ Head(k) = k[1] /\ 1 \in 1 .. Len(k)
      BY <1>0, <1>1, <1>2, <2>1
    <3>2. s[1 + 1] = k[1]
      BY <1>1, <3>1
    <3> QED
      BY <1>0, <1>1, <1>2, <2>1, <3>1, <3>2
  <2>2. CASE i # 1
    <3> DEFINE j == i - 1
    <3>1. j \in 1 .. Len(k) - 1 /\ j \in 1 .. Len(k) /\ j + 1 \in 1 .. Len(k) /\ i = j + 1
      BY <1>1, <1>2, <2>2
    <3> HIDE DEF j
    <3>2. s[j + 1] = k[j] /\ s[(j + 1) + 1] = k[j + 1]
      BY <1>1, <3>1
    <3>3. Above(L, k[j], k[j + 1])
      BY <1>2, <3>1 DEF Nested
    <3> QED
      BY <3>1, <3>2, <3>3
  <2> QED
    BY <2>1, <2>2
<1>3. ASSUME Nested(L, s), NEW i \in 1 .. Len(k) - 1
      PROVE  Above(L, k[i], k[i + 1])
  <2>1. i \in 1 .. Len(k) /\ i + 1 \in 1 .. Len(k) /\ i + 1 \in 1 .. Len(s) - 1
    BY <1>1
  <2>2. k[i] = s[i + 1] /\ k[i + 1] = s[(i + 1) + 1]
    BY <1>1, <2>1
  <2> QED
    BY <1>3, <2>1, <2>2 DEF Nested
<1>4. ASSUME Nested(L, s), k # << >>
      PROVE  Above(L, f, Head(k))
  <2>1. Head(k) = k[1] /\ 1 \in 1 .. Len(k) /\ 1 \in 1 .. Len(s) - 1
    BY <1>1, <1>4
  <2>2. k[1] = s[1 + 1]
    BY <1>1, <2>1
  <2> QED
    BY <1>1, <1>4, <2>1, <2>2 DEF Nested
<1>5. Nested(L, k) /\ (k # << >> => Above(L, f, Head(k))) => Nested(L, s)
  BY <1>2 DEF Nested
<1>6. Nested(L, s) => Nested(L, k)
  BY <1>3 DEF Nested
<1> QED
  BY <1>4, <1>5, <1>6 DEF s

LEMMA OwnOncePush ==
  ASSUME NEW f \in FrameType, NEW k \in Seq(FrameType)
  PROVE  OwnOnce(Push(f, k)) <=>
           /\ OwnOnce(k)
           /\ f.op \in Own => <<"thread", f.p>> \notin Marks(k) /\ <<"unlink", f.p>> \notin Marks(k)
<1> DEFINE s == Push(f, k)
<1>0. Len(k) \in Nat
  OBVIOUS
<1>1. /\ Len(s) = Len(k) + 1 /\ s[1] = f
      /\ \A i \in 1 .. Len(k) : s[i + 1] = k[i]
  BY PushIs
<1> HIDE DEF s
<1>2. ASSUME OwnOnce(s), NEW i \in 1 .. Len(k), NEW j \in 1 .. Len(k),
             k[i].op \in Own /\ k[j].op \in Own /\ k[i].p = k[j].p
      PROVE  i = j
  <2>1. i + 1 \in 1 .. Len(s) /\ j + 1 \in 1 .. Len(s)
    BY <1>1
  <2>2. i + 1 = j + 1
    BY <1>0, <1>1, <1>2, <2>1 DEF OwnOnce
  <2> QED
    BY <2>2
<1>3. ASSUME OwnOnce(s), f.op \in Own, NEW i \in 1 .. Len(k), k[i].op \in Own
      PROVE  k[i].p # f.p
  <2>1. i + 1 \in 1 .. Len(s) /\ 1 \in 1 .. Len(s) /\ i + 1 # 1
    BY <1>1
  <2> QED
    BY <1>1, <1>3, <2>1 DEF OwnOnce
<1>4. ASSUME OwnOnce(s), f.op \in Own
      PROVE  <<"thread", f.p>> \notin Marks(k) /\ <<"unlink", f.p>> \notin Marks(k)
  <2>1. ASSUME NEW m \in Marks(k), m[1] \in Own, m[2] = f.p PROVE FALSE
    <3>1. PICK i \in 1 .. Len(k) : m = <<k[i].op, k[i].p>>
      BY DEF Marks, Mark
    <3> QED
      BY <1>3, <1>4, <2>1, <3>1
  <2> QED
    BY <2>1 DEF Own
<1>5. ASSUME OwnOnce(k),
             f.op \in Own => <<"thread", f.p>> \notin Marks(k) /\ <<"unlink", f.p>> \notin Marks(k),
             NEW i \in 1 .. Len(s), NEW j \in 1 .. Len(s),
             s[i].op \in Own /\ s[j].op \in Own /\ s[i].p = s[j].p
      PROVE  i = j
  <2>1. ASSUME NEW n \in 1 .. Len(s), n # 1
        PROVE  n - 1 \in 1 .. Len(k) /\ s[n] = k[n - 1] /\ <<s[n].op, s[n].p>> \in Marks(k)
    <3>1. n - 1 \in 1 .. Len(k) /\ (n - 1) + 1 = n
      BY <1>1, <2>1
    <3>2. s[n] = k[n - 1]
      BY <1>1, <3>1
    <3> QED
      BY <3>1, <3>2 DEF Marks, Mark
  <2>2. CASE i = 1 /\ j # 1
    BY <1>1, <1>5, <2>1, <2>2 DEF Own
  <2>3. CASE i # 1 /\ j = 1
    BY <1>1, <1>5, <2>1, <2>3 DEF Own
  <2>4. CASE i # 1 /\ j # 1
    <3>1. i - 1 = j - 1
      BY <1>5, <2>1, <2>4 DEF OwnOnce
    <3> QED
      BY <3>1
  <2> QED
    BY <2>2, <2>3, <2>4
<1>6. OwnOnce(s) => OwnOnce(k)
  BY <1>2 DEF OwnOnce
<1>7. /\ OwnOnce(k)
      /\ f.op \in Own => <<"thread", f.p>> \notin Marks(k) /\ <<"unlink", f.p>> \notin Marks(k)
      => OwnOnce(s)
  BY <1>5 DEF OwnOnce
<1> QED
  BY <1>4, <1>6, <1>7 DEF s

(* The frames under the top.                                               *)
LEMMA StackIs ==
  ASSUME TypeOK, stack # << >>
  PROVE  /\ top \in FrameType /\ rest \in Seq(FrameType)
         /\ Marks(stack) = {<<top.op, top.p>>} \cup Marks(rest)
         /\ Shape(stack) =>
              /\ Nested(Listed, rest) /\ OwnOnce(rest)
              /\ rest # << >> => Above(Listed, top, Head(rest))
              /\ top.op \in Own => /\ <<"thread", top.p>> \notin Marks(rest)
                                   /\ <<"unlink", top.p>> \notin Marks(rest)
<1>1. top \in FrameType /\ rest \in Seq(FrameType)
  BY TopIs
<1>2. stack = Push(top, rest)
  BY PopPushes DEF TypeOK, top, rest
<1>3. Marks(stack) = {<<top.op, top.p>>} \cup Marks(rest)
  BY <1>1, <1>2, MarksPush DEF Mark
<1>4. Nested(Listed, Push(top, rest)) <=>
        Nested(Listed, rest) /\ (rest # << >> => Above(Listed, top, Head(rest)))
  BY <1>1, NestedPush
<1>5. OwnOnce(Push(top, rest)) <=>
        /\ OwnOnce(rest)
        /\ top.op \in Own => <<"thread", top.p>> \notin Marks(rest) /\ <<"unlink", top.p>> \notin Marks(rest)
  BY <1>1, OwnOncePush
<1> QED
  BY <1>1, <1>2, <1>3, <1>4, <1>5 DEF Shape

LEMMA Beneath ==
  ASSUME TypeOK, Shape(stack), stack # << >>
  PROVE  /\ \A op \in TopOp : \A p : <<op, p>> \notin Marks(rest)
         /\ top.op # "exiting" => \A p : <<"unlink", p>> \notin Marks(rest)
         /\ top.op = "exiting" => \A p : <<"unlink", p>> \in Marks(rest) => p = top.p
         /\ top.op \in BottomOp => rest = << >>
         /\ top.op = "poll" => \A op, p : <<op, p>> \in Marks(rest) => op \in {"event", "bcastcall"}
<1>1. /\ stack \in Seq(FrameType) /\ Len(stack) \in Nat /\ Len(stack) > 0
      /\ rest \in Seq(FrameType) /\ Len(rest) = Len(stack) - 1
      /\ \A i \in 1 .. Len(rest) : rest[i] = stack[i + 1]
      /\ top = stack[1]
  BY DEF TypeOK, rest, top
<1>2. \A i \in 1 .. Len(stack) - 1 : Above(Listed, stack[i], stack[i + 1])
  BY DEF Shape, Nested
<1>3. ASSUME NEW op, NEW p, <<op, p>> \in Marks(rest)
      PROVE  \E i \in 1 .. Len(stack) - 1 : stack[i + 1].op = op /\ stack[i + 1].p = p
  BY <1>1, <1>3 DEF Marks, Mark
<1>4. ASSUME NEW op \in TopOp, NEW p PROVE <<op, p>> \notin Marks(rest)
  <2> SUFFICES ASSUME <<op, p>> \in Marks(rest) PROVE FALSE
    OBVIOUS
  <2>1. PICK i \in 1 .. Len(stack) - 1 : stack[i + 1].op = op
    BY <1>3
  <2> QED
    BY <1>2, <2>1 DEF Above
<1>5. ASSUME NEW p, <<"unlink", p>> \in Marks(rest)
      PROVE  top.op = "exiting" /\ p = top.p
  <2>1. PICK i \in 1 .. Len(stack) - 1 : stack[i + 1].op = "unlink" /\ stack[i + 1].p = p
    BY <1>3, <1>5
  <2>2. stack[i].op = "exiting" /\ stack[i].p = p
    BY <1>2, <2>1 DEF Above
  <2>3. CASE i = 1
    BY <1>1, <2>2, <2>3
  <2>4. CASE i # 1
    <3>1. i - 1 \in 1 .. Len(stack) - 1 /\ (i - 1) + 1 = i
      BY <1>1, <2>4
    <3>2. Above(Listed, stack[i - 1], stack[i])
      BY <1>2, <3>1
    <3> QED
      BY <2>2, <3>2 DEF Above, TopOp
  <2> QED
    BY <2>3, <2>4
<1>6. ASSUME Len(stack) > 1
      PROVE  top.op \notin BottomOp
  <2>1. 1 \in 1 .. Len(stack) - 1
    BY <1>1, <1>6
  <2> QED
    BY <1>1, <1>2, <2>1 DEF Above
<1>7. rest # << >> => Len(stack) > 1
  BY <1>1
<1>8. ASSUME top.op = "poll", NEW op, NEW p, <<op, p>> \in Marks(rest)
      PROVE  op \in {"event", "bcastcall"}
  <2>1. PICK i \in 1 .. Len(stack) - 1 : stack[i + 1].op = op
    BY <1>3, <1>8
  <2>2. 1 \in 1 .. Len(stack) - 1
    BY <1>1, <2>1
  <2>3. stack[1 + 1].op \in {"event", "bcastcall"}
    BY <1>1, <1>2, <1>8, <2>2 DEF Above
  <2>4. CASE i = 1
    BY <2>1, <2>3, <2>4
  <2>5. CASE i # 1
    <3>1. 2 \in 1 .. Len(stack) - 1 /\ 1 + 1 = 2
      BY <1>1, <2>5
    <3>2. stack[2].op \notin BottomOp
      BY <1>2, <3>1 DEF Above
    <3> QED
      BY <2>3, <3>1, <3>2 DEF BottomOp
  <2> QED
    BY <2>4, <2>5
<1> QED
  BY <1>4, <1>5, <1>6, <1>7, <1>8

(* A step that moves only the stack.                                       *)
LEMMA StackMoves ==
  ASSUME Chain, NEW k, Good(k), stack' = k,
         UNCHANGED <<list, state, needspoll, poll_requested, want, due, got>>
  PROVE  PInv'
<1>1. /\ process_list' = process_list /\ next' = next /\ state' = state
      /\ needspoll' = needspoll /\ poll_requested' = poll_requested
      /\ want' = want /\ due' = due /\ got' = got
  BY DEF list
<1>2. Chain'
  BY <1>1 DEF Chain, ListedIsRunning, process_is_running, Listed, ReachFrom
<1>3. Shape(stack)'
  BY <1>1 DEF Good, Shape, Listed, ReachFrom
<1>4. Active(Marks(stack))'
  BY <1>1 DEF Good, Active, Listed, ReachFrom
<1>5. Cursors(Marks(stack))'
  BY <1>1 DEF Good, Cursors, Listed, ReachFrom
<1>6. Kept(Marks(stack))'
  BY <1>1 DEF Good, Kept, Ahead, ReachFrom
<1>7. Exact(Marks(stack))'
  BY <1>1 DEF Good, Exact, Comes, ReachFrom
<1> QED
  BY <1>2, <1>3, <1>4, <1>5, <1>6, <1>7 DEF PInv, Good

LEMMA ReachNone == ReachFrom(NULL) = {}
BY ReachNull DEF ReachFrom

(* A function that returns to its caller, unless the process it was called *)
(* for is still to be told or to be reached.                               *)
LEMMA GoodPop ==
  ASSUME TypeOK, PInv, stack # << >>, top.op \notin Own \cup {"polled"},
         top.op = "poll" => top.p = NULL
  PROVE  Good(rest)
<1>1. /\ Marks(stack) = {<<top.op, top.p>>} \cup Marks(rest)
      /\ Nested(Listed, rest) /\ OwnOnce(rest)
  BY StackIs DEF PInv, Good
<1>2. Marks(rest) \subseteq Marks(stack)
  BY <1>1
<1>3. \A op \in Own \cup {"polled"} : \A p : <<op, p>> \in Marks(stack) => <<op, p>> \in Marks(rest)
  BY <1>1
<1>4. \A c : <<"poll", c>> \in Marks(stack) => c = NULL \/ <<"poll", c>> \in Marks(rest)
  BY <1>1
<1>5. Shape(rest)
  BY <1>1, <1>2 DEF PInv, Good, Shape
<1>6. Active(Marks(rest))
  BY <1>2, <1>3 DEF PInv, Good, Active, Own
<1>7. Cursors(Marks(rest))
  BY <1>2 DEF PInv, Good, Cursors
<1>8. \A p : Ahead(Marks(stack), p) => Ahead(Marks(rest), p)
  BY <1>3, <1>4, ReachNone DEF Ahead
<1>9. Kept(Marks(rest))
  BY <1>8 DEF PInv, Good, Kept
<1>10. Exact(Marks(rest))
  BY <1>2 DEF PInv, Good, Exact
<1> QED
  BY <1>5, <1>6, <1>7, <1>9, <1>10 DEF Good

(* A thread with one call less to make.                                    *)
LEMMA GoodSpent ==
  ASSUME TypeOK, PInv, HasLeft
  PROVE  /\ spent \in Seq(FrameType) /\ spent # << >>
         /\ Head(spent).op = top.op /\ Head(spent).p = top.p
         /\ Marks(spent) = Marks(stack) /\ Good(spent)
<1> DEFINE f == [top EXCEPT !.left = @ - 1]
<1>1. /\ stack # << >> /\ top \in FrameType /\ rest \in Seq(FrameType) /\ top.left > 0
      /\ Marks(stack) = {<<top.op, top.p>>} \cup Marks(rest)
      /\ Nested(Listed, rest) /\ OwnOnce(rest)
      /\ rest # << >> => Above(Listed, top, Head(rest))
      /\ top.op \in Own => /\ <<"thread", top.p>> \notin Marks(rest)
                           /\ <<"unlink", top.p>> \notin Marks(rest)
  BY StackIs DEF HasLeft, PInv, Good
<1>2. f \in FrameType
  BY <1>1, FrameFields
<1>3. f.op = top.op /\ f.p = top.p
  BY <1>1 DEF FrameType
<1> HIDE DEF f
<1>4. rest # << >> => Above(Listed, f, Head(rest))
  BY <1>1, <1>3 DEF Above
<1>5. /\ Push(f, rest) \in Seq(FrameType) /\ Push(f, rest) # << >>
      /\ Head(Push(f, rest)) = f
  BY <1>1, <1>2, PushIs
<1>6. Nested(Listed, Push(f, rest)) /\ OwnOnce(Push(f, rest))
  BY <1>1, <1>2, <1>3, <1>4, NestedPush, OwnOncePush
<1>7. Marks(Push(f, rest)) = Marks(stack)
  BY <1>1, <1>2, <1>3, MarksPush DEF Mark
<1>8. spent = Push(f, rest)
  BY DEF spent, f
<1>9. Good(spent)
  BY <1>6, <1>7, <1>8 DEF PInv, Good, Shape
<1> QED
  BY <1>3, <1>5, <1>7, <1>8, <1>9

(* A call that concerns no process of those the invariants speak of.       *)
LEMMA GoodPush ==
  ASSUME NEW f \in FrameType, f.op \in {"restore", "event"}, NEW k \in Seq(FrameType), Good(k),
         k # << >> => Above(Listed, f, Head(k))
  PROVE  Good(Push(f, k))
<1> DEFINE s == Push(f, k)
<1>1. Marks(s) = {<<f.op, f.p>>} \cup Marks(k)
  BY MarksPush DEF Mark
<1>2. Nested(Listed, s)
  BY NestedPush DEF Good, Shape
<1>3. OwnOnce(s)
  BY OwnOncePush DEF Good, Shape, Own
<1> HIDE DEF s
<1>4. \A op, p : op \notin {"restore", "event"} => (<<op, p>> \in Marks(s) <=> <<op, p>> \in Marks(k))
  BY <1>1
<1>5. Shape(s)
  BY <1>2, <1>3, <1>4 DEF Good, Shape
<1>6. Active(Marks(s))
  BY <1>4 DEF Good, Active
<1>7. Cursors(Marks(s))
  BY <1>4 DEF Good, Cursors
<1>8. \A p : Ahead(Marks(k), p) => Ahead(Marks(s), p)
  BY <1>4 DEF Ahead
<1>9. Kept(Marks(s))
  BY <1>8 DEF Good, Kept
<1>10. Exact(Marks(s))
  BY <1>4 DEF Good, Exact
<1> QED
  BY <1>5, <1>6, <1>7, <1>9, <1>10 DEF Good, s

(* if(poll_requested) do_poll(): the loop starts at the head of the list,  *)
(* so that it will come to every process to which a poll is due.           *)
LEMMA PollsServed ==
  ASSUME TypeOK, Chain, NEW k \in Seq(FrameType), Good(k), k # << >>,
         Head(k).op \in {"event", "bcastcall"}, ServePolls(k),
         UNCHANGED <<list, state, needspoll, want, due, got>>
  PROVE  PInv'
<1> DEFINE f == Frame("poll", process_list, "poll", NULL)
           s == Push(f, k)
<1>1. f \in FrameType
  BY FramesAreTyped DEF LoopOp, Event, Pointer, TypeOK
<1>2. f.op = "poll" /\ f.p = process_list
  BY DEF Frame
<1>3. poll_requested' = FALSE /\ stack' = IF poll_requested THEN s ELSE k
  BY DEF ServePolls
<1> HIDE DEF f
<1>4. Above(Listed, f, Head(k))
  BY <1>2 DEF Above, TopOp, BottomOp
<1>5. Nested(Listed, s) /\ OwnOnce(s)
  BY <1>1, <1>2, <1>4, NestedPush, OwnOncePush DEF Good, Shape, Own
<1>6. Marks(s) = {<<"poll", process_list>>} \cup Marks(k)
  BY <1>1, <1>2, MarksPush DEF Mark
<1> HIDE DEF s
<1>7. \A op, p : op # "poll" => (<<op, p>> \in Marks(s) <=> <<op, p>> \in Marks(k))
  BY <1>6
<1>8. /\ process_list' = process_list /\ next' = next /\ state' = state
      /\ needspoll' = needspoll /\ want' = want /\ due' = due /\ got' = got
  BY DEF list
<1>9. Chain'
  BY <1>8 DEF Chain, ListedIsRunning, process_is_running, Listed, ReachFrom
<1>10. CASE poll_requested
  <2>1. stack' = s
    BY <1>3, <1>10
  <2>2. Shape(s)
    BY <1>5, <1>7 DEF Good, Shape
  <2>3. Active(Marks(s))
    BY <1>7 DEF Good, Active
  <2>4. Cursors(Marks(s))
    <3>1. process_list \in Proc => process_list \in Listed
      BY NullAssumption, ReachClosed DEF Listed, ReachFrom, TypeOK, Pointer
    <3> QED
      BY <1>6, <3>1 DEF Good, Cursors
  <2>5. Exact(Marks(s))
    BY <1>7 DEF Good, Exact
  <2>6. \A p \in want : needspoll[p] /\ Ahead(Marks(s), p)
    <3>1. <<"poll", process_list>> \in Marks(s) /\ process_list \in Pointer
      BY <1>6 DEF TypeOK
    <3>2. want \subseteq ReachFrom(process_list)
      BY DEF Chain, Listed
    <3> QED
      BY <3>1, <3>2 DEF Ahead, Good, Kept
  <2>7. Kept(Marks(stack))'
    BY <1>8, <2>1, <2>6 DEF Kept, Ahead, ReachFrom
  <2>8. Shape(stack)' /\ Active(Marks(stack))' /\ Cursors(Marks(stack))' /\ Exact(Marks(stack))'
    BY <1>8, <2>1, <2>2, <2>3, <2>4, <2>5
       DEF Shape, Active, Cursors, Exact, Comes, Listed, ReachFrom
  <2> QED
    BY <1>9, <2>7, <2>8 DEF PInv, Good
<1>11. CASE ~poll_requested
  <2>1. stack' = k
    BY <1>3, <1>11
  <2>2. poll_requested' = poll_requested
    BY <1>3, <1>11 DEF TypeOK
  <2> QED
    BY <2>1, <2>2, StackMoves
<1> QED
  BY <1>10, <1>11

(* call_process, for a caller that is no EXIT handler.                     *)
CalledFrom(k) ==
  /\ k # << >> => Head(k).op \in {"restore", "bcasted", "exitednext"}
  /\ \A q : <<"exiting", q>> \notin Marks(k) /\ <<"unlink", q>> \notin Marks(k)

LEMMA CallKeeps ==
  ASSUME TypeOK, Chain, NEW p \in Proc, NEW ev \in Event, NEW k \in Seq(FrameType),
         Shape(k), Active(Marks(k)), Cursors(Marks(k)), Kept(Marks(k)), CalledFrom(k),
         call_process(p, ev, k), due' \subseteq due,
         UNCHANGED <<list, needspoll, poll_requested, want>>
  PROVE  /\ Chain' /\ Shape(stack)' /\ Active(Marks(stack))' /\ Cursors(Marks(stack))'
         /\ Kept(Marks(stack))'
         /\ \A op, q : op # "thread" => (<<op, q>> \in Marks(stack') <=> <<op, q>> \in Marks(k))
<1>1. /\ process_list' = process_list /\ next' = next /\ needspoll' = needspoll
      /\ poll_requested' = poll_requested /\ want' = want
  BY DEF list
<1>2. CASE state[p] # "running"
  <2>1. stack' = k /\ state' = state
    BY <1>2 DEF call_process
  <2>2. Chain'
    BY <1>1, <2>1 DEF Chain, ListedIsRunning, process_is_running, Listed, ReachFrom
  <2>3. Shape(stack)'
    BY <1>1, <2>1 DEF Shape, Listed, ReachFrom
  <2>4. Active(Marks(stack))'
    BY <1>1, <2>1 DEF Active, Listed, ReachFrom
  <2>5. Cursors(Marks(stack))'
    BY <1>1, <2>1 DEF Cursors, Listed, ReachFrom
  <2>6. Kept(Marks(stack))'
    <3>1. \A q \in want : needspoll[q] /\ (poll_requested \/ Ahead(Marks(k), q))
      BY DEF Kept
    <3>2. \A q : Ahead(Marks(k), q) => Ahead(Marks(stack), q)'
      BY <1>1, <2>1 DEF Ahead, ReachFrom
    <3>3. \A q \in want : needspoll[q]' /\ (poll_requested' \/ Ahead(Marks(stack), q)')
      BY <1>1, <3>1, <3>2
    <3> QED
      BY <1>1, <3>3 DEF Kept
  <2> QED
    BY <2>1, <2>2, <2>3, <2>4, <2>5, <2>6
<1>3. CASE state[p] = "running"
  <2> DEFINE f == Thread("thread", p, ev)
             s == Push(f, k)
  <2>1. stack' = s /\ state' = [state EXCEPT ![p] = "called"]
    BY <1>3 DEF call_process
  <2>2. f \in FrameType
    BY FramesAreTyped DEF CallOp
  <2>3. f.op = "thread" /\ f.p = p
    BY DEF Thread
  <2> HIDE DEF f
  <2>4. k # << >> => Above(Listed, f, Head(k))
    BY <2>3 DEF CalledFrom, Above, TopOp, BottomOp, Own
  <2>5. <<"thread", p>> \notin Marks(k) /\ <<"unlink", p>> \notin Marks(k)
    BY <1>3 DEF Active, CalledFrom
  <2>6. Nested(Listed, s) /\ OwnOnce(s)
    BY <2>2, <2>3, <2>4, <2>5, NestedPush, OwnOncePush DEF Shape
  <2>7. Marks(s) = {<<"thread", p>>} \cup Marks(k)
    BY <2>2, <2>3, MarksPush DEF Mark
  <2> HIDE DEF s
  <2>8. \A op, q : op # "thread" => (<<op, q>> \in Marks(s) <=> <<op, q>> \in Marks(k))
    BY <2>7
  <2>9. /\ state'[p] = "called" /\ \A q \in Proc : q # p => state'[q] = state[q]
        /\ \A q \in Proc : state'[q] = "none" <=> state[q] = "none"
    BY <1>3, <2>1 DEF TypeOK
  <2>10. Chain'
    <3>1. ListedIsRunning'
      BY <1>1, <2>9 DEF Chain, ListedIsRunning, process_is_running, Listed, ReachFrom
    <3> QED
      BY <1>1, <3>1 DEF Chain, Listed, ReachFrom
  <2>11. Shape(stack)'
    <3>1. Shape(s)
      BY <2>6, <2>8 DEF Shape
    <3> QED
      BY <1>1, <2>1, <3>1 DEF Shape, Listed, ReachFrom
  <2>12. Active(Marks(stack))'
    <3>1. ASSUME NEW q \in Proc
          PROVE  /\ <<"thread", q>> \in Marks(s) => state'[q] = "called"
                 /\ <<"exiting", q>> \notin Marks(s)
                 /\ <<"unlink", q>> \notin Marks(s)
                 /\ state'[q] = "called" => <<"thread", q>> \in Marks(s) \/ <<"unlink", q>> \in Marks(s)
      <4>1. CASE q = p
        BY <2>7, <2>8, <2>9, <4>1 DEF CalledFrom
      <4>2. CASE q # p
        <5>1. <<"thread", q>> \in Marks(s) <=> <<"thread", q>> \in Marks(k)
          BY <2>7, <4>2
        <5> QED
          BY <2>8, <2>9, <4>2, <5>1 DEF Active, CalledFrom
      <4> QED
        BY <4>1, <4>2
    <3> QED
      BY <2>1, <3>1 DEF Active
  <2>13. Cursors(Marks(stack))'
    BY <1>1, <2>1, <2>8 DEF Cursors, Listed, ReachFrom
  <2>14. Kept(Marks(stack))'
    <3>1. \A q : Ahead(Marks(k), q) => Ahead(Marks(s), q)
      BY <2>8 DEF Ahead
    <3>2. Kept(Marks(s))
      BY <3>1 DEF Kept
    <3> QED
      BY <1>1, <2>1, <3>2 DEF Kept, Ahead, ReachFrom
  <2> QED
    BY <2>1, <2>8, <2>10, <2>11, <2>12, <2>13, <2>14
<1> QED
  BY <1>2, <1>3

LEMMA CallIsGood ==
  ASSUME TypeOK, Chain, NEW p \in Proc, NEW ev \in Event, NEW k \in Seq(FrameType),
         Good(k), CalledFrom(k), call_process(p, ev, k),
         UNCHANGED <<list, needspoll, poll_requested, want, due, got>>
  PROVE  PInv'
<1>1. /\ Chain' /\ Shape(stack)' /\ Active(Marks(stack))' /\ Cursors(Marks(stack))'
      /\ Kept(Marks(stack))'
      /\ \A op, q : op # "thread" => (<<op, q>> \in Marks(stack') <=> <<op, q>> \in Marks(k))
  BY CallKeeps DEF Good
<1>2. next' = next /\ due' = due /\ got' = got
  BY DEF list
<1>3. Exact(Marks(stack))'
  BY <1>1, <1>2 DEF Good, Exact, Comes, ReachFrom
<1> QED
  BY <1>1, <1>3 DEF PInv, Good

(* A loop of the kernel moves on: the processes that are still to be told  *)
(* or reached are so from where it stands now.                             *)
LEMMA MoveKeeps ==
  ASSUME TypeOK, PInv, stack # << >>, NEW f \in FrameType,
         top.op \notin Own, f.op \notin Own \cup {"exiting"},
         rest # << >> => Above(Listed, f, Head(rest)),
         f.op \in {"exited", "exitednext"} => top.op \in {"exited", "exitednext"},
         Cursors({<<f.op, f.p>>}),
         \A p \in want : Ahead({<<top.op, top.p>>}, p) => Ahead({<<f.op, f.p>>}, p)
  PROVE  LET s == Push(f, rest)
         IN  /\ s \in Seq(FrameType) /\ Head(s) = f /\ Marks(s) = {<<f.op, f.p>>} \cup Marks(rest)
             /\ Shape(s) /\ Active(Marks(s)) /\ Cursors(Marks(s)) /\ Kept(Marks(s))
<1> DEFINE s == Push(f, rest)
<1>1. /\ Marks(stack) = {<<top.op, top.p>>} \cup Marks(rest)
      /\ Nested(Listed, rest) /\ OwnOnce(rest) /\ rest \in Seq(FrameType)
  BY StackIs DEF PInv, Good
<1>2. Nested(Listed, s) /\ OwnOnce(s)
  BY <1>1, NestedPush, OwnOncePush
<1>3. Marks(s) = {<<f.op, f.p>>} \cup Marks(rest)
  BY <1>1, MarksPush DEF Mark
<1> HIDE DEF s
<1>4. Marks(rest) \subseteq Marks(stack)
  BY <1>1
<1>5. \A op \in Own : \A p : <<op, p>> \in Marks(s) <=> <<op, p>> \in Marks(stack)
  BY <1>1, <1>3
<1>6. Shape(s)
  <2> SUFFICES ASSUME NEW p \in Proc, <<"unlink", p>> \in Marks(s), NEW q \in Pointer
               PROVE  <<"exited", q>> \notin Marks(s) /\ <<"exitednext", q>> \notin Marks(s)
    BY <1>2 DEF Shape
  <2>1. \A x \in Pointer : <<"exited", x>> \notin Marks(stack) /\ <<"exitednext", x>> \notin Marks(stack)
    BY <1>5 DEF Own, PInv, Good, Shape
  <2>2. top.p \in Pointer
    BY StackIs, FrameFields
  <2>3. top.op \notin {"exited", "exitednext"}
    BY <1>1, <2>1, <2>2
  <2> QED
    BY <1>3, <1>4, <2>1, <2>3
<1>7. Active(Marks(s))
  <2>1. \A p : <<"exiting", p>> \in Marks(s) => <<"exiting", p>> \in Marks(stack)
    BY <1>3, <1>4
  <2>2. \A op, p : op \in Own => (<<op, p>> \in Marks(s) <=> <<op, p>> \in Marks(stack))
    BY <1>5
  <2>3. \A p : /\ <<"thread", p>> \in Marks(s) <=> <<"thread", p>> \in Marks(stack)
               /\ <<"unlink", p>> \in Marks(s) <=> <<"unlink", p>> \in Marks(stack)
    BY <2>2 DEF Own
  <2> QED
    BY <2>1, <2>3 DEF PInv, Good, Active
<1>8. Cursors(Marks(s))
  BY <1>3, <1>4 DEF PInv, Good, Cursors
<1>9. \A p \in want : Ahead(Marks(stack), p) => Ahead(Marks(s), p)
  <2> SUFFICES ASSUME NEW p \in want, Ahead(Marks(stack), p) PROVE Ahead(Marks(s), p)
    OBVIOUS
  <2>1. Ahead({<<top.op, top.p>>}, p) \/ Ahead(Marks(rest), p)
    BY <1>1 DEF Ahead
  <2>2. Ahead({<<f.op, f.p>>}, p) \/ Ahead(Marks(rest), p)
    BY <2>1
  <2> QED
    BY <1>3, <2>2 DEF Ahead
<1>10. Kept(Marks(s))
  BY <1>9 DEF PInv, Good, Kept
<1>11. s \in Seq(FrameType) /\ Head(s) = f
  BY <1>1, PushIs DEF s
<1> QED
  BY <1>3, <1>6, <1>7, <1>8, <1>10, <1>11 DEF s

LEMMA GoodMove ==
  ASSUME TypeOK, PInv, stack # << >>, NEW f \in FrameType,
         top.op \notin Own, f.op \notin Own \cup {"exiting"},
         rest # << >> => Above(Listed, f, Head(rest)),
         f.op \in {"exited", "exitednext"} => top.op \in {"exited", "exitednext"},
         Cursors({<<f.op, f.p>>}), Exact({<<f.op, f.p>>}),
         \A p \in want : Ahead({<<top.op, top.p>>}, p) => Ahead({<<f.op, f.p>>}, p)
  PROVE  /\ Good(Push(f, rest)) /\ Push(f, rest) \in Seq(FrameType) /\ Head(Push(f, rest)) = f
         /\ Marks(Push(f, rest)) = {<<f.op, f.p>>} \cup Marks(rest)
<1> DEFINE s == Push(f, rest)
<1>1. /\ s \in Seq(FrameType) /\ Head(s) = f /\ Marks(s) = {<<f.op, f.p>>} \cup Marks(rest)
      /\ Shape(s) /\ Active(Marks(s)) /\ Cursors(Marks(s)) /\ Kept(Marks(s))
  BY MoveKeeps
<1>2. Marks(stack) = {<<top.op, top.p>>} \cup Marks(rest)
  BY StackIs
<1> HIDE DEF s
<1>3. Exact(Marks(s))
  BY <1>1, <1>2 DEF PInv, Good, Exact
<1> QED
  BY <1>1, <1>3 DEF Good, s

LEMMA EmptyIs ==
  /\ << >> \in Seq(FrameType) /\ Marks(<< >>) = {} /\ CalledFrom(<< >>)
BY DEF Marks, CalledFrom

(* The steps of the main program.                                          *)
LEMMA BootDoneIsGood ==
  ASSUME TypeOK, PInv, BootDone
  PROVE  PInv'
<1>1. stack # << >> /\ top.op = "boot" /\ stack' = rest
  BY DEF BootDone, At
<1>2. Good(rest)
  BY <1>1, GoodPop DEF Own
<1> QED
  BY <1>1, <1>2, StackMoves DEF BootDone, PInv, ghosts

LEMMA RunIsGood ==
  ASSUME TypeOK, PInv, Run
  PROVE  PInv'
<1> DEFINE f == Frame("event", NULL, "msg", NULL)
           k == Push(f, stack)
<1>1. f \in FrameType /\ f.op = "event"
  <2>1. f \in FrameType
    BY FramesAreTyped DEF LoopOp, Pointer, Event
  <2>2. f.op = "event"
    BY DEF Frame
  <2> QED
    BY <2>1, <2>2
<1>2. ServePolls(k)
  BY DEF Run
<1> HIDE DEF f
<1>3. Good(k)
  BY <1>1, GoodPush DEF Run, PInv, TypeOK
<1>4. k \in Seq(FrameType) /\ k # << >> /\ Head(k) = f
  BY <1>1, PushIs DEF TypeOK
<1> HIDE DEF k
<1>5. Head(k).op \in {"event", "bcastcall"}
  BY <1>1, <1>4
<1> QED
  BY <1>2, <1>3, <1>4, <1>5, PollsServed DEF Run, PInv, ghosts

LEMMA RestoreIsGood ==
  ASSUME TypeOK, PInv, Restore
  PROVE  PInv'
<1>1. stack # << >> /\ top.op = "restore" /\ stack' = rest
  BY DEF Restore, At
<1>2. Good(rest)
  BY <1>1, GoodPop DEF Own
<1> QED
  BY <1>1, <1>2, StackMoves DEF Restore, PInv, ghosts

(* do_event, from the queue to the end of the list.                        *)
LEMMA DoEventIsGood ==
  ASSUME TypeOK, PInv, DoEvent
  PROVE  PInv'
<1>1. /\ stack # << >> /\ top.op = "event"
      /\ UNCHANGED <<list, needspoll, poll_requested, want>>
  BY DEF DoEvent, At
<1>2. rest = << >>
  BY <1>1, Beneath DEF PInv, Good, BottomOp
<1>3. Good(rest)
  BY <1>1, GoodPop DEF Own
<1>4. CASE nevents = 0
  BY <1>1, <1>3, <1>4, StackMoves DEF DoEvent, PInv
<1>5. CASE nevents # 0
  <2> DEFINE e == events[fevent]
  <2>1. e.p \in Pointer /\ e.ev \in Event
    BY DEF TypeOK
  <2>2. CASE e.p # NULL
    <3>1. e.p \in Proc /\ call_process(e.p, e.ev, rest) /\ UNCHANGED <<due, got>>
      BY <1>5, <2>1, <2>2 DEF DoEvent, Pointer
    <3> HIDE DEF e
    <3>2. rest \in Seq(FrameType) /\ CalledFrom(rest)
      BY <1>2, EmptyIs
    <3> QED
      BY <1>1, <1>3, <2>1, <3>1, <3>2, CallIsGood DEF PInv
  <2>3. CASE e.p = NULL
    <3> DEFINE f == Frame("bcast", process_list, e.ev, NULL)
               s == Push(f, rest)
    <3>1. stack' = s /\ due' = Listed /\ got' = {} /\ state' = state
      BY <1>5, <2>3 DEF DoEvent
    <3>2. f.op = "bcast" /\ f.p = process_list
      BY DEF Frame
    <3>3. f \in FrameType
      BY <2>1, FramesAreTyped DEF LoopOp, Pointer, TypeOK
    <3> HIDE DEF f
    <3>4. Cursors({<<f.op, f.p>>})
      BY <3>2 DEF Cursors
    <3>5. \A p \in want : Ahead({<<top.op, top.p>>}, p) => Ahead({<<f.op, f.p>>}, p)
      BY <1>1 DEF Ahead
    <3>6. /\ Marks(s) = {<<f.op, f.p>>} \cup Marks(rest)
          /\ Shape(s) /\ Active(Marks(s)) /\ Cursors(Marks(s)) /\ Kept(Marks(s))
      BY <1>1, <1>2, <3>2, <3>3, <3>4, <3>5, MoveKeeps DEF Own
    <3> HIDE DEF s
    <3>7. Marks(s) = {<<"bcast", process_list>>}
      BY <1>2, <3>2, <3>6, EmptyIs
    <3>8. Shape(stack)' /\ Active(Marks(stack))' /\ Cursors(Marks(stack))' /\ Kept(Marks(stack))'
      BY <1>1, <3>1, <3>6 DEF Shape, Active, Cursors, Kept, Ahead, Listed, ReachFrom, list
    <3>9. Exact(Marks(stack))'
      BY <1>1, <3>1, <3>7 DEF Exact, Comes, Listed, ReachFrom, list
    <3>10. Chain'
      BY <1>1, <3>1 DEF PInv, Chain, ListedIsRunning, process_is_running, Listed, ReachFrom, list
    <3> QED
      BY <3>8, <3>9, <3>10 DEF PInv, Good
  <2> QED
    BY <2>2, <2>3
<1> QED
  BY <1>4, <1>5

LEMMA BroadcastIsGood ==
  ASSUME TypeOK, PInv, Broadcast
  PROVE  PInv'
<1>1. /\ stack # << >> /\ top.op = "bcast" /\ top.p \in Pointer /\ top \in FrameType
      /\ UNCHANGED <<list, state, needspoll, want, due, got>>
  BY StackIs, FrameFields DEF Broadcast, At, ghosts
<1>2. rest = << >>
  BY <1>1, Beneath DEF PInv, Good, BottomOp
<1>3. CASE top.p = NULL
  <2>1. stack' = rest /\ poll_requested' = poll_requested
    BY <1>3 DEF Broadcast
  <2>2. Good(rest)
    BY <1>1, GoodPop DEF Own
  <2> QED
    BY <1>1, <2>1, <2>2, StackMoves DEF PInv
<1>4. CASE top.p # NULL
  <2> DEFINE f == [top EXCEPT !.op = "bcastcall"]
             k == Push(f, rest)
  <2>1. f \in FrameType
    BY <1>1, <1>4, FrameFields DEF CallOp, Pointer
  <2>2. f.op = "bcastcall" /\ f.p = top.p
    BY <1>1 DEF FrameType
  <2>3. ServePolls(k)
    BY <1>4 DEF Broadcast
  <2> HIDE DEF f
  <2>4. Exact({<<f.op, f.p>>})
    <3>1. Comes(top.p)
      BY <1>1, StackIs DEF PInv, Good, Exact
    <3> QED
      BY <2>2, <3>1 DEF Exact
  <2>5. Cursors({<<f.op, f.p>>})
    BY <2>2 DEF Cursors
  <2>6. \A p \in want : Ahead({<<top.op, top.p>>}, p) => Ahead({<<f.op, f.p>>}, p)
    BY <1>1 DEF Ahead
  <2>7. Good(k) /\ k \in Seq(FrameType) /\ Head(k) = f
    BY <1>1, <1>2, <2>1, <2>2, <2>4, <2>5, <2>6, GoodMove DEF Own
  <2>8. k # << >>
    <3>1. rest \in Seq(FrameType)
      BY <1>2, EmptyIs
    <3> QED
      BY <2>1, <3>1, PushIs
  <2> HIDE DEF k
  <2>9. Head(k).op \in {"event", "bcastcall"}
    BY <2>2, <2>7
  <2> QED
    BY <1>1, <2>3, <2>7, <2>8, <2>9, PollsServed DEF PInv
<1> QED
  BY <1>3, <1>4

LEMMA ReachOne ==
  ASSUME TypeOK, NEW p \in Proc
  PROVE  /\ next[p] \in Pointer /\ p \in ReachFrom(p)
         /\ ReachFrom(p) = {p} \cup ReachFrom(next[p])
BY NullAssumption, ReachStep DEF ReachFrom, TypeOK, Pointer

(* The process is reached, unless it ended: when a broadcast is at the top *)
(* of the stack, no process is being called.                               *)
LEMMA BroadcastCallIsGood ==
  ASSUME TypeOK, PInv, BroadcastCall
  PROVE  PInv'
<1>1. /\ stack # << >> /\ top.op = "bcastcall" /\ top \in FrameType
      /\ UNCHANGED <<list, needspoll, poll_requested, want>>
  BY StackIs DEF BroadcastCall, At
<1>2. top.p \in Proc /\ top.ev \in Event
  BY <1>1, FrameFields DEF CallOp
<1>3. rest = << >> /\ Marks(rest) = {}
  BY <1>1, Beneath, EmptyIs DEF PInv, Good, BottomOp
<1> DEFINE f == [top EXCEPT !.op = "bcasted"]
           k == Push(f, rest)
           p == top.p
<1>4. f \in FrameType
  BY <1>1, <1>2, FrameFields DEF CallOp
<1>5. f.op = "bcasted" /\ f.p = p
  BY <1>1 DEF FrameType
<1>6. call_process(p, top.ev, k)
  BY DEF BroadcastCall
<1>7. due' = (IF state[p] = "running" THEN due \ {p} ELSE due) /\
      got' = (IF state[p] = "running" THEN got \cup {p} ELSE got)
  BY DEF BroadcastCall
<1> HIDE DEF f
<1>8. Cursors({<<f.op, f.p>>})
  BY <1>5 DEF Cursors
<1>9. \A q \in want : Ahead({<<top.op, top.p>>}, q) => Ahead({<<f.op, f.p>>}, q)
  BY <1>1 DEF Ahead
<1>10. /\ k \in Seq(FrameType) /\ Head(k) = f /\ Marks(k) = {<<f.op, f.p>>} \cup Marks(rest)
       /\ Shape(k) /\ Active(Marks(k)) /\ Cursors(Marks(k)) /\ Kept(Marks(k))
  BY <1>1, <1>3, <1>4, <1>5, <1>8, <1>9, MoveKeeps DEF Own
<1> HIDE DEF k
<1>11. Marks(k) = {<<"bcasted", p>>}
  BY <1>3, <1>5, <1>10
<1>12. CalledFrom(k)
  BY <1>5, <1>10, <1>11 DEF CalledFrom
<1>13. due' \subseteq due
  BY <1>7
<1>14. /\ Chain' /\ Shape(stack)' /\ Active(Marks(stack))' /\ Cursors(Marks(stack))'
       /\ Kept(Marks(stack))'
       /\ \A op, q : op # "thread" => (<<op, q>> \in Marks(stack') <=> <<op, q>> \in Marks(k))
  BY <1>1, <1>2, <1>6, <1>10, <1>12, <1>13, CallKeeps DEF PInv
<1>15. due' \subseteq ReachFrom(next[p]) /\ got' \cap ReachFrom(next[p]) = {}
  <2>1. due \subseteq ReachFrom(p) /\ got \cap ReachFrom(p) = {}
    BY <1>1, <1>2, StackIs DEF PInv, Good, Exact, Comes, Pointer
  <2>2. ReachFrom(p) = {p} \cup ReachFrom(next[p])
    BY <1>2, ReachOne
  <2>3. CASE state[p] = "running"
    <3>1. p \in Listed
      BY <1>2, <2>3 DEF PInv, Chain, ListedIsRunning, process_is_running
    <3>2. p \notin ReachFrom(next[p])
      BY <3>1 DEF PInv, Chain, Acyclic, Listed, ReachFrom
    <3> QED
      BY <1>7, <2>1, <2>2, <2>3, <3>2
  <2>4. CASE state[p] # "running"
    <3>1. state[p] # "called"
      BY <1>1, <1>2, <1>3, StackIs DEF PInv, Good, Active
    <3>2. p \notin Listed
      BY <1>2, <2>4, <3>1 DEF PInv, Chain, ListedIsRunning, process_is_running, TypeOK
    <3>3. p \notin due
      BY <3>2 DEF PInv, Chain
    <3> QED
      BY <1>7, <2>1, <2>2, <2>4, <3>3
  <2> QED
    BY <2>3, <2>4
<1>16. \A c : /\ <<"bcast", c>> \notin Marks(stack') /\ <<"bcastcall", c>> \notin Marks(stack')
              /\ <<"bcasted", c>> \in Marks(stack') => c = p
  BY <1>11, <1>14
<1>17. Exact(Marks(stack))'
  BY <1>1, <1>15, <1>16 DEF Exact, Comes, ReachFrom, list
<1> QED
  BY <1>14, <1>17 DEF PInv, Good

LEMMA BroadcastNextIsGood ==
  ASSUME TypeOK, PInv, BroadcastNext
  PROVE  PInv'
<1>1. /\ stack # << >> /\ top.op = "bcasted" /\ top \in FrameType
      /\ UNCHANGED <<list, state, needspoll, poll_requested, want, due, got>>
  BY StackIs DEF BroadcastNext, At, ghosts
<1>2. top.p \in Proc
  BY <1>1, FrameFields DEF CallOp
<1>3. rest = << >>
  BY <1>1, Beneath DEF PInv, Good, BottomOp
<1> DEFINE f == [top EXCEPT !.op = "bcast", !.p = next[top.p]]
<1>4. f \in FrameType
  BY <1>1, <1>2, FrameFields, ReachOne DEF LoopOp
<1>5. f.op = "bcast" /\ f.p = next[top.p]
  BY <1>1 DEF FrameType
<1>6. stack' = Push(f, rest)
  BY DEF BroadcastNext
<1> HIDE DEF f
<1>7. Cursors({<<f.op, f.p>>})
  BY <1>5 DEF Cursors
<1>8. Exact({<<f.op, f.p>>})
  <2>1. Comes(next[top.p])
    BY <1>1, <1>2, StackIs DEF PInv, Good, Exact
  <2> QED
    BY <1>5, <2>1 DEF Exact
<1>9. \A q \in want : Ahead({<<top.op, top.p>>}, q) => Ahead({<<f.op, f.p>>}, q)
  BY <1>1 DEF Ahead
<1>10. Good(Push(f, rest))
  BY <1>1, <1>3, <1>4, <1>5, <1>7, <1>8, <1>9, GoodMove DEF Own
<1> QED
  BY <1>1, <1>6, <1>10, StackMoves DEF PInv

(* do_poll: one process called, or passed over.                            *)
LEMMA DoPollNextIsGood ==
  ASSUME TypeOK, PInv, DoPollNext
  PROVE  PInv'
<1>1. /\ stack # << >> /\ top.op = "polled" /\ top \in FrameType
      /\ UNCHANGED <<list, state, needspoll, poll_requested, want, due, got>>
  BY StackIs DEF DoPollNext, At, ghosts
<1>2. top.p \in Proc
  BY <1>1, FrameFields DEF CallOp
<1> DEFINE f == [top EXCEPT !.op = "poll", !.p = next[top.p]]
<1>3. f \in FrameType
  BY <1>1, <1>2, FrameFields, ReachOne DEF LoopOp
<1>4. f.op = "poll" /\ f.p = next[top.p]
  BY <1>1 DEF FrameType
<1>5. stack' = Push(f, rest)
  BY DEF DoPollNext
<1> HIDE DEF f
<1>6. Cursors({<<f.op, f.p>>})
  <2>1. next[top.p] \in Listed \cup {NULL}
    BY <1>1, <1>2, StackIs DEF PInv, Good, Cursors
  <2> QED
    BY <1>4, <2>1, NullAssumption DEF Cursors
<1>7. Exact({<<f.op, f.p>>})
  BY <1>4 DEF Exact
<1>8. \A q \in want : Ahead({<<top.op, top.p>>}, q) => Ahead({<<f.op, f.p>>}, q)
  <2>1. next[top.p] \in Pointer
    BY <1>2, ReachOne
  <2> QED
    BY <1>1, <1>4, <2>1 DEF Ahead
<1>9. rest # << >> => Above(Listed, f, Head(rest))
  <2>1. rest # << >> => Above(Listed, top, Head(rest))
    BY <1>1, StackIs DEF PInv, Good
  <2> QED
    BY <1>1, <1>4, <2>1 DEF Above, TopOp, BottomOp, Own
<1>10. Good(Push(f, rest))
  BY <1>1, <1>3, <1>4, <1>6, <1>7, <1>8, <1>9, GoodMove DEF Own
<1> QED
  BY <1>1, <1>5, <1>10, StackMoves DEF PInv

LEMMA ListClosed ==
  ASSUME TypeOK, NEW p \in Listed
  PROVE  p \in Proc /\ next[p] \in Listed \cup {NULL}
BY NullAssumption, ReachClosed DEF Listed, ReachFrom, TypeOK, Pointer

(* Polls are served for do_event only, which runs when no process is being *)
(* called: the one polled is not.                                          *)
LEMMA DoPollIsGood ==
  ASSUME TypeOK, PInv, DoPoll
  PROVE  PInv'
<1>1. /\ stack # << >> /\ top.op = "poll" /\ top \in FrameType /\ top.p \in Pointer
      /\ rest \in Seq(FrameType) /\ Marks(stack) = {<<top.op, top.p>>} \cup Marks(rest)
      /\ Nested(Listed, rest) /\ OwnOnce(rest) /\ (rest # << >> => Above(Listed, top, Head(rest)))
      /\ UNCHANGED <<list, poll_requested, due, got>>
  BY StackIs, FrameFields DEF DoPoll, At, PInv, Good
<1>2. \A op, q : <<op, q>> \in Marks(rest) => op \in {"event", "bcastcall"}
  BY <1>1, Beneath DEF PInv, Good
<1>3. CASE top.p = NULL
  <2>1. stack' = rest /\ UNCHANGED <<state, needspoll, want>>
    BY <1>3 DEF DoPoll
  <2>2. Good(rest)
    BY <1>1, <1>3, GoodPop DEF Own
  <2> QED
    BY <1>1, <2>1, <2>2, StackMoves DEF PInv
<1>4. CASE top.p \in Proc /\ ~needspoll[top.p]
  <2> DEFINE f == [top EXCEPT !.p = next[top.p]]
  <2>1. stack' = Push(f, rest) /\ UNCHANGED <<state, needspoll, want>>
    BY <1>4, NullAssumption DEF DoPoll
  <2>2. f \in FrameType
    BY <1>1, <1>4, FrameFields, ReachOne DEF LoopOp
  <2>3. f.op = "poll" /\ f.p = next[top.p]
    BY <1>1, <1>4 DEF FrameType
  <2> HIDE DEF f
  <2>4. Cursors({<<f.op, f.p>>})
    <3>1. top.p \in Listed
      BY <1>1, <1>4 DEF PInv, Good, Cursors
    <3>2. next[top.p] \in Listed \cup {NULL}
      BY <3>1, ListClosed
    <3> QED
      BY <2>3, <3>2, NullAssumption DEF Cursors
  <2>5. Exact({<<f.op, f.p>>})
    BY <2>3 DEF Exact
  <2>6. \A q \in want : Ahead({<<top.op, top.p>>}, q) => Ahead({<<f.op, f.p>>}, q)
    <3>1. top.p \notin want
      BY <1>4 DEF PInv, Good, Kept
    <3>2. next[top.p] \in Pointer /\ ReachFrom(top.p) = {top.p} \cup ReachFrom(next[top.p])
      BY <1>4, ReachOne
    <3> QED
      BY <1>1, <2>3, <3>1, <3>2 DEF Ahead
  <2>7. rest # << >> => Above(Listed, f, Head(rest))
    BY <1>1, <2>3 DEF Above
  <2>8. Good(Push(f, rest))
    BY <1>1, <2>2, <2>3, <2>4, <2>5, <2>6, <2>7, GoodMove DEF Own
  <2> QED
    BY <1>1, <2>1, <2>8, StackMoves DEF PInv
<1>5. CASE top.p \in Proc /\ needspoll[top.p]
  <2> DEFINE p == top.p
             f == [top EXCEPT !.op = "polled"]
             k == Push(f, rest)
             t == Thread("thread", p, "poll")
             s == Push(t, k)
  <2>1. /\ needspoll' = [needspoll EXCEPT ![p] = FALSE]
        /\ state' = [state EXCEPT ![p] = "called"]
        /\ stack' = s
        /\ want' = want \ {p}
    BY <1>5, NullAssumption DEF DoPoll
  <2>2. f \in FrameType
    BY <1>1, <1>5, FrameFields DEF CallOp
  <2>3. f.op = "polled" /\ f.p = p
    BY <1>1 DEF FrameType
  <2>4. t \in FrameType
    BY <1>5, FramesAreTyped DEF CallOp, Event
  <2>5. t.op = "thread" /\ t.p = p
    BY DEF Thread
  <2> HIDE DEF f, t
  <2>6. p \in Listed
    BY <1>1, <1>5 DEF PInv, Good, Cursors
  <2>7. rest # << >> => Above(Listed, f, Head(rest))
    BY <1>1, <2>3 DEF Above, TopOp, BottomOp, Own
  <2>8. Above(Listed, t, f)
    BY <2>3, <2>5, <2>6 DEF Above, TopOp, BottomOp, Own
  <2>9. k \in Seq(FrameType) /\ Head(k) = f
    BY <1>1, <2>2, PushIs
  <2>10. Marks(k) = {<<"polled", p>>} \cup Marks(rest)
    BY <1>1, <2>2, <2>3, MarksPush DEF Mark
  <2>11. Nested(Listed, k) /\ OwnOnce(k)
    BY <1>1, <2>2, <2>3, <2>7, NestedPush, OwnOncePush DEF Own
  <2> HIDE DEF k
  <2>12. Marks(s) = {<<"thread", p>>, <<"polled", p>>} \cup Marks(rest)
    BY <2>4, <2>5, <2>9, <2>10, MarksPush DEF Mark
  <2>13. <<"thread", p>> \notin Marks(k) /\ <<"unlink", p>> \notin Marks(k)
    BY <1>2, <2>10
  <2>14. Nested(Listed, s) /\ OwnOnce(s)
    BY <2>4, <2>5, <2>8, <2>9, <2>11, <2>13, NestedPush, OwnOncePush
  <2> HIDE DEF s
  <2>15. /\ state'[p] = "called" /\ \A q \in Proc : q # p => state'[q] = state[q]
         /\ state[p] # "none"
         /\ needspoll'[p] = FALSE /\ \A q \in Proc : q # p => needspoll'[q] = needspoll[q]
    BY <1>5, <2>1, <2>6 DEF TypeOK, PInv, Chain, ListedIsRunning, process_is_running
  <2>16. \A q : /\ <<"unlink", q>> \notin Marks(s)
                /\ <<"exiting", q>> \notin Marks(s)
                /\ <<"thread", q>> \in Marks(s) <=> q = p
                /\ <<"poll", q>> \notin Marks(s)
                /\ <<"polled", q>> \in Marks(s) <=> q = p
                /\ <<"bcast", q>> \notin Marks(s)
                /\ <<"bcasted", q>> \notin Marks(s)
                /\ <<"bcastcall", q>> \in Marks(s) <=> <<"bcastcall", q>> \in Marks(stack)
    BY <1>1, <1>2, <2>12
  <2>17. \A q \in Proc : state[q] # "called"
    <3>1. \A q : <<"thread", q>> \notin Marks(stack) /\ <<"unlink", q>> \notin Marks(stack)
      BY <1>1, <1>2
    <3> QED
      BY <3>1 DEF PInv, Good, Active
  <2>18. Chain'
    <3>1. ListedIsRunning'
      BY <1>1, <2>15 DEF PInv, Chain, ListedIsRunning, process_is_running, Listed, ReachFrom, list
    <3>2. want' \subseteq Listed
      BY <2>1 DEF PInv, Chain
    <3> QED
      BY <1>1, <3>1, <3>2 DEF PInv, Chain, Listed, ReachFrom, list
  <2>19. Shape(stack)'
    BY <1>1, <2>1, <2>14, <2>16 DEF Shape, Listed, ReachFrom, list
  <2>20. Active(Marks(stack))'
    <3>1. \A q \in Proc : /\ <<"thread", q>> \in Marks(s) <=> state'[q] = "called"
                          /\ <<"unlink", q>> \notin Marks(s) /\ <<"exiting", q>> \notin Marks(s)
      BY <2>15, <2>16, <2>17
    <3> QED
      BY <2>1, <3>1 DEF Active
  <2>21. Cursors(Marks(stack))'
    <3>1. next[p] \in Listed \cup {NULL}
      BY <2>6, ListClosed
    <3> QED
      BY <1>1, <2>1, <2>16, <3>1 DEF Cursors, Listed, ReachFrom, list
  <2>22. Kept(Marks(stack))'
    <3> SUFFICES ASSUME NEW q \in want', ~poll_requested
                 PROVE  needspoll'[q] /\ Ahead(Marks(stack), q)'
      BY <1>1, <2>1, <2>15 DEF Kept, PInv, Good, TypeOK
    <3>1. q \in want /\ q \in Proc /\ q # p
      BY <2>1 DEF TypeOK
    <3>2. needspoll[q] /\ Ahead(Marks(stack), q)
      BY <3>1 DEF PInv, Good, Kept
    <3>3. needspoll'[q]
      BY <2>15, <3>1, <3>2
    <3>4. q \in ReachFrom(p)
      <4>1. \A c : /\ <<"polled", c>> \notin Marks(stack)
                   /\ <<"poll", c>> \in Marks(stack) => c = p
        BY <1>1, <1>2
      <4> QED
        BY <3>2, <4>1 DEF Ahead
    <3>5. q \in ReachFrom(next[p])
      BY <1>5, <3>1, <3>4, ReachOne
    <3>6. Ahead(Marks(stack), q)'
      BY <1>1, <1>5, <2>1, <2>16, <3>5 DEF Ahead, ReachFrom, list
    <3> QED
      BY <3>3, <3>6
  <2>23. Exact(Marks(stack))'
    BY <1>1, <2>1, <2>16 DEF PInv, Good, Exact, Comes, ReachFrom, list
  <2> QED
    BY <2>18, <2>19, <2>20, <2>21, <2>22, <2>23 DEF PInv, Good
<1> QED
  BY <1>1, <1>3, <1>4, <1>5 DEF Pointer

(* The announcement of an exit.                                            *)
LEMMA TellExitedIsGood ==
  ASSUME TypeOK, PInv, TellExited
  PROVE  PInv'
<1>1. /\ stack # << >> /\ top.op = "exited" /\ top \in FrameType /\ top.p \in Pointer
      /\ UNCHANGED <<list, needspoll, poll_requested, want, due, got>>
  BY StackIs, FrameFields DEF TellExited, At, ghosts
<1>2. CASE top.p = NULL
  <2>1. stack' = rest /\ state' = state
    BY <1>2 DEF TellExited
  <2>2. Good(rest)
    BY <1>1, GoodPop DEF Own
  <2> QED
    BY <1>1, <2>1, <2>2, StackMoves DEF PInv
<1>3. CASE top.p # NULL
  <2> DEFINE f == [top EXCEPT !.op = "exitednext"]
             k == Push(f, rest)
  <2>1. top.p \in Proc
    BY <1>1, <1>3 DEF Pointer
  <2>2. f \in FrameType
    BY <1>1, <2>1, FrameFields DEF CallOp
  <2>3. f.op = "exitednext" /\ f.p = top.p
    BY <1>1 DEF FrameType
  <2>4. call_process(top.p, "exited", k)
    BY <1>3 DEF TellExited
  <2> HIDE DEF f
  <2>5. Cursors({<<f.op, f.p>>}) /\ Exact({<<f.op, f.p>>})
    BY <2>3 DEF Cursors, Exact
  <2>6. \A q \in want : Ahead({<<top.op, top.p>>}, q) => Ahead({<<f.op, f.p>>}, q)
    BY <1>1 DEF Ahead
  <2>7. rest # << >> => Above(Listed, f, Head(rest))
    <3>1. rest # << >> => Above(Listed, top, Head(rest))
      BY <1>1, StackIs DEF PInv, Good
    <3> QED
      BY <1>1, <2>3, <3>1 DEF Above, TopOp, BottomOp, Own
  <2>8. /\ Good(k) /\ k \in Seq(FrameType) /\ Head(k) = f
        /\ Marks(k) = {<<f.op, f.p>>} \cup Marks(rest)
    BY <1>1, <2>2, <2>3, <2>5, <2>6, <2>7, GoodMove DEF Own
  <2> HIDE DEF k
  <2>9. CalledFrom(k)
    <3>1. \A q : <<"exiting", q>> \notin Marks(rest) /\ <<"unlink", q>> \notin Marks(rest)
      BY <1>1, Beneath DEF PInv, Good, TopOp
    <3> QED
      BY <2>3, <2>8, <3>1 DEF CalledFrom
  <2>10. "exited" \in Event
    BY DEF Event
  <2> QED
    BY <1>1, <2>1, <2>4, <2>8, <2>9, <2>10, CallIsGood DEF PInv
<1> QED
  BY <1>2, <1>3

LEMMA TellExitedNextIsGood ==
  ASSUME TypeOK, PInv, TellExitedNext
  PROVE  PInv'
<1>1. /\ stack # << >> /\ top.op = "exitednext" /\ top \in FrameType
      /\ UNCHANGED <<list, state, needspoll, poll_requested, want, due, got>>
  BY StackIs DEF TellExitedNext, At, ghosts
<1>2. top.p \in Proc
  BY <1>1, FrameFields DEF CallOp
<1> DEFINE f == [top EXCEPT !.op = "exited", !.p = next[top.p]]
<1>3. f \in FrameType
  BY <1>1, <1>2, FrameFields, ReachOne DEF LoopOp
<1>4. f.op = "exited" /\ f.p = next[top.p]
  BY <1>1 DEF FrameType
<1>5. stack' = Push(f, rest)
  BY DEF TellExitedNext
<1> HIDE DEF f
<1>6. Cursors({<<f.op, f.p>>}) /\ Exact({<<f.op, f.p>>})
  BY <1>4 DEF Cursors, Exact
<1>7. \A q \in want : Ahead({<<top.op, top.p>>}, q) => Ahead({<<f.op, f.p>>}, q)
  BY <1>1 DEF Ahead
<1>8. rest # << >> => Above(Listed, f, Head(rest))
  <2>1. rest # << >> => Above(Listed, top, Head(rest))
    BY <1>1, StackIs DEF PInv, Good
  <2> QED
    BY <1>1, <1>4, <2>1 DEF Above, TopOp, BottomOp, Own
<1>9. Good(Push(f, rest))
  BY <1>1, <1>3, <1>4, <1>6, <1>7, <1>8, GoodMove DEF Own
<1> QED
  BY <1>1, <1>5, <1>9, StackMoves DEF PInv

LEMMA NestedWithout ==
  ASSUME NEW L, NEW x, NEW k \in Seq(FrameType), Nested(L, k),
         <<"thread", x>> \notin Marks(k), \A q : <<"unlink", q>> \notin Marks(k)
  PROVE  Nested(L \ {x}, k)
<1>1. ASSUME NEW i \in 1 .. Len(k) - 1 PROVE Above(L \ {x}, k[i], k[i + 1])
  <2>1. Above(L, k[i], k[i + 1])
    BY DEF Nested
  <2>2. i \in 1 .. Len(k)
    OBVIOUS
  <2>3. <<k[i].op, k[i].p>> \in Marks(k)
    BY <2>2 DEF Marks, Mark
  <2>4. k[i].op \in Own => k[i].p # x
    BY <2>3 DEF Own
  <2> QED
    BY <2>1, <2>4 DEF Above
<1> QED
  BY <1>1 DEF Nested

(* Wherever a loop stands, it still comes to all that it would have come   *)
(* to, except to the one that is taken off.                                *)
LEMMA RemoveReaches ==
  ASSUME TypeOK, NEW x \in Proc
  PROVE  LET nxt == NextWithout(x)
         IN  /\ nxt \in [Proc -> Pointer]
             /\ \A c \in Pointer : /\ Reachable(Proc, NULL, nxt, c) \subseteq ReachFrom(c)
                                   /\ ReachFrom(c) \subseteq Reachable(Proc, NULL, nxt, c) \cup {x}
             /\ \A c \in Proc :
                  /\ Reachable(Proc, NULL, nxt, nxt[c]) \subseteq ReachFrom(next[c])
                  /\ ReachFrom(next[c]) \subseteq Reachable(Proc, NULL, nxt, nxt[c]) \cup {x}
<1> DEFINE nxt == NextWithout(x)
<1>1. nxt = Without(Proc, Listed, next, x)
  BY DEF NextWithout, Without
<1>2. /\ nxt \in [Proc -> Pointer]
      /\ \A c \in Proc : nxt[c] = next[c] \/ (next[c] = x /\ nxt[c] = next[x])
  BY DEF NextWithout, TypeOK
<1>3. next \in [Proc -> Proc \cup {NULL}] /\ NULL \notin Proc
  BY NullAssumption DEF TypeOK, Pointer
<1>4. ASSUME NEW c \in Pointer
      PROVE  /\ Reachable(Proc, NULL, nxt, c) \subseteq ReachFrom(c)
             /\ ReachFrom(c) \subseteq Reachable(Proc, NULL, nxt, c) \cup {x}
  <2>1. c \in Proc \cup {NULL}
    BY DEF Pointer
  <2> HIDE DEF nxt
  <2> QED
    BY <1>1, <1>3, <2>1, ReachWithout DEF ReachFrom
<1> HIDE DEF nxt
<1>5. ASSUME NEW c \in Proc
      PROVE  /\ Reachable(Proc, NULL, nxt, nxt[c]) \subseteq ReachFrom(next[c])
             /\ ReachFrom(next[c]) \subseteq Reachable(Proc, NULL, nxt, nxt[c]) \cup {x}
  <2>1. next[c] \in Pointer /\ next[x] \in Pointer
    BY DEF TypeOK
  <2>2. CASE nxt[c] = next[c]
    BY <1>4, <2>1, <2>2
  <2>3. CASE next[c] = x /\ nxt[c] = next[x]
    <3>1. ReachFrom(x) = {x} \cup ReachFrom(next[x])
      BY ReachOne
    <3>2. /\ Reachable(Proc, NULL, nxt, next[x]) \subseteq ReachFrom(next[x])
          /\ ReachFrom(next[x]) \subseteq Reachable(Proc, NULL, nxt, next[x]) \cup {x}
      BY <1>4, <2>1
    <3> QED
      BY <2>3, <3>1, <3>2
  <2> QED
    BY <1>2, <2>2, <2>3
<1> QED
  BY <1>2, <1>4, <1>5 DEF nxt

(* While a process is about to leave the list, no loop of do_poll stands   *)
(* on one that left before.                                                *)
LEMMA PolledIsListed ==
  ASSUME TypeOK, PInv, stack # << >>, top.op = "unlink", NEW c, <<"polled", c>> \in Marks(rest)
  PROVE  c \in Listed
<1>1. /\ stack \in Seq(FrameType) /\ rest \in Seq(FrameType) /\ Len(rest) = Len(stack) - 1
      /\ \A i \in 1 .. Len(rest) : rest[i] = stack[i + 1]
      /\ Marks(stack) = {<<top.op, top.p>>} \cup Marks(rest) /\ top \in FrameType
  BY StackIs DEF TypeOK, rest
<1>2. PICK j \in 1 .. Len(rest) : rest[j].op = "polled" /\ rest[j].p = c
  BY DEF Marks, Mark
<1>3. j \in 1 .. Len(stack) - 1 /\ j \in 1 .. Len(stack) /\ stack[j + 1] = rest[j]
  BY <1>1, <1>2
<1>4. Above(Listed, stack[j], stack[j + 1])
  BY <1>3 DEF PInv, Good, Shape, Nested
<1>5. stack[j] \in FrameType
  BY <1>1, <1>3
<1>6. <<stack[j].op, stack[j].p>> \in Marks(stack) /\ stack[j].p \in Pointer
  BY <1>3, <1>5, FrameFields DEF Marks, Mark
<1>7. top.p \in Proc
  BY <1>1, FrameFields DEF CallOp
<1>8. stack[j].op \notin {"exited", "exitednext"}
  BY <1>1, <1>6, <1>7 DEF PInv, Good, Shape
<1> QED
  BY <1>2, <1>3, <1>4, <1>8 DEF Above

LEMMA RemoveIsGood ==
  ASSUME TypeOK, PInv, Remove
  PROVE  PInv'
<1> DEFINE x == top.p
           nxt == NextWithout(x)
           f == Frame("exited", process_list', "exited", top.cur)
           s == Push(f, rest)
           L == Listed \ {x}
           U == Marks(rest)
<1>1. /\ stack # << >> /\ top.op = "unlink" /\ top \in FrameType /\ rest \in Seq(FrameType)
      /\ Marks(stack) = {<<"unlink", x>>} \cup U
      /\ Nested(Listed, rest) /\ OwnOnce(rest) /\ (rest # << >> => Above(Listed, top, Head(rest)))
      /\ <<"thread", x>> \notin U
  BY StackIs DEF Remove, At, PInv, Good, Own
<1>2. x \in Proc
  BY <1>1, FrameFields DEF CallOp
<1>3. \A q : /\ <<"poll", q>> \notin U /\ <<"bcast", q>> \notin U /\ <<"exited", q>> \notin U
             /\ <<"exiting", q>> \notin U /\ <<"unlink", q>> \notin U
  BY <1>1, Beneath DEF PInv, Good, TopOp
<1>4. x \in Listed /\ state[x] # "none"
  BY <1>1, <1>2 DEF PInv, Good, Active, Chain, ListedIsRunning, process_is_running
<1>5. /\ process_list' = IF x = process_list THEN next[x] ELSE process_list
      /\ next' = nxt
      /\ state' = [state EXCEPT ![x] = "none"]
      /\ stack' = s
      /\ want' = want \ {x} /\ due' = due \ {x} /\ got' = got \ {x}
      /\ needspoll' = needspoll /\ poll_requested' = poll_requested
  BY <1>4 DEF Remove, process_is_running
<1>6. process_list' \in Pointer /\ nxt \in [Proc -> Pointer]
  BY <1>2, <1>5 DEF TypeOK, NextWithout
<1>7. f.op = "exited" /\ f.p = process_list'
  BY DEF Frame
<1>8. f \in FrameType
  <2>1. top.cur \in Pointer
    BY <1>1, FrameFields
  <2> QED
    BY <1>6, <2>1, FramesAreTyped DEF LoopOp, Event
<1> HIDE DEF f
<1>9. Reachable(Proc, NULL, next', process_list') = L /\ Acyclic(Proc, NULL, next', process_list')
  <2>1. next \in [Proc -> Proc \cup {NULL}] /\ NULL \notin Proc /\ process_list \in Proc \cup {NULL}
    BY NullAssumption DEF TypeOK, Pointer
  <2>2. nxt = Without(Proc, Listed, next, x)
    BY DEF NextWithout, Without
  <2>3. Acyclic(Proc, NULL, next, process_list) /\ x \notin Reachable(Proc, NULL, next, next[x])
    BY <1>4 DEF PInv, Chain, Acyclic, Listed, ReachFrom
  <2>4. LET h == IF process_list = x THEN next[x] ELSE process_list
        IN  /\ Reachable(Proc, NULL, Without(Proc, Listed, next, x), h) = Listed \ {x}
            /\ Acyclic(Proc, NULL, Without(Proc, Listed, next, x), h)
    BY <1>2, <2>1, <2>3, ListWithout DEF Listed, ReachFrom
  <2> HIDE DEF nxt
  <2> QED
    BY <1>5, <2>2, <2>4
<1>10. Listed' = L
  BY <1>9 DEF Listed, ReachFrom
<1>11. /\ state'[x] = "none" /\ \A q \in Proc : q # x => state'[q] = state[q]
  BY <1>2, <1>5 DEF TypeOK
<1>12. Marks(s) = {<<"exited", process_list'>>} \cup U
  BY <1>1, <1>7, <1>8, MarksPush DEF Mark
<1> HIDE DEF s, U, L
<1>13. Marks(stack)' = Marks(s) /\ Marks(stack') = Marks(s)
  BY <1>5
<1>14. \A q : /\ <<"poll", q>> \notin Marks(s) /\ <<"bcast", q>> \notin Marks(s)
              /\ <<"exiting", q>> \notin Marks(s) /\ <<"unlink", q>> \notin Marks(s)
              /\ <<"thread", q>> \in Marks(s) <=> <<"thread", q>> \in U
              /\ <<"polled", q>> \in Marks(s) <=> <<"polled", q>> \in U
              /\ <<"bcastcall", q>> \in Marks(s) <=> <<"bcastcall", q>> \in U
              /\ <<"bcasted", q>> \in Marks(s) <=> <<"bcasted", q>> \in U
  BY <1>3, <1>12
<1>15. /\ \A c \in Pointer : /\ ReachFrom(c)' \subseteq ReachFrom(c)
                             /\ ReachFrom(c) \subseteq ReachFrom(c)' \cup {x}
       /\ \A c \in Proc :
            /\ Reachable(Proc, NULL, next', next'[c]) \subseteq ReachFrom(next[c])
            /\ ReachFrom(next[c]) \subseteq Reachable(Proc, NULL, next', next'[c]) \cup {x}
  <2> HIDE DEF nxt
  <2>1. /\ \A c \in Pointer : /\ Reachable(Proc, NULL, nxt, c) \subseteq ReachFrom(c)
                              /\ ReachFrom(c) \subseteq Reachable(Proc, NULL, nxt, c) \cup {x}
        /\ \A c \in Proc :
             /\ Reachable(Proc, NULL, nxt, nxt[c]) \subseteq ReachFrom(next[c])
             /\ ReachFrom(next[c]) \subseteq Reachable(Proc, NULL, nxt, nxt[c]) \cup {x}
    BY <1>2, RemoveReaches DEF nxt
  <2> QED
    BY <1>5, <2>1 DEF ReachFrom
<1>16. Chain'
  <2>1. ListedIsRunning'
    <3>1. Listed = {q \in Proc : state[q] # "none"}
      BY DEF PInv, Chain, ListedIsRunning, process_is_running
    <3>2. L = {q \in Proc : state'[q] # "none"}
      BY <1>2, <1>11, <3>1 DEF L
    <3> QED
      BY <1>10, <3>2 DEF ListedIsRunning, process_is_running
  <2>2. want' \subseteq L /\ due' \subseteq L
    BY <1>5 DEF PInv, Chain, L
  <2> QED
    BY <1>9, <1>10, <2>1, <2>2 DEF Chain
<1>17. Shape(stack)'
  <2>1. Nested(L, rest)
    BY <1>1, <1>3, NestedWithout DEF U, L
  <2>2. rest # << >> => Above(L, f, Head(rest))
    BY <1>1, <1>7 DEF Above, TopOp, BottomOp
  <2>3. Nested(L, s) /\ OwnOnce(s)
    BY <1>1, <1>7, <1>8, <2>1, <2>2, NestedPush, OwnOncePush DEF s, Own
  <2> QED
    BY <1>5, <1>10, <1>14, <2>3 DEF Shape
<1>18. Active(Marks(stack))'
  <2>1. ASSUME NEW q \in Proc
        PROVE  /\ <<"thread", q>> \in Marks(s) => state'[q] = "called"
               /\ state'[q] = "called" => <<"thread", q>> \in Marks(s)
    <3>1. CASE q = x
      BY <1>1, <1>11, <1>14, <3>1
    <3>2. CASE q # x
      <4>1. /\ <<"thread", q>> \in Marks(stack) <=> <<"thread", q>> \in U
            /\ <<"unlink", q>> \notin Marks(stack)
        BY <1>1, <1>3, <3>2
      <4> QED
        BY <1>11, <1>14, <3>2, <4>1 DEF PInv, Good, Active
    <3> QED
      BY <3>1, <3>2
  <2> QED
    BY <1>5, <1>14, <2>1 DEF Active
<1>19. Cursors(Marks(stack))'
  <2>1. ASSUME NEW c \in Proc, <<"polled", c>> \in Marks(s)
        PROVE  next'[c] \in L \cup {NULL}
    <3>1. c \in Listed
      BY <1>1, <1>14, <2>1, PolledIsListed DEF U
    <3>2. next[c] \in Listed \cup {NULL} /\ next[x] \in Listed \cup {NULL}
      BY <1>4, <3>1, ListClosed
    <3>3. next[x] # x
      <4>1. x \in ReachFrom(x)
        BY <1>2, ReachOne
      <4>2. x \notin ReachFrom(next[x])
        BY <1>4 DEF PInv, Chain, Acyclic, Listed, ReachFrom
      <4> QED
        BY <4>1, <4>2
    <3>4. next'[c] = IF next[c] = x THEN next[x] ELSE next[c]
      BY <1>5, <3>1 DEF NextWithout
    <3> QED
      BY <3>2, <3>3, <3>4 DEF L
  <2> QED
    BY <1>5, <1>10, <1>14, <2>1 DEF Cursors
<1>20. Kept(Marks(stack))'
  <2>1. ASSUME NEW q \in want', Ahead(Marks(stack), q)
        PROVE  Ahead(Marks(stack), q)'
    <3>1. q # x
      BY <1>5, <2>1
    <3>2. \A c : <<"poll", c>> \notin Marks(stack)
      BY <1>1, <1>3
    <3>3. PICK c \in Proc : <<"polled", c>> \in Marks(stack) /\ q \in ReachFrom(next[c])
      BY <2>1, <3>2 DEF Ahead
    <3>4. <<"polled", c>> \in Marks(s)
      BY <1>1, <1>14, <3>3
    <3>5. q \in Reachable(Proc, NULL, next', next'[c])
      BY <1>15, <3>1, <3>3
    <3> QED
      BY <1>13, <3>4, <3>5 DEF Ahead, ReachFrom
  <2>2. \A q \in want' : needspoll'[q] /\ (poll_requested' \/ Ahead(Marks(stack), q))
    <3>1. \A q \in want : needspoll[q] /\ (poll_requested \/ Ahead(Marks(stack), q))
      BY DEF PInv, Good, Kept
    <3> QED
      BY <1>5, <3>1
  <2> QED
    BY <2>1, <2>2 DEF Kept
<1>21. Exact(Marks(stack))'
  <2>1. ASSUME NEW c \in Pointer, <<"bcastcall", c>> \in Marks(s)
        PROVE  due' \subseteq ReachFrom(c)' /\ got' \cap ReachFrom(c)' = {}
    <3>1. due \subseteq ReachFrom(c) /\ got \cap ReachFrom(c) = {}
      BY <1>1, <1>14, <2>1 DEF PInv, Good, Exact, Comes
    <3>2. ReachFrom(c)' \subseteq ReachFrom(c) /\ ReachFrom(c) \subseteq ReachFrom(c)' \cup {x}
      BY <1>15
    <3> QED
      BY <1>5, <3>1, <3>2
  <2>2. ASSUME NEW c \in Proc, <<"bcasted", c>> \in Marks(s)
        PROVE  /\ due' \subseteq Reachable(Proc, NULL, next', next'[c])
               /\ got' \cap Reachable(Proc, NULL, next', next'[c]) = {}
    <3>1. due \subseteq ReachFrom(next[c]) /\ got \cap ReachFrom(next[c]) = {}
      BY <1>1, <1>14, <2>2 DEF PInv, Good, Exact, Comes
    <3>2. /\ Reachable(Proc, NULL, next', next'[c]) \subseteq ReachFrom(next[c])
          /\ ReachFrom(next[c]) \subseteq Reachable(Proc, NULL, next', next'[c]) \cup {x}
      BY <1>15
    <3> QED
      BY <1>5, <3>1, <3>2
  <2> QED
    BY <1>13, <1>14, <2>1, <2>2 DEF Exact, Comes, ReachFrom
<1> QED
  BY <1>16, <1>17, <1>18, <1>19, <1>20, <1>21 DEF PInv, Good

(* What the discipline says of the marks.                                  *)
LEMMA DisciplineIs ==
  ASSUME TypeOK, Liberties = {}
  PROVE  /\ MayCall => \A p : <<"exiting", p>> \notin Marks(stack)
         /\ MayLeave => \A p : <<"exited", p>> \notin Marks(stack) /\ <<"exitednext", p>> \notin Marks(stack)
         /\ \A p : MayExit(p) => MayLeave /\ state[p] # "called"
         /\ \A p : MayStart(p) => \A op \in {"polled", "bcast", "bcastcall", "bcasted"} : \A c :
                                    <<op, c>> \in Marks(stack) => p \notin ReachFrom(c)
<1>1. DOMAIN stack = 1 .. Len(stack)
  BY DEF TypeOK
<1>2. ASSUME NEW op, NEW c, <<op, c>> \in Marks(stack)
      PROVE  \E i \in DOMAIN stack : stack[i].op = op /\ stack[i].p = c
  BY <1>1, <1>2 DEF Marks, Mark
<1>3. ASSUME NEW ops, On(ops) = {}, NEW op \in ops, NEW c
      PROVE  <<op, c>> \notin Marks(stack)
  BY <1>2, <1>3 DEF On
<1>4. MayCall => On({"exiting"}) = {}
  BY DEF MayCall
<1>5. MayLeave => On({"exited", "exitednext"}) = {}
  BY DEF MayLeave
<1>6. ASSUME NEW p, MayStart(p), NEW op \in {"polled", "bcast", "bcastcall", "bcasted"}, NEW c,
             <<op, c>> \in Marks(stack)
      PROVE  p \notin ReachFrom(c)
  <2>1. PICK i \in DOMAIN stack : stack[i].op = op /\ stack[i].p = c
    BY <1>2, <1>6
  <2>2. i \in On({"polled", "bcast", "bcastcall", "bcasted"})
    BY <1>6, <2>1 DEF On
  <2> QED
    BY <1>6, <2>1, <2>2 DEF MayStart
<1>7. \A p : MayExit(p) => MayLeave /\ state[p] # "called"
  BY DEF MayExit
<1> QED
  BY <1>3, <1>4, <1>5, <1>6, <1>7

(* A poll, by a thread or by an interrupt.                                 *)
LEMMA PollIsGood ==
  ASSUME TypeOK, Chain, NEW k, Good(k), stack' = k, NEW p \in Proc, PollEffect(p),
         UNCHANGED <<list, state, due, got>>
  PROVE  PInv'
<1>1. /\ process_list' = process_list /\ next' = next /\ state' = state
      /\ due' = due /\ got' = got
  BY DEF list
<1>2. CASE ~process_is_running(p)
  BY <1>2, StackMoves DEF PollEffect
<1>3. CASE process_is_running(p)
  <2>1. /\ needspoll' = [needspoll EXCEPT ![p] = TRUE]
        /\ poll_requested' = TRUE
        /\ want' = want \cup {p}
    BY <1>3 DEF PollEffect
  <2>2. p \in Listed
    BY <1>3 DEF Chain, ListedIsRunning
  <2>3. Chain'
    <3>1. want' \subseteq Listed
      BY <2>1, <2>2 DEF Chain
    <3> QED
      BY <1>1, <3>1 DEF Chain, ListedIsRunning, process_is_running, Listed, ReachFrom
  <2>4. \A q \in want' : needspoll'[q]
    <3>1. \A q \in want : needspoll[q] /\ q \in Proc
      BY DEF Good, Kept, TypeOK
    <3> QED
      BY <2>1, <3>1 DEF TypeOK
  <2>5. Kept(Marks(stack))'
    BY <2>1, <2>4 DEF Kept
  <2>6. Shape(stack)' /\ Active(Marks(stack))' /\ Cursors(Marks(stack))' /\ Exact(Marks(stack))'
    BY <1>1 DEF Good, Shape, Active, Cursors, Exact, Comes, Listed, ReachFrom
  <2> QED
    BY <2>3, <2>5, <2>6 DEF PInv, Good
<1> QED
  BY <1>2, <1>3

LEMMA WaitsIsGood ==
  ASSUME TypeOK, PInv, ThreadWaits
  PROVE  PInv'
<1> DEFINE x == top.p
           U == Marks(rest)
<1>1. /\ stack # << >> /\ top.op \in {"thread", "exiting"} /\ top \in FrameType
      /\ rest \in Seq(FrameType) /\ stack' = rest
      /\ Marks(stack) = {<<top.op, x>>} \cup U
      /\ Nested(Listed, rest) /\ OwnOnce(rest)
      /\ UNCHANGED <<list, needspoll, poll_requested, want, due, got>>
      /\ state' = IF top.op = "thread" THEN [state EXCEPT ![x] = "running"] ELSE state
  BY StackIs DEF ThreadWaits, InThread, PInv, Good, ghosts
<1>2. x \in Proc
  BY <1>1, FrameFields DEF CallOp
<1>3. CASE top.op = "exiting"
  <2>1. state' = state
    BY <1>1, <1>3
  <2>2. Good(rest)
    BY <1>1, <1>3, GoodPop DEF Own
  <2> QED
    BY <1>1, <2>1, <2>2, StackMoves DEF PInv
<1>4. CASE top.op = "thread"
  <2>1. <<"thread", x>> \notin U
    BY <1>1, <1>4, StackIs DEF PInv, Good, Own
  <2>2. \A q : <<"unlink", q>> \notin U /\ <<"exiting", q>> \notin U
    BY <1>1, <1>4, Beneath DEF PInv, Good, TopOp
  <2>3. state[x] = "called" /\ state'[x] = "running" /\ \A q \in Proc : q # x => state'[q] = state[q]
    BY <1>1, <1>2, <1>4 DEF PInv, Good, Active, TypeOK
  <2>4. \A op, q : op # "thread" => (<<op, q>> \in U <=> <<op, q>> \in Marks(stack))
    BY <1>1, <1>4
  <2> HIDE DEF U
  <2>5. Marks(stack)' = U
    BY <1>1 DEF U
  <2>6. Chain'
    <3>1. ListedIsRunning'
      BY <1>1, <2>3 DEF PInv, Chain, ListedIsRunning, process_is_running, Listed, ReachFrom, list
    <3> QED
      BY <1>1, <3>1 DEF PInv, Chain, Listed, ReachFrom, list
  <2>7. Shape(stack)'
    BY <1>1, <2>2 DEF Shape, Listed, ReachFrom, list, U
  <2>8. Active(Marks(stack))'
    <3>1. ASSUME NEW q \in Proc
          PROVE  /\ <<"thread", q>> \in U => state'[q] = "called"
                 /\ state'[q] = "called" => <<"thread", q>> \in U
      <4>1. CASE q = x
        BY <2>1, <2>3, <4>1
      <4>2. CASE q # x
        <5>1. /\ <<"thread", q>> \in U <=> <<"thread", q>> \in Marks(stack)
              /\ <<"unlink", q>> \notin Marks(stack)
          BY <1>1, <1>4, <2>2, <2>4, <4>2
        <5> QED
          BY <2>3, <4>2, <5>1 DEF PInv, Good, Active
      <4> QED
        BY <4>1, <4>2
    <3> QED
      BY <2>2, <2>5, <3>1 DEF Active
  <2>9. Cursors(Marks(stack))'
    BY <1>1, <2>4, <2>5 DEF PInv, Good, Cursors, Listed, ReachFrom, list
  <2>10. Kept(Marks(stack))'
    <3>1. \A q : Ahead(Marks(stack), q) => Ahead(U, q)
      BY <2>4 DEF Ahead
    <3>2. \A q \in want : needspoll[q] /\ (poll_requested \/ Ahead(U, q))
      BY <3>1 DEF PInv, Good, Kept
    <3>3. \A q : Ahead(U, q) => Ahead(Marks(stack), q)'
      BY <1>1, <2>5 DEF Ahead, ReachFrom, list
    <3>4. \A q \in want' : needspoll'[q] /\ (poll_requested' \/ Ahead(Marks(stack), q)')
      BY <1>1, <3>2, <3>3
    <3> QED
      BY <3>4 DEF Kept
  <2>11. Exact(Marks(stack))'
    BY <1>1, <2>4, <2>5 DEF PInv, Good, Exact, Comes, ReachFrom, list
  <2> QED
    BY <2>6, <2>7, <2>8, <2>9, <2>10, <2>11 DEF PInv, Good
<1> QED
  BY <1>1, <1>3, <1>4

(* A thread that ended leaves its exit to exit_process.                    *)
LEMMA EndsIsGood ==
  ASSUME TypeOK, PInv, Liberties = {}, ThreadEnds
  PROVE  PInv'
<1> DEFINE x == top.p
           U == Marks(rest)
           f == Frame("unlink", x, "exit", process_current)
           s == Push(f, rest)
<1>1. /\ stack # << >> /\ top.op = "thread" /\ top \in FrameType /\ rest \in Seq(FrameType)
      /\ Marks(stack) = {<<"thread", x>>} \cup U
      /\ Nested(Listed, rest) /\ OwnOnce(rest) /\ (rest # << >> => Above(Listed, top, Head(rest)))
      /\ <<"thread", x>> \notin U /\ <<"unlink", x>> \notin U
      /\ UNCHANGED <<list, state, needspoll, poll_requested, want, due, got>>
  BY StackIs DEF ThreadEnds, At, PInv, Good, ghosts, Own
<1>2. x \in Proc
  BY <1>1, FrameFields DEF CallOp
<1>3. x \in Listed
  BY <1>1, <1>2 DEF PInv, Good, Active, Chain, ListedIsRunning, process_is_running
<1>4. stack' = s
  BY <1>3 DEF ThreadEnds, Unlink
<1>5. f \in FrameType
  BY <1>2, FramesAreTyped DEF CallOp, Event, TypeOK
<1>6. f.op = "unlink" /\ f.p = x
  BY DEF Frame
<1> HIDE DEF f
<1>7. \A q : <<"exited", q>> \notin Marks(stack) /\ <<"exitednext", q>> \notin Marks(stack)
  BY DisciplineIs DEF ThreadEnds
<1>8. rest # << >> => Head(rest).op # "exitednext"
  <2> SUFFICES ASSUME rest # << >> PROVE Head(rest).op # "exitednext"
    OBVIOUS
  <2>1. Head(rest) = rest[1] /\ 1 \in 1 .. Len(rest)
    BY <1>1
  <2>2. <<Head(rest).op, Head(rest).p>> \in U
    BY <2>1 DEF Marks, Mark
  <2> QED
    BY <1>1, <1>7, <2>2
<1>9. rest # << >> => Above(Listed, f, Head(rest))
  BY <1>1, <1>6, <1>8 DEF Above, TopOp, BottomOp, Own
<1>10. Nested(Listed, s) /\ OwnOnce(s)
  BY <1>1, <1>5, <1>6, <1>9, NestedPush, OwnOncePush
<1>11. Marks(s) = {<<"unlink", x>>} \cup U
  BY <1>1, <1>5, <1>6, MarksPush DEF Mark
<1> HIDE DEF s
<1>12. \A op, q : op \notin Own => (<<op, q>> \in Marks(s) <=> <<op, q>> \in Marks(stack))
  BY <1>1, <1>11 DEF Own
<1>13. Shape(s)
  BY <1>7, <1>10, <1>12 DEF Shape, Own
<1>14. Active(Marks(s))
  <2>1. ASSUME NEW q \in Proc
        PROVE  /\ <<"thread", q>> \in Marks(s) => state[q] = "called"
               /\ <<"exiting", q>> \in Marks(s) => state[q] = "running"
               /\ <<"unlink", q>> \in Marks(s) => q \in Listed
               /\ state[q] = "called" => <<"thread", q>> \in Marks(s) \/ <<"unlink", q>> \in Marks(s)
    <3>1. CASE q = x
      <4>1. /\ <<"thread", q>> \notin Marks(s) /\ <<"unlink", q>> \in Marks(s)
            /\ <<"exiting", q>> \in Marks(s) <=> <<"exiting", q>> \in Marks(stack)
        BY <1>1, <1>11, <3>1
      <4> QED
        BY <1>3, <3>1, <4>1 DEF PInv, Good, Active
    <3>2. CASE q # x
      <4>1. \A op : <<op, q>> \in Marks(s) <=> <<op, q>> \in Marks(stack)
        BY <1>1, <1>11, <3>2
      <4> QED
        BY <4>1 DEF PInv, Good, Active
    <3> QED
      BY <3>1, <3>2
  <2> QED
    BY <2>1 DEF Active
<1>15. Cursors(Marks(s))
  BY <1>12 DEF PInv, Good, Cursors, Own
<1>16. Kept(Marks(s))
  <2>1. \A q : Ahead(Marks(stack), q) => Ahead(Marks(s), q)
    BY <1>12 DEF Ahead, Own
  <2> QED
    BY <2>1 DEF PInv, Good, Kept
<1>17. Exact(Marks(s))
  BY <1>12 DEF PInv, Good, Exact, Own
<1>18. Good(s)
  BY <1>13, <1>14, <1>15, <1>16, <1>17 DEF Good
<1> QED
  BY <1>1, <1>4, <1>18, StackMoves DEF PInv

(* process_exit by a thread: its own process is being called, so it exits  *)
(* another, which is running.                                              *)
LEMMA ExitIsGood ==
  ASSUME TypeOK, PInv, CurrentIsExecuting, Liberties = {}, NEW x \in Proc, process_exit(x)
  PROVE  PInv'
<1>1. /\ HasLeft /\ InThread /\ MayCall /\ MayExit(x) /\ exit_process(x, spent)
      /\ UNCHANGED <<list, state, needspoll, poll_requested, want, due, got>>
  BY DEF process_exit, CanCall, ghosts
<1>2. /\ spent \in Seq(FrameType) /\ spent # << >>
      /\ Head(spent).op = top.op /\ Head(spent).p = top.p
      /\ Marks(spent) = Marks(stack) /\ Good(spent)
  BY <1>1, GoodSpent
<1>3. CASE x \notin Listed
  <2>1. stack' = spent
    BY <1>1, <1>3 DEF exit_process
  <2> QED
    BY <1>1, <1>2, <2>1, StackMoves DEF PInv
<1>4. CASE x \in Listed
  <2>1. /\ stack # << >> /\ top \in FrameType
        /\ \A q : <<"exiting", q>> \notin Marks(stack)
        /\ \A q : <<"exited", q>> \notin Marks(stack) /\ <<"exitednext", q>> \notin Marks(stack)
        /\ state[x] # "called" /\ Marks(stack) = {<<top.op, top.p>>} \cup Marks(rest)
    BY <1>1, StackIs, DisciplineIs DEF HasLeft
  <2>2. top.op = "thread"
    BY <1>1, <2>1 DEF InThread
  <2>3. top.p \in Proc /\ state[top.p] = "called"
    <3>1. top.p \in Proc
      BY <2>1, <2>2, FrameFields DEF CallOp
    <3> QED
      BY <2>1, <2>2, <3>1 DEF PInv, Good, Active
  <2>4. x # process_current
    BY <1>1, <2>1, <2>3 DEF CurrentIsExecuting
  <2>5. state[x] = "running"
    BY <1>4, <2>1 DEF PInv, Chain, ListedIsRunning, process_is_running, TypeOK
  <2>6. \A q : <<"unlink", q>> \notin Marks(stack)
    BY <2>1, <2>2, Beneath DEF PInv, Good
  <2>7. <<"thread", x>> \notin Marks(stack)
    BY <2>1 DEF PInv, Good, Active
  <2> DEFINE f == Frame("unlink", x, "exit", process_current)
             k == Push(f, spent)
             t == Thread("exiting", x, "exit")
             s == Push(t, k)
  <2>8. stack' = s
    BY <1>1, <1>4, <2>4, <2>5 DEF exit_process, Unlink, process_is_running
  <2>9. f \in FrameType /\ t \in FrameType
    BY FramesAreTyped DEF CallOp, Event, TypeOK
  <2>10. f.op = "unlink" /\ f.p = x /\ t.op = "exiting" /\ t.p = x
    BY DEF Frame, Thread
  <2> HIDE DEF f, t
  <2>11. Above(Listed, f, Head(spent)) /\ Above(Listed, t, f)
    BY <1>2, <2>2, <2>10 DEF Above, TopOp, BottomOp
  <2>12. Nested(Listed, k) /\ OwnOnce(k)
    BY <1>2, <2>6, <2>7, <2>9, <2>10, <2>11, NestedPush, OwnOncePush DEF Good, Shape
  <2>13. k \in Seq(FrameType) /\ Head(k) = f /\ Marks(k) = {<<"unlink", x>>} \cup Marks(stack)
    BY <1>2, <2>9, <2>10, PushIs, MarksPush DEF Mark
  <2> HIDE DEF k
  <2>14. Nested(Listed, s) /\ OwnOnce(s)
    BY <2>9, <2>10, <2>11, <2>12, <2>13, NestedPush, OwnOncePush DEF Own
  <2>15. Marks(s) = {<<"exiting", x>>, <<"unlink", x>>} \cup Marks(stack)
    BY <2>9, <2>10, <2>13, MarksPush DEF Mark
  <2> HIDE DEF s
  <2>16. \A op, q : op \notin {"exiting", "unlink"} => (<<op, q>> \in Marks(s) <=> <<op, q>> \in Marks(stack))
    BY <2>15
  <2>17. \A q : /\ <<"exiting", q>> \in Marks(s) <=> q = x
                /\ <<"unlink", q>> \in Marks(s) <=> q = x
    BY <2>1, <2>6, <2>15
  <2>18. Shape(s)
    BY <2>1, <2>14, <2>16 DEF Shape
  <2>19. Active(Marks(s))
    <3>1. ASSUME NEW q \in Proc
          PROVE  /\ <<"thread", q>> \in Marks(s) => state[q] = "called"
                 /\ <<"exiting", q>> \in Marks(s) => state[q] = "running"
                 /\ <<"unlink", q>> \in Marks(s) => q \in Listed
                 /\ state[q] = "called" => <<"thread", q>> \in Marks(s)
      <4>1. <<"thread", q>> \in Marks(s) <=> <<"thread", q>> \in Marks(stack)
        BY <2>16
      <4>2. <<"thread", q>> \in Marks(stack) <=> state[q] = "called"
        BY <2>6 DEF PInv, Good, Active
      <4> QED
        BY <1>4, <2>5, <2>17, <4>1, <4>2
    <3> QED
      BY <3>1 DEF Active
  <2>20. Cursors(Marks(s))
    BY <2>16 DEF PInv, Good, Cursors
  <2>21. Kept(Marks(s))
    <3>1. \A q : Ahead(Marks(stack), q) => Ahead(Marks(s), q)
      BY <2>16 DEF Ahead
    <3> QED
      BY <3>1 DEF PInv, Good, Kept
  <2>22. Exact(Marks(s))
    BY <2>16 DEF PInv, Good, Exact
  <2>23. Good(s)
    BY <2>18, <2>19, <2>20, <2>21, <2>22 DEF Good
  <2> QED
    BY <1>1, <2>8, <2>23, StackMoves DEF PInv
<1> QED
  BY <1>3, <1>4

LEMMA SynchIsGood ==
  ASSUME TypeOK, PInv, Liberties = {}, NEW x \in Proc, process_post_synch(x)
  PROVE  PInv'
<1> DEFINE f == Frame("restore", x, "msg", process_current)
           k == Push(f, spent)
<1>1. /\ HasLeft /\ InThread /\ MayCall /\ call_process(x, "msg", k)
      /\ UNCHANGED <<list, needspoll, poll_requested, want, due, got>>
  BY DEF process_post_synch, CanCall, ghosts
<1>2. f \in FrameType /\ "msg" \in Event
  BY FramesAreTyped DEF CallOp, Event, TypeOK
<1>3. f.op = "restore"
  BY DEF Frame
<1> HIDE DEF f
<1>4. /\ spent \in Seq(FrameType) /\ spent # << >> /\ Head(spent).op = top.op
      /\ Marks(spent) = Marks(stack) /\ Good(spent)
  BY <1>1, GoodSpent
<1>5. /\ stack # << >> /\ Marks(stack) = {<<top.op, top.p>>} \cup Marks(rest)
      /\ \A q : <<"exiting", q>> \notin Marks(stack)
  BY <1>1, StackIs, DisciplineIs DEF HasLeft
<1>6. top.op = "thread"
  BY <1>1, <1>5 DEF InThread
<1>7. \A q : <<"unlink", q>> \notin Marks(stack)
  BY <1>5, <1>6, Beneath DEF PInv, Good
<1>8. Above(Listed, f, Head(spent))
  BY <1>3, <1>4, <1>6 DEF Above, TopOp, BottomOp
<1>9. Good(k)
  BY <1>2, <1>3, <1>4, <1>8, GoodPush
<1>10. /\ k \in Seq(FrameType) /\ Head(k) = f
       /\ Marks(k) = {<<"restore", f.p>>} \cup Marks(stack)
  BY <1>2, <1>3, <1>4, PushIs, MarksPush DEF Mark
<1> HIDE DEF k
<1>11. CalledFrom(k)
  BY <1>3, <1>5, <1>7, <1>10 DEF CalledFrom
<1> QED
  BY <1>1, <1>2, <1>9, <1>10, <1>11, CallIsGood DEF PInv

LEMMA NestedMore ==
  ASSUME NEW L, NEW L2, L \subseteq L2, NEW k, Nested(L, k)
  PROVE  Nested(L2, k)
BY DEF Nested, Above

(* A process is started: no loop of do_poll or of a broadcast comes to it  *)
(* through the pointers it finds in the processes that ended.              *)
LEMMA StartIsGood ==
  ASSUME TypeOK, PInv, Liberties = {}, NEW x \in Proc, process_start(x)
  PROVE  PInv'
<1> DEFINE f == Frame("restore", x, "init", process_current)
           k == Push(f, spent)
           t == Thread("thread", x, "init")
           s == Push(t, k)
           L == {x} \cup Listed
<1>1. /\ HasLeft /\ stack # << >> /\ x \notin Listed
      /\ process_list' = x /\ next' = [next EXCEPT ![x] = process_list]
      /\ state' = [state EXCEPT ![x] = "called"] /\ stack' = s
      /\ UNCHANGED <<needspoll, poll_requested, want, due, got>>
  BY DEF process_start, HasLeft, ghosts
<1>2. /\ spent \in Seq(FrameType) /\ spent # << >> /\ Head(spent).op = top.op
      /\ Marks(spent) = Marks(stack) /\ Good(spent)
      /\ Marks(stack) = {<<top.op, top.p>>} \cup Marks(rest)
  BY <1>1, GoodSpent, StackIs
<1>3. top.op = "boot" \/ (top.op = "thread" /\ MayStart(x))
  <2>1. CASE At("boot")
    BY <2>1 DEF At
  <2>2. CASE InThread /\ MayCall /\ MayStart(x)
    BY <1>2, <2>2, DisciplineIs DEF InThread
  <2> QED
    BY <2>1, <2>2 DEF process_start
<1>4. \A q : /\ <<"exiting", q>> \notin Marks(stack) /\ <<"unlink", q>> \notin Marks(stack)
             /\ <<"poll", q>> \notin Marks(stack) /\ <<"bcast", q>> \notin Marks(stack)
             /\ <<"exited", q>> \notin Marks(stack)
  BY <1>1, <1>2, <1>3, Beneath DEF PInv, Good, TopOp
<1>5. \A op \in {"polled", "bcastcall", "bcasted"} : \A c :
        <<op, c>> \in Marks(stack) => x \notin ReachFrom(c)
  <2>1. CASE top.op = "boot"
    <3>1. Marks(rest) = {}
      BY <1>1, <2>1, Beneath, EmptyIs DEF PInv, Good, BottomOp
    <3> QED
      BY <1>2, <2>1, <3>1
  <2>2. CASE MayStart(x)
    BY <2>2, DisciplineIs
  <2> QED
    BY <1>3, <2>1, <2>2
<1>6. f \in FrameType /\ t \in FrameType
  BY FramesAreTyped DEF CallOp, Event, TypeOK
<1>7. f.op = "restore" /\ t.op = "thread" /\ t.p = x
  BY DEF Frame, Thread
<1> HIDE DEF f, t
<1>8. Above(Listed, f, Head(spent)) /\ Above(Listed, t, f)
  BY <1>2, <1>3, <1>7 DEF Above, TopOp, BottomOp
<1>9. Good(k) /\ k \in Seq(FrameType) /\ Head(k) = f /\ Marks(k) = {<<"restore", f.p>>} \cup Marks(stack)
  <2>1. Good(k)
    BY <1>2, <1>6, <1>7, <1>8, GoodPush
  <2>2. k \in Seq(FrameType) /\ Head(k) = f
    BY <1>2, <1>6, PushIs
  <2>3. Marks(k) = {<<"restore", f.p>>} \cup Marks(stack)
    BY <1>2, <1>6, <1>7, MarksPush DEF Mark
  <2> QED
    BY <2>1, <2>2, <2>3
<1> HIDE DEF k
<1>10. state[x] = "none"
  BY <1>1 DEF PInv, Chain, ListedIsRunning, process_is_running
<1>11. <<"thread", x>> \notin Marks(k) /\ <<"unlink", x>> \notin Marks(k)
  BY <1>4, <1>9, <1>10 DEF Good, Active
<1>12. Nested(Listed, s) /\ OwnOnce(s)
  BY <1>6, <1>7, <1>8, <1>9, <1>11, NestedPush, OwnOncePush DEF Good, Shape
<1>13. Marks(s) = {<<"thread", x>>} \cup Marks(k)
  BY <1>6, <1>7, <1>9, MarksPush DEF Mark
<1> HIDE DEF s
<1>14. Marks(stack)' = Marks(s)
  BY <1>1
<1>15. /\ \A op, q : op # "thread" => (<<op, q>> \in Marks(s) <=> <<op, q>> \in Marks(k))
       /\ \A op, q : op \notin {"thread", "restore"} => (<<op, q>> \in Marks(s) <=> <<op, q>> \in Marks(stack))
  BY <1>9, <1>13
<1>16. /\ Reachable(Proc, NULL, next', x) = L
       /\ Acyclic(Proc, NULL, next', x)
       /\ \A c \in Pointer : x \notin ReachFrom(c) => Reachable(Proc, NULL, next', c) = ReachFrom(c)
  <2>1. next \in [Proc -> Proc \cup {NULL}] /\ NULL \notin Proc /\ process_list \in Proc \cup {NULL}
    BY NullAssumption DEF TypeOK, Pointer
  <2>2. Acyclic(Proc, NULL, next, process_list) /\ x \notin Reachable(Proc, NULL, next, process_list)
    BY <1>1 DEF PInv, Chain, Listed, ReachFrom
  <2>3. /\ next' \in [Proc -> Proc \cup {NULL}] /\ next'[x] = process_list
        /\ \A y \in Proc \ {x} : next'[y] = next[y]
    BY <1>1, <2>1
  <2>4. /\ Reachable(Proc, NULL, next', x) = {x} \cup Reachable(Proc, NULL, next, process_list)
        /\ Acyclic(Proc, NULL, next', x)
        /\ \A c \in Proc \cup {NULL} :
             x \notin Reachable(Proc, NULL, next, c)
               => Reachable(Proc, NULL, next', c) = Reachable(Proc, NULL, next, c)
    BY <2>1, <2>2, <2>3, ListPush
  <2> QED
    BY <2>4 DEF Listed, ReachFrom, Pointer
<1>17. Listed' = L
  BY <1>1, <1>16 DEF Listed, ReachFrom
<1>18. /\ state'[x] = "called" /\ \A q \in Proc : q # x => state'[q] = state[q]
  BY <1>1 DEF TypeOK
<1>19. ASSUME NEW c \in Proc, x \notin ReachFrom(c)
       PROVE  /\ next'[c] = next[c] /\ next[c] \in Pointer
              /\ Reachable(Proc, NULL, next', c) = ReachFrom(c)
              /\ Reachable(Proc, NULL, next', next'[c]) = ReachFrom(next[c])
  <2>1. c \in ReachFrom(c) /\ ReachFrom(next[c]) \subseteq ReachFrom(c) /\ next[c] \in Pointer
    BY ReachOne
  <2>2. next'[c] = next[c]
    BY <1>1, <1>19, <2>1 DEF TypeOK
  <2> QED
    BY <1>16, <1>19, <2>1, <2>2 DEF Pointer
<1>20. Chain'
  <2>1. ListedIsRunning'
    <3>1. Listed = {q \in Proc : state[q] # "none"}
      BY DEF PInv, Chain, ListedIsRunning, process_is_running
    <3>2. L = {q \in Proc : state'[q] # "none"}
      BY <1>18, <3>1
    <3> QED
      BY <1>17, <3>2 DEF ListedIsRunning, process_is_running
  <2>2. want' \subseteq L /\ due' \subseteq L
    BY <1>1 DEF PInv, Chain
  <2> QED
    BY <1>1, <1>16, <1>17, <2>1, <2>2 DEF Chain
<1>21. Shape(stack)'
  <2>1. Nested(L, s)
    BY <1>12, NestedMore
  <2> QED
    BY <1>1, <1>4, <1>12, <1>15, <1>17, <2>1 DEF Shape
<1>22. Active(Marks(stack))'
  <2>1. ASSUME NEW q \in Proc
        PROVE  /\ <<"thread", q>> \in Marks(s) => state'[q] = "called"
               /\ state'[q] = "called" => <<"thread", q>> \in Marks(s)
               /\ <<"exiting", q>> \notin Marks(s) /\ <<"unlink", q>> \notin Marks(s)
    <3>1. <<"exiting", q>> \notin Marks(s) /\ <<"unlink", q>> \notin Marks(s)
      BY <1>4, <1>15
    <3>2. CASE q = x
      BY <1>13, <1>18, <3>1, <3>2
    <3>3. CASE q # x
      <4>1. <<"thread", q>> \in Marks(s) <=> <<"thread", q>> \in Marks(k)
        BY <1>13, <3>3
      <4>2. <<"unlink", q>> \notin Marks(k)
        BY <1>15, <3>1
      <4> QED
        BY <1>9, <1>18, <3>1, <3>3, <4>1, <4>2 DEF Good, Active
    <3> QED
      BY <3>2, <3>3
  <2> QED
    BY <1>14, <2>1 DEF Active
<1>23. Cursors(Marks(stack))'
  <2>1. ASSUME NEW c \in Proc, <<"polled", c>> \in Marks(s)
        PROVE  next'[c] \in L \cup {NULL}
    <3>1. <<"polled", c>> \in Marks(stack)
      BY <1>15, <2>1
    <3>2. next[c] \in Listed \cup {NULL}
      BY <3>1 DEF PInv, Good, Cursors
    <3>3. next'[c] = next[c]
      BY <1>5, <1>19, <3>1
    <3> QED
      BY <3>2, <3>3
  <2>2. \A q : <<"poll", q>> \notin Marks(s)
    BY <1>4, <1>15
  <2> QED
    BY <1>14, <1>17, <2>1, <2>2 DEF Cursors
<1>24. Kept(Marks(stack))'
  <2>1. ASSUME NEW q, Ahead(Marks(stack), q)
        PROVE  Ahead(Marks(stack), q)'
    <3>1. PICK c \in Proc : <<"polled", c>> \in Marks(stack) /\ q \in ReachFrom(next[c])
      BY <1>4, <2>1 DEF Ahead
    <3>2. <<"polled", c>> \in Marks(s)
      BY <1>15, <3>1
    <3>3. q \in Reachable(Proc, NULL, next', next'[c])
      BY <1>5, <1>19, <3>1
    <3> QED
      BY <1>14, <3>2, <3>3 DEF Ahead, ReachFrom
  <2>2. \A q \in want : needspoll[q] /\ (poll_requested \/ Ahead(Marks(stack), q))
    BY DEF PInv, Good, Kept
  <2>3. \A q \in want' : needspoll'[q] /\ (poll_requested' \/ Ahead(Marks(stack), q)')
    BY <1>1, <2>1, <2>2
  <2> QED
    BY <2>3 DEF Kept
<1>25. Exact(Marks(stack))'
  <2>1. ASSUME NEW c \in Pointer, <<"bcastcall", c>> \in Marks(s)
        PROVE  Comes(c)'
    <3>1. <<"bcastcall", c>> \in Marks(stack)
      BY <1>15, <2>1
    <3>2. Comes(c) /\ x \notin ReachFrom(c)
      BY <1>5, <3>1 DEF PInv, Good, Exact
    <3> QED
      BY <1>1, <1>16, <3>2 DEF Comes, ReachFrom
  <2>2. ASSUME NEW c \in Proc, <<"bcasted", c>> \in Marks(s)
        PROVE  Comes(next[c])'
    <3>1. <<"bcasted", c>> \in Marks(stack)
      BY <1>15, <2>2
    <3>2. Comes(next[c]) /\ x \notin ReachFrom(c)
      BY <1>5, <3>1 DEF PInv, Good, Exact
    <3> QED
      BY <1>1, <1>19, <3>2 DEF Comes, ReachFrom
  <2>3. \A q : <<"bcast", q>> \notin Marks(s)
    BY <1>4, <1>15
  <2> QED
    BY <1>14, <2>1, <2>2, <2>3 DEF Exact
<1> QED
  BY <1>20, <1>21, <1>22, <1>23, <1>24, <1>25 DEF PInv, Good

LEMMA InitIsGood ==
  ASSUME Init
  PROVE  PInv
<1>1. Listed = {}
  BY ReachNull DEF Init, Listed, ReachFrom
<1>2. Chain
  BY <1>1 DEF Init, Chain, Acyclic, Listed, ReachFrom, ListedIsRunning, process_is_running
<1>3. Len(stack) = 1 /\ stack[1].op = "boot"
  BY DEF Init, Thread
<1>4. Shape(stack)
  <2>1. \A p : <<"unlink", p>> \notin Marks(stack)
    BY <1>3 DEF Marks, Mark
  <2>2. OwnOnce(stack) /\ Nested(Listed, stack)
    BY <1>3 DEF OwnOnce, Nested
  <2> QED
    BY <2>1, <2>2 DEF Shape
<1>5. \A op, p : <<op, p>> \in Marks(stack) => op = "boot"
  BY <1>3 DEF Marks, Mark
<1>6. Active(Marks(stack)) /\ Cursors(Marks(stack)) /\ Exact(Marks(stack))
  BY <1>5 DEF Init, Active, Cursors, Exact
<1>7. Kept(Marks(stack))
  BY DEF Init, Kept
<1> QED
  BY <1>2, <1>4, <1>6, <1>7 DEF PInv, Good

LEMMA NextIsGood ==
  ASSUME TypeOK, CurrentIsExecuting, PInv, Liberties = {}, [Next]_vars
  PROVE  PInv'
<1>1. ASSUME Kernel PROVE PInv'
  BY <1>1, BootDoneIsGood, RunIsGood, DoEventIsGood, BroadcastIsGood, BroadcastCallIsGood,
     BroadcastNextIsGood, DoPollIsGood, DoPollNextIsGood, RemoveIsGood, TellExitedIsGood,
     TellExitedNextIsGood, RestoreIsGood DEF Kernel
<1>2. ASSUME NEW p \in Pointer, process_post(p) PROVE PInv'
  <2>1. /\ HasLeft /\ stack' = spent
        /\ UNCHANGED <<list, state, needspoll, poll_requested, want, due, got>>
    BY <1>2 DEF process_post, CanCall, ghosts
  <2> QED
    BY <2>1, GoodSpent, StackMoves DEF PInv
<1>3. ASSUME NEW p \in Proc, process_poll(p) PROVE PInv'
  <2>1. /\ HasLeft /\ stack' = spent /\ PollEffect(p)
        /\ UNCHANGED <<list, state, due, got>>
    BY <1>3 DEF process_poll, CanCall
  <2> QED
    BY <2>1, GoodSpent, PollIsGood DEF PInv
<1>4. ASSUME NEW p \in Proc, InterruptPoll(p) PROVE PInv'
  <2>1. stack' = stack /\ PollEffect(p) /\ UNCHANGED <<list, state, due, got>>
    BY <1>4 DEF InterruptPoll
  <2> QED
    BY <2>1, PollIsGood DEF PInv
<1>5. CASE UNCHANGED vars
  <2>1. stack' = stack /\ UNCHANGED <<list, state, needspoll, poll_requested, want, due, got>>
    BY <1>5 DEF vars, list
  <2> QED
    BY <2>1, StackMoves DEF PInv
<1> QED
  BY <1>1, <1>2, <1>3, <1>4, <1>5, WaitsIsGood, EndsIsGood, ExitIsGood, SynchIsGood, StartIsGood
     DEF Next, Step, ThreadCalls, Pointer

(* The properties of the runs follow.                                      *)
LEMMA OneActivationFollows ==
  ASSUME TypeOK, PInv
  PROVE  OneActivation
<1>1. stack \in Seq(FrameType) /\ DOMAIN stack = 1 .. Len(stack) /\ Len(stack) \in Nat
  BY DEF TypeOK
<1>2. ASSUME NEW i \in DOMAIN stack
      PROVE  <<stack[i].op, stack[i].p>> \in Marks(stack) /\ stack[i] \in FrameType
  BY <1>1 DEF Marks, Mark
<1>3. ASSUME NEW i \in DOMAIN stack, stack[i].op = "exiting"
      PROVE  i = 1
  <2> SUFFICES ASSUME i # 1 PROVE FALSE
    OBVIOUS
  <2>1. i - 1 \in 1 .. Len(stack) - 1 /\ (i - 1) + 1 = i
    BY <1>1
  <2>2. Above(Listed, stack[i - 1], stack[i])
    BY <2>1 DEF PInv, Good, Shape, Nested
  <2> QED
    BY <1>3, <2>2 DEF Above, TopOp
<1>4. ASSUME NEW i \in DOMAIN stack, NEW j \in DOMAIN stack,
             stack[i].op = "thread", stack[j].op = "exiting"
      PROVE  stack[i].p # stack[j].p
  <2>1. <<"thread", stack[i].p>> \in Marks(stack) /\ <<"exiting", stack[j].p>> \in Marks(stack)
    BY <1>2, <1>4
  <2>2. stack[i].p \in Proc /\ stack[j].p \in Proc
    BY <1>2, <1>4, FrameFields DEF CallOp
  <2>3. state[stack[i].p] = "called" /\ state[stack[j].p] = "running"
    BY <2>1, <2>2 DEF PInv, Good, Active
  <2> QED
    BY <2>3
<1>5. ASSUME NEW i \in DOMAIN stack, NEW j \in DOMAIN stack,
             stack[i].op = "thread", stack[j].op = "thread", stack[i].p = stack[j].p
      PROVE  i = j
  BY <1>1, <1>5 DEF PInv, Good, Shape, OwnOnce, Own
<1> SUFFICES ASSUME NEW i \in On({"thread", "exiting"}), NEW j \in On({"thread", "exiting"}),
                    stack[i].p = stack[j].p
             PROVE  i = j
  BY DEF OneActivation
<1>6. /\ i \in DOMAIN stack /\ stack[i].op \in {"thread", "exiting"}
      /\ j \in DOMAIN stack /\ stack[j].op \in {"thread", "exiting"}
  BY DEF On
<1> QED
  BY <1>3, <1>4, <1>5, <1>6

LEMMA NoLostPollFollows ==
  ASSUME TypeOK, PInv
  PROVE  NoLostPoll
<1> DEFINE from(i) == ReachFrom(IF stack[i].op = "poll" THEN stack[i].p ELSE next[stack[i].p])
           polling == On({"poll", "polled"})
<1>1. DOMAIN stack = 1 .. Len(stack)
  BY DEF TypeOK
<1>2. ASSUME NEW p, NEW op \in {"poll", "polled"}, NEW c, <<op, c>> \in Marks(stack),
             p \in ReachFrom(IF op = "poll" THEN c ELSE next[c])
      PROVE  p \in PollsAhead
  <2>1. PICK i \in DOMAIN stack : stack[i].op = op /\ stack[i].p = c
    BY <1>1, <1>2 DEF Marks, Mark
  <2>2. i \in polling /\ p \in from(i)
    BY <1>2, <2>1 DEF On
  <2> HIDE DEF from, polling
  <2>3. p \in UNION {from(j) : j \in polling}
    BY <2>2
  <2> QED
    BY <2>3 DEF PollsAhead, from, polling
<1>3. ASSUME NEW p, Ahead(Marks(stack), p) PROVE p \in PollsAhead
  <2>1. CASE \E c \in Pointer : <<"poll", c>> \in Marks(stack) /\ p \in ReachFrom(c)
    BY <1>2, <2>1
  <2>2. CASE \E c \in Proc : <<"polled", c>> \in Marks(stack) /\ p \in ReachFrom(next[c])
    BY <1>2, <2>2
  <2> QED
    BY <1>3, <2>1, <2>2 DEF Ahead
<1>4. \A p \in want : needspoll[p] /\ (poll_requested \/ Ahead(Marks(stack), p))
  BY DEF PInv, Good, Kept
<1> QED
  BY <1>3, <1>4 DEF NoLostPoll

LEMMA BroadcastExactFollows ==
  ASSUME TypeOK, PInv
  PROVE  BroadcastExact
<1>1. stack \in Seq(FrameType) /\ DOMAIN stack = 1 .. Len(stack)
  BY DEF TypeOK
<1> SUFFICES ASSUME NEW i \in On({"bcast", "bcastcall", "bcasted"})
             PROVE  due \subseteq BroadcastAhead(stack[i]) /\ got \cap BroadcastAhead(stack[i]) = {}
  BY DEF BroadcastExact
<1>2. i \in 1 .. Len(stack) /\ stack[i].op \in {"bcast", "bcastcall", "bcasted"}
  BY <1>1 DEF On
<1>3. <<stack[i].op, stack[i].p>> \in Marks(stack)
  BY <1>2 DEF Marks, Mark
<1>4. stack[i].p \in Pointer /\ (stack[i].op = "bcasted" => stack[i].p \in Proc)
  <2>1. stack[i] \in FrameType
    BY <1>1, <1>2
  <2> QED
    BY <1>2, <2>1, FrameFields DEF CallOp
<1>5. CASE stack[i].op = "bcasted"
  BY <1>3, <1>4, <1>5 DEF PInv, Good, Exact, Comes, BroadcastAhead
<1>6. CASE stack[i].op \in {"bcast", "bcastcall"}
  <2>1. Comes(stack[i].p)
    BY <1>3, <1>4, <1>6 DEF PInv, Good, Exact
  <2> QED
    BY <1>6, <2>1 DEF Comes, BroadcastAhead
<1> QED
  BY <1>2, <1>5, <1>6

LEMMA Disciplined ==
  ASSUME Liberties = {}
  PROVE  Spec => [](TypeOK /\ PInv)
<1>1. Init => PInv
  BY InitIsGood
<1>2. TypeOK /\ CurrentIsExecuting /\ PInv /\ [Next]_vars => PInv'
  BY NextIsGood
<1> QED
  BY <1>1, <1>2, TypeCorrect, CurrentHolds, PTL DEF Spec

(* A process is on the list exactly while process_is_running says so,      *)
(* whatever is posted, polled, started and exited by threads that keep the *)
(* discipline.                                                             *)
THEOREM ListHoldsRunning ==
  ASSUME Liberties = {}
  PROVE  Spec => []ListedIsRunning
<1>1. TypeOK /\ PInv => ListedIsRunning
  BY DEF PInv, Chain
<1> QED
  BY <1>1, Disciplined, PTL

(* The kernel never calls a thread that is being called.                   *)
THEOREM OneActivationHolds ==
  ASSUME Liberties = {}
  PROVE  Spec => []OneActivation
<1>1. TypeOK /\ PInv => OneActivation
  BY OneActivationFollows
<1> QED
  BY <1>1, Disciplined, PTL

(* A poll requested by a thread or an interrupt is not forgotten: as long  *)
(* as it is not delivered, do_poll will run again or has yet to come to    *)
(* the process.                                                            *)
THEOREM PollsAreKept ==
  ASSUME Liberties = {}
  PROVE  Spec => []NoLostPoll
<1>1. TypeOK /\ PInv => NoLostPoll
  BY NoLostPollFollows
<1> QED
  BY <1>1, Disciplined, PTL

(* A broadcast reaches every process that stays on the list, and none      *)
(* twice, although processes start and exit while it is under way.         *)
THEOREM BroadcastsAreExact ==
  ASSUME Liberties = {}
  PROVE  Spec => []BroadcastExact
<1>1. TypeOK /\ PInv => BroadcastExact
  BY BroadcastExactFollows
<1> QED
  BY <1>1, Disciplined, PTL
================================================================================
