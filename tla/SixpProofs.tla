------------------------------- MODULE SixpProofs ------------------------------
(***************************************************************************)
(* Theorems about the 6top protocol, for any network, pool of transactions *)
(* and SeqNums.  All but CallbacksAreBound hold whatever the MAC and the   *)
(* timeouts do.  The first three are about each node alone, AnswersMatch   *)
(* about what the two ends of a transaction know of it, NoDanglingCallback *)
(* about the one place of the network where a request is.                  *)
(***************************************************************************)
EXTENDS Sixp, WellFoundedInduction, TLAPS

--------------------------------------------------------------------------------
(* What the handlers of a node keep.                                       *)

Free == {"UNAVAILABLE", "WAIT_FREE"}

\* a transaction of n: only one that is used has a peer, a request and a timer
Good(n) ==
  {tr \in Transaction :
     /\ IF tr.state = "UNAVAILABLE" THEN tr.peer = NULL
        ELSE tr.peer \in Node \ {n} /\ tr.request \in 1 .. MaxRequests
     /\ tr.state \in Free => tr.timer = "off"}

Fifo == {q \in Seq(Frame) : Len(q) <= QueueSize}

Places(n) ==
  [trans : [Slot -> Good(n)], next : [Node \ {n} -> 0 .. SeqnoMax \cup {NULL}],
   queue : [Node \ {n} -> Fifo], made : 0 .. MaxRequests]

One(st) == \A s, t \in Listed(st) : st.trans[s].peer = st.trans[t].peer => s = t

Clearing == {"REQUEST_RECEIVED", "RESPONSE_SENDING", "RESPONSE_SENT"}

Zero(st) ==
  \A s \in Listed(st) :
    st.trans[s].cmd = "CLEAR" /\ st.trans[s].state \in Clearing
      => st.next[st.trans[s].peer] \in {0, NULL}

Kept(n, st) == st \in Places(n) /\ One(st) /\ Zero(st)

LEMMA MinIs ==
  ASSUME NEW S \in SUBSET Nat, S # {}
  PROVE  Min(S) \in S
<1>1. PICK x \in S : \A y \in S : ~(<<y, x>> \in OpToRel(<, Nat))
  BY NatLessThanWellFounded, WFMin
<1>2. ASSUME NEW y \in S
      PROVE  x <= y
  <2>1. <<y, x>> \in Nat \X Nat /\ <<y, x>>[1] = y /\ <<y, x>>[2] = x
    OBVIOUS
  <2>2. ~(y < x)
    BY <1>1, <2>1 DEF OpToRel
  <2> QED
    BY <2>2
<1> QED
  BY <1>2 DEF Min

Moved(tr, new) == [tr EXCEPT !.state = new, !.timer = "process"]

Transited(n, st, r, s, new) ==
  /\ r \in Places(n)
  /\ r.trans = [st.trans EXCEPT ![s] = Moved(st.trans[s], new)]
  /\ \A m \in Node \ {n} :
       r.next[m] = IF m = st.trans[s].peer /\ Counts(st.trans[s], new) /\ st.next[m] # NULL
                   THEN Increment(st.trans[s].seqno) ELSE st.next[m]
  /\ r.queue = st.queue /\ r.made = st.made
  /\ Listed(r) = Listed(st)
  /\ new \in State \ Free

LEMMA TransitIs ==
  ASSUME NEW n \in Node, NEW st \in Places(n), NEW s \in Listed(st), NEW new, Permitted(st.trans[s], new)
  PROVE  Transited(n, st, Transit(st, s, new), s, new)
<1> DEFINE tr == st.trans[s]
           tq == Moved(tr, new)
           counts == Counts(tr, new) /\ st.next[tr.peer] # NULL
           next == [st.next EXCEPT ![tr.peer] = IF counts THEN Increment(tr.seqno) ELSE @]
           r == Transit(st, s, new)
<1>1. /\ s \in Slot /\ tr \in Good(n) /\ tr \in Transaction /\ tr.state \notin Free
      /\ st.trans \in [Slot -> Good(n)] /\ st.next \in [Node \ {n} -> 0 .. SeqnoMax \cup {NULL}]
      /\ st.queue \in [Node \ {n} -> Fifo] /\ st.made \in 0 .. MaxRequests
      /\ st = [trans |-> st.trans, next |-> st.next, queue |-> st.queue, made |-> st.made]
  BY DEF Listed, Places, Good, Free
<1>2. new \in State \ Free
  BY DEF Permitted, State, Sending, Free
<1>3. tr.peer \in Node \ {n} /\ tr.seqno \in 0 .. SeqnoMax /\ Increment(tr.seqno) \in 0 .. SeqnoMax
  BY <1>1, SixpAssumption DEF Good, Free, Transaction, Increment
<1>4. tq \in Good(n) /\ tq.state = new
  BY <1>1, <1>2 DEF Good, Transaction, Free, Moved
<1>5. r = [st EXCEPT !.trans = [@ EXCEPT ![s] = tq], !.next = next]
  BY <1>1 DEF Transit, Places, Moved
<1> DEFINE trans1 == [st.trans EXCEPT ![s] = tq]
<1>6. r = [trans |-> trans1, next |-> next, queue |-> st.queue, made |-> st.made]
  BY <1>1, <1>5
<1>7. trans1 \in [Slot -> Good(n)]
  BY <1>1, <1>4
<1>8. next \in [Node \ {n} -> 0 .. SeqnoMax \cup {NULL}]
  BY <1>1, <1>3
<1>9. r \in Places(n)
  <2> HIDE DEF trans1, next, r
  <2> QED
    BY <1>1, <1>6, <1>7, <1>8 DEF Places
<1>10. Listed(r) = Listed(st)
  <2>1. \A t \in Slot : trans1[t].state \notin Free <=> st.trans[t].state \notin Free
    BY <1>1, <1>2, <1>4
  <2> HIDE DEF trans1, next, r
  <2> QED
    BY <1>6, <2>1 DEF Listed, Free
<1>11. \A m \in Node \ {n} :
         next[m] = IF m = tr.peer /\ Counts(tr, new) /\ st.next[m] # NULL
                   THEN Increment(tr.seqno) ELSE st.next[m]
  BY <1>1, <1>3
<1> QED
  <2> HIDE DEF trans1, next, r
  <2>1. r.trans = trans1 /\ r.next = next /\ r.queue = st.queue /\ r.made = st.made
    BY <1>6
  <2>2. r.trans = [st.trans EXCEPT ![s] = tq]
    BY <2>1 DEF trans1
  <2>3. \A m \in Node \ {n} :
          r.next[m] = IF m = tr.peer /\ Counts(tr, new) /\ st.next[m] # NULL
                      THEN Increment(tr.seqno) ELSE st.next[m]
    BY <2>1, <1>11
  <2> QED
    BY <2>1, <2>2, <2>3, <1>2, <1>9, <1>10 DEF r, Transited

--------------------------------------------------------------------------------
(* One operator after the other keeps what has to be kept.                 *)

LEMMA PlacesAre ==
  ASSUME NEW n \in Node, NEW st \in Places(n)
  PROVE  /\ st.trans \in [Slot -> Good(n)]
         /\ st.next \in [Node \ {n} -> 0 .. SeqnoMax \cup {NULL}]
         /\ st.queue \in [Node \ {n} -> Fifo]
         /\ st.made \in 0 .. MaxRequests
         /\ st = [trans |-> st.trans, next |-> st.next, queue |-> st.queue, made |-> st.made]
BY DEF Places

LEMMA TransitKept ==
  ASSUME NEW n \in Node, NEW st, Kept(n, st), NEW s \in Listed(st), NEW new,
         new = "REQUEST_RECEIVED" /\ st.trans[s].cmd = "CLEAR"
           => st.next[st.trans[s].peer] \in {0, NULL}
  PROVE  LET r == Transit(st, s, new)
         IN  Kept(n, r) /\ r.queue = st.queue /\ r.made = st.made
<1>1. CASE ~Permitted(st.trans[s], new)
  BY <1>1 DEF Transit
<1>2. CASE Permitted(st.trans[s], new)
  <2> DEFINE tr == st.trans[s]
             r == Transit(st, s, new)
  <2>0. st \in Places(n) /\ One(st) /\ Zero(st)
    BY DEF Kept
  <2>1. /\ r \in Places(n)
        /\ r.trans = [st.trans EXCEPT ![s] = Moved(tr, new)]
        /\ \A m \in Node \ {n} :
             r.next[m] = IF m = tr.peer /\ Counts(tr, new) /\ st.next[m] # NULL
                         THEN Increment(tr.seqno) ELSE st.next[m]
        /\ r.queue = st.queue /\ r.made = st.made
        /\ Listed(r) = Listed(st)
    <3>1. Transited(n, st, r, s, new)
      BY <1>2, <2>0, TransitIs
    <3> HIDE DEF r
    <3> QED
      BY <3>1 DEF Transited
  <2>2. s \in Slot /\ st.trans \in [Slot -> Good(n)] /\ tr \in Transaction
    <3>1. s \in Slot /\ st.trans \in [Slot -> Good(n)]
      BY <2>0, PlacesAre DEF Listed
    <3> QED
      BY <3>1 DEF Good
  <2>3. r.trans[s].state = new /\ r.trans[s].peer = tr.peer /\ r.trans[s].cmd = tr.cmd
    BY <2>1, <2>2 DEF Transaction, Moved
  <2>4. \A t \in Slot \ {s} : r.trans[t] = st.trans[t]
    BY <2>1, <2>2
  <2>5. \A t \in Slot : r.trans[t].peer = st.trans[t].peer
    BY <2>3, <2>4
  <2>6. Listed(st) \subseteq Slot /\ \A t \in Listed(st) : st.trans[t].peer \in Node \ {n}
    BY <2>2 DEF Listed, Good
  <2>7. One(r)
    <3> HIDE DEF r, tr
    <3> QED
      BY <2>0, <2>1, <2>5, <2>6 DEF One
  <2>8. ASSUME NEW t \in Listed(r), r.trans[t].cmd = "CLEAR", r.trans[t].state \in Clearing
        PROVE  r.next[r.trans[t].peer] \in {0, NULL}
    <3>1. t \in Listed(st) /\ r.trans[t].peer = st.trans[t].peer /\ st.trans[t].peer \in Node \ {n}
      BY <2>1, <2>5, <2>6
    <3>2. CASE t # s
      <4>1. st.trans[t].peer # tr.peer
        BY <2>0, <3>1, <3>2 DEF One
      <4>2. st.next[st.trans[t].peer] \in {0, NULL}
        BY <2>0, <2>4, <2>6, <2>8, <3>1, <3>2 DEF Zero
      <4> HIDE DEF r, tr
      <4> QED
        BY <2>1, <3>1, <4>1, <4>2
    <3>3. CASE t = s
      <4>1. tr.cmd = "CLEAR" /\ new \in Clearing
        BY <2>3, <2>8, <3>3
      <4>2. ~Counts(tr, new)
        BY <4>1 DEF Counts
      <4>3. st.next[tr.peer] \in {0, NULL}
        <5>1. CASE new = "REQUEST_RECEIVED"
          BY <4>1, <5>1
        <5>2. CASE new # "REQUEST_RECEIVED"
          <6>1. tr.state \in Clearing
            BY <1>2, <4>1, <5>2 DEF Permitted, Clearing
          <6> QED
            BY <2>0, <4>1, <6>1 DEF Zero
        <5> QED
          BY <5>1, <5>2
      <4> HIDE DEF r, tr
      <4> QED
        BY <2>1, <2>3, <3>1, <3>3, <4>2, <4>3 DEF tr
    <3> QED
      BY <3>2, <3>3
  <2>9. Zero(r)
    BY <2>8 DEF Zero
  <2> QED
    BY <2>1, <2>7, <2>9 DEF Kept
<1> QED
  BY <1>1, <1>2

\* a block given back, or kept for the MAC
LEMMA FreedKept ==
  ASSUME NEW n \in Node, NEW st, Kept(n, st), NEW s \in Slot, st.trans[s].state # "UNAVAILABLE"
  PROVE  Kept(n, Freed(st, s)) /\ Freed(st, s).queue = st.queue /\ Freed(st, s).made = st.made
<1> DEFINE tr == st.trans[s]
           tq == IF tr.state \in Sending THEN [tr EXCEPT !.state = "WAIT_FREE", !.timer = "off"]
                 ELSE NoTrans
           trans1 == [st.trans EXCEPT ![s] = tq]
           r == Freed(st, s)
<1>1. st \in Places(n) /\ One(st) /\ Zero(st)
  BY DEF Kept
<1>2. /\ st.trans \in [Slot -> Good(n)]
      /\ st = [trans |-> st.trans, next |-> st.next, queue |-> st.queue, made |-> st.made]
      /\ st.next \in [Node \ {n} -> 0 .. SeqnoMax \cup {NULL}]
      /\ st.queue \in [Node \ {n} -> Fifo] /\ st.made \in 0 .. MaxRequests
  BY <1>1, PlacesAre
<1>3. r = [trans |-> trans1, next |-> st.next, queue |-> st.queue, made |-> st.made]
  BY <1>2 DEF Freed
<1>4. tq \in Good(n) /\ tq.state \in Free
  <2>1. tr \in Good(n)
    BY <1>2
  <2>2. CASE tr.state \in Sending
    BY <2>1, <2>2 DEF Good, Transaction, State, Sending, Free
  <2>3. CASE tr.state \notin Sending
    <3>1. NoTrans \in Transaction
      BY SixpAssumption DEF NoTrans, Transaction, State, Sending
    <3> QED
      BY <2>3, <3>1 DEF Good, NoTrans, Free
  <2> QED
    BY <2>2, <2>3
<1> HIDE DEF tq, r
<1>5. trans1 \in [Slot -> Good(n)]
  BY <1>2, <1>4
<1>6. r \in Places(n)
  <2> HIDE DEF trans1
  <2> QED
    BY <1>2, <1>3, <1>5 DEF Places
<1>7. \A t \in Slot \ {s} : trans1[t] = st.trans[t]
  BY <1>2
<1>8. trans1[s] = tq
  BY <1>2
<1> HIDE DEF trans1
<1>9. r.trans = trans1 /\ r.next = st.next /\ r.queue = st.queue /\ r.made = st.made
  BY <1>3
<1>10. \A t \in Listed(r) : t \in Listed(st) /\ t # s
  BY <1>4, <1>7, <1>8, <1>9 DEF Listed, Free
<1>11. \A t \in Listed(r) : r.trans[t] = st.trans[t]
  BY <1>7, <1>9, <1>10 DEF Listed
<1>12. One(r)
  BY <1>1, <1>10, <1>11 DEF One
<1>13. Zero(r)
  BY <1>1, <1>9, <1>10, <1>11 DEF Zero
<1> QED
  BY <1>6, <1>9, <1>12, <1>13 DEF Kept, r

\* a SeqNum that is not that of a peer with a response to a CLEAR on its way
LEMMA NextKept ==
  ASSUME NEW n \in Node, NEW st, Kept(n, st), NEW m \in Node \ {n}, NEW k \in 0 .. SeqnoMax \cup {NULL},
         \/ k \in {0, NULL}
         \/ k = st.next[m]
         \/ \A s \in Find(st, m) : st.trans[s].state \notin Clearing
  PROVE  Kept(n, [st EXCEPT !.next[m] = k])
<1> DEFINE next == [st.next EXCEPT ![m] = k]
           r == [st EXCEPT !.next[m] = k]
<1>1. st \in Places(n) /\ One(st) /\ Zero(st)
  BY DEF Kept
<1>2. /\ st.trans \in [Slot -> Good(n)]
      /\ st = [trans |-> st.trans, next |-> st.next, queue |-> st.queue, made |-> st.made]
      /\ st.next \in [Node \ {n} -> 0 .. SeqnoMax \cup {NULL}]
      /\ st.queue \in [Node \ {n} -> Fifo] /\ st.made \in 0 .. MaxRequests
  BY <1>1, PlacesAre
<1>3. r = [trans |-> st.trans, next |-> next, queue |-> st.queue, made |-> st.made]
  BY <1>2
<1>4. next \in [Node \ {n} -> 0 .. SeqnoMax \cup {NULL}]
  BY <1>2
<1>5. next[m] = k /\ \A p \in Node \ {n, m} : next[p] = st.next[p]
  BY <1>2
<1> HIDE DEF next, r
<1>6. r \in Places(n)
  BY <1>2, <1>3, <1>4 DEF Places
<1>7. r.trans = st.trans /\ r.next = next /\ Listed(r) = Listed(st)
  BY <1>3 DEF Listed
<1>8. One(r)
  BY <1>1, <1>7 DEF One
<1>9. ASSUME NEW s \in Listed(st), st.trans[s].cmd = "CLEAR", st.trans[s].state \in Clearing
      PROVE  next[st.trans[s].peer] \in {0, NULL}
  <2>1. st.next[st.trans[s].peer] \in {0, NULL}
    BY <1>1, <1>9 DEF Zero
  <2>2. st.trans[s].peer \in Node \ {n}
    BY <1>2 DEF Listed, Good
  <2>3. CASE st.trans[s].peer # m
    BY <1>5, <2>1, <2>2, <2>3
  <2>4. CASE st.trans[s].peer = m
    <3>1. s \in Find(st, m)
      BY <2>4 DEF Find
    <3> QED
      BY <1>5, <1>9, <2>1, <2>4, <3>1
  <2> QED
    BY <2>3, <2>4
<1>10. Zero(r)
  BY <1>7, <1>9 DEF Zero
<1> QED
  BY <1>6, <1>8, <1>10 DEF Kept, r

LEMMA OutputKept ==
  ASSUME NEW n \in Node, NEW st, Kept(n, st), NEW m \in Node \ {n}, NEW frame \in Frame, NEW outcome,
         outcome = "queued" => Len(st.queue[m]) < QueueSize
  PROVE  LET r == sixtop_output(st, m, frame, outcome)
         IN  Kept(n, r) /\ r.trans = st.trans /\ r.next = st.next /\ r.made = st.made
<1> DEFINE queue1 == [st.queue EXCEPT ![m] = Append(@, frame)]
           r == [st EXCEPT !.queue[m] = Append(@, frame)]
<1>1. CASE outcome # "queued"
  BY <1>1 DEF sixtop_output
<1>2. CASE outcome = "queued"
  <2>1. st \in Places(n) /\ One(st) /\ Zero(st)
    BY DEF Kept
  <2>2. /\ st.trans \in [Slot -> Good(n)]
        /\ st = [trans |-> st.trans, next |-> st.next, queue |-> st.queue, made |-> st.made]
        /\ st.next \in [Node \ {n} -> 0 .. SeqnoMax \cup {NULL}]
        /\ st.queue \in [Node \ {n} -> Fifo] /\ st.made \in 0 .. MaxRequests
    BY <2>1, PlacesAre
  <2>3. r = [trans |-> st.trans, next |-> st.next, queue |-> queue1, made |-> st.made]
    <3>1. r = [st EXCEPT !.queue = queue1]
      OBVIOUS
    <3> HIDE DEF r, queue1
    <3> QED
      BY <2>2, <3>1
  <2>4. Append(st.queue[m], frame) \in Fifo
    <3>1. st.queue[m] \in Seq(Frame) /\ Len(st.queue[m]) < QueueSize
      BY <1>2, <2>2 DEF Fifo
    <3> QED
      BY <3>1, SixpAssumption DEF Fifo
  <2>5. queue1 \in [Node \ {n} -> Fifo]
    BY <2>2, <2>4
  <2> HIDE DEF queue1, r
  <2>6. r \in Places(n)
    BY <2>2, <2>3, <2>5 DEF Places
  <2>7. r.trans = st.trans /\ r.next = st.next /\ r.made = st.made /\ Listed(r) = Listed(st)
    BY <2>3 DEF Listed
  <2>8. One(r) /\ Zero(r)
    BY <2>1, <2>7 DEF One, Zero
  <2>9. sixtop_output(st, m, frame, outcome) = r
    BY <1>2 DEF sixtop_output, r
  <2> QED
    BY <2>6, <2>7, <2>8, <2>9 DEF Kept
<1> QED
  BY <1>1, <1>2

\* a block taken from the pool for a peer that has none
Allocated(n, st, r, s, m, cmd, seqno, request) ==
  /\ Kept(n, r)
  /\ s \in Listed(r) /\ r.trans[s].peer = m /\ r.trans[s].cmd = cmd
  /\ r.trans[s].state = "INIT" /\ r.trans[s] \in Good(n)
  /\ r.trans[s].seqno = seqno /\ r.trans[s].request = request
  /\ Find(r, m) = {s}
  /\ st.trans[s].state = "UNAVAILABLE" /\ r.trans = [st.trans EXCEPT ![s] = r.trans[s]]
  /\ r.queue = st.queue /\ r.next = st.next /\ r.made = made + 1

LEMMA AllocKept ==
  ASSUME NEW n \in Node, NEW st, Kept(n, st), NEW m \in Node \ {n}, NEW cmd \in Command \cup {NULL},
         NEW seqno \in 0 .. SeqnoMax, NEW request \in 1 .. MaxRequests,
         Find(st, m) = {}, Unused(st) # {}, st.made = made, made < MaxRequests
  PROVE  LET r == Alloc(st, m, cmd, seqno, request)
         IN  Allocated(n, st, r, The(Find(r, m)), m, cmd, seqno, request)
<1> DEFINE s == Min(Unused(st))
           tq == [NoTrans EXCEPT !.state = "INIT", !.peer = m, !.cmd = cmd, !.seqno = seqno,
                                 !.timer = "timeout", !.id = made + 1, !.request = request]
           trans1 == [st.trans EXCEPT ![s] = tq]
           r == Alloc(st, m, cmd, seqno, request)
<1>1. st \in Places(n) /\ One(st) /\ Zero(st)
  BY DEF Kept
<1>2. /\ st.trans \in [Slot -> Good(n)]
      /\ st = [trans |-> st.trans, next |-> st.next, queue |-> st.queue, made |-> st.made]
      /\ st.next \in [Node \ {n} -> 0 .. SeqnoMax \cup {NULL}]
      /\ st.queue \in [Node \ {n} -> Fifo] /\ st.made \in 0 .. MaxRequests
  BY <1>1, PlacesAre
<1>3. s \in Slot /\ st.trans[s].state = "UNAVAILABLE"
  <2>1. Unused(st) \in SUBSET Nat
    BY DEF Unused, Slot
  <2>2. s \in Unused(st)
    BY <2>1, MinIs
  <2> HIDE DEF s
  <2> QED
    BY <2>2 DEF Unused
<1>4. r = [trans |-> trans1, next |-> st.next, queue |-> st.queue, made |-> made + 1]
  <2>1. r = [st EXCEPT !.made = st.made + 1, !.trans = trans1]
    BY DEF Alloc
  <2> HIDE DEF r, trans1
  <2> QED
    BY <1>2, <2>1
<1>5. made + 1 \in 0 .. MaxRequests /\ made + 1 \in Nat
  BY <1>2, SixpAssumption
<1>6. /\ tq \in Transaction /\ tq.state = "INIT" /\ tq.peer = m /\ tq.cmd = cmd
      /\ tq.request = request /\ tq.seqno = seqno
  <2> DEFINE t1 == [NoTrans EXCEPT !.state = "INIT", !.peer = m, !.cmd = cmd]
             t2 == [t1 EXCEPT !.seqno = seqno, !.timer = "timeout"]
             t3 == [t2 EXCEPT !.id = made + 1, !.request = request]
  <2>1. tq = t3
    OBVIOUS
  <2>2. NoTrans \in Transaction
    BY SixpAssumption DEF NoTrans, Transaction, State, Sending
  <2>3. t1 \in Transaction /\ t1.state = "INIT" /\ t1.peer = m /\ t1.cmd = cmd
    BY <2>2 DEF Transaction, State
  <2> HIDE DEF t1
  <2>4. t2 \in Transaction /\ t2.state = "INIT" /\ t2.peer = m /\ t2.cmd = cmd /\ t2.seqno = seqno
    BY <2>3 DEF Transaction
  <2> HIDE DEF t2
  <2>5. request \in 0 .. MaxRequests
    OBVIOUS
  <2>6. /\ t3 \in Transaction /\ t3.state = "INIT" /\ t3.peer = m /\ t3.cmd = cmd
        /\ t3.request = request /\ t3.seqno = seqno
    BY <1>5, <2>4, <2>5 DEF Transaction
  <2> HIDE DEF t3, tq
  <2> QED
    BY <2>1, <2>6
<1> HIDE DEF tq
<1>7. tq \in Good(n)
  BY <1>6 DEF Good, Free
<1>8. trans1 \in [Slot -> Good(n)] /\ trans1[s] = tq /\ \A t \in Slot \ {s} : trans1[t] = st.trans[t]
  BY <1>2, <1>3, <1>7
<1>9. tq.state = "INIT" /\ tq.peer = m /\ tq.cmd = cmd
  BY <1>6
<1> HIDE DEF trans1, r, s
<1>10. r \in Places(n)
  BY <1>2, <1>4, <1>5, <1>8 DEF Places
<1>11. r.trans = trans1 /\ r.next = st.next /\ r.queue = st.queue /\ r.made = made + 1
  BY <1>4
<1>12. Listed(r) = Listed(st) \cup {s} /\ s \notin Listed(st)
  BY <1>3, <1>8, <1>9, <1>11 DEF Listed
<1>13. \A t \in Listed(st) : r.trans[t] = st.trans[t] /\ st.trans[t].peer # m
  BY <1>3, <1>8, <1>11 DEF Listed, Find
<1>14. One(r)
  BY <1>1, <1>8, <1>9, <1>11, <1>12, <1>13 DEF One
<1>15. Zero(r)
  <2>1. tq.state \notin Clearing
    BY <1>9 DEF Clearing
  <2> QED
    BY <1>1, <1>8, <1>11, <1>12, <1>13, <2>1 DEF Zero
<1>16. Find(r, m) = {s}
  BY <1>8, <1>9, <1>11, <1>12, <1>13 DEF Find
<1>17. The(Find(r, m)) = s
  BY <1>16 DEF The
<1>18. r.trans = [st.trans EXCEPT ![s] = r.trans[s]]
  BY <1>8, <1>11 DEF trans1
<1> QED
  BY <1>3, <1>6, <1>7, <1>8, <1>9, <1>10, <1>11, <1>12, <1>14, <1>15, <1>16, <1>17, <1>18 DEF Kept, r, Allocated

LEMMA FrameOfIs ==
  ASSUME NEW n \in Node, NEW tr \in Good(n), NEW s \in Slot, NEW type \in Type,
         tr.state # "UNAVAILABLE"
  PROVE  FrameOf(type, tr, s) \in Frame
<1>1. tr \in Transaction /\ tr.request \in 1 .. MaxRequests
  BY DEF Good
<1> QED
  BY <1>1 DEF FrameOf, Frame, Transaction

LEMMA WithNbrKept ==
  ASSUME NEW n \in Node, NEW st, Kept(n, st), NEW m \in Node \ {n}, NEW cmd, NEW type
  PROVE  LET r == WithNbr(st, m, cmd, type)
         IN  /\ Kept(n, r) /\ r.trans = st.trans /\ r.queue = st.queue /\ r.made = st.made
             /\ type = "REQUEST" => r.next[m] \in 0 .. SeqnoMax
<1> DEFINE k == IF st.next[m] = NULL /\ (type = "REQUEST" \/ (type = "RESPONSE" /\ cmd # "CLEAR"))
                THEN 0 ELSE st.next[m]
           r == WithNbr(st, m, cmd, type)
<1>1. /\ st.next \in [Node \ {n} -> 0 .. SeqnoMax \cup {NULL}]
      /\ st = [trans |-> st.trans, next |-> st.next, queue |-> st.queue, made |-> st.made]
  BY PlacesAre DEF Kept
<1>2. k \in 0 .. SeqnoMax \cup {NULL} /\ (type = "REQUEST" => k \in 0 .. SeqnoMax)
  BY <1>1, SixpAssumption
<1>3. k \in {0, NULL} \/ k = st.next[m]
  OBVIOUS
<1>4. r = [st EXCEPT !.next[m] = k]
  BY DEF WithNbr
<1> HIDE DEF k, r
<1>5. Kept(n, r)
  BY <1>2, <1>3, <1>4, NextKept
<1>6. r.trans = st.trans /\ r.queue = st.queue /\ r.made = st.made /\ r.next[m] = k
  BY <1>1, <1>4
<1> QED
  BY <1>2, <1>5, <1>6 DEF r

--------------------------------------------------------------------------------
(* What is sent.                                                           *)

Room(st, m, outcome) == outcome = "queued" => Len(st.queue[m]) < QueueSize

LEMMA MadeKept ==
  ASSUME NEW n \in Node, NEW st, Kept(n, st), NEW k \in 0 .. MaxRequests
  PROVE  Kept(n, [st EXCEPT !.made = k])
<1> DEFINE r == [st EXCEPT !.made = k]
<1>1. st \in Places(n) /\ One(st) /\ Zero(st)
  BY DEF Kept
<1>2. r \in Places(n) /\ r.trans = st.trans /\ r.next = st.next
  BY <1>1 DEF Places
<1> HIDE DEF r
<1>3. One(r) /\ Zero(r)
  BY <1>1, <1>2 DEF One, Zero, Listed
<1> QED
  BY <1>2, <1>3 DEF Kept, r

LEMMA FindIs ==
  ASSUME NEW st, NEW m, Find(st, m) # {}
  PROVE  /\ The(Find(st, m)) \in Find(st, m)
         /\ The(Find(st, m)) \in Listed(st) /\ st.trans[The(Find(st, m))].peer = m
<1>1. The(Find(st, m)) \in Find(st, m)
  BY DEF The
<1> QED
  BY <1>1 DEF Find

LEMMA ListedIs ==
  ASSUME NEW n \in Node, NEW st, Kept(n, st), NEW s \in Listed(st)
  PROVE  /\ s \in Slot /\ st.trans[s] \in Good(n) /\ st.trans[s].state \notin Free
         /\ st.trans[s].peer \in Node \ {n} /\ st.trans[s].seqno \in 0 .. SeqnoMax
<1>1. st.trans \in [Slot -> Good(n)]
  BY PlacesAre DEF Kept
<1>2. s \in Slot /\ st.trans[s] \in Good(n) /\ st.trans[s].state \notin Free
  BY <1>1 DEF Listed, Free
<1> QED
  BY <1>2 DEF Good, Transaction, Free

LEMMA RequestKept ==
  ASSUME NEW n \in Node, NEW st, Kept(n, st), NEW m \in Node \ {n}, NEW cmd \in Command, NEW outcome,
         Find(st, m) = {}, st.made = made, made < MaxRequests, Room(st, m, outcome)
  PROVE  Kept(n, Request(st, m, cmd, outcome))
<1> DEFINE st1 == WithNbr(st, m, cmd, "REQUEST")
           st2 == Alloc(st1, m, cmd, st1.next[m], made + 1)
           s == The(Find(st2, m))
           frame == FrameOf("REQUEST", st2.trans[s], s)
           st3 == sixtop_output(st2, m, frame, outcome)
           k == IF cmd = "CLEAR" THEN 0 ELSE Increment(st3.next[m])
           st4 == [st3 EXCEPT !.next[m] = k]
           st5 == Transit(st4, s, "REQUEST_SENDING")
<1>1. made \in Nat /\ made + 1 \in 1 .. MaxRequests /\ made + 1 \in 0 .. MaxRequests
  <2>1. st.made \in 0 .. MaxRequests
    BY PlacesAre DEF Kept
  <2> QED
    BY <2>1, SixpAssumption
<1>2. /\ Kept(n, st1) /\ st1.trans = st.trans /\ st1.queue = st.queue /\ st1.made = st.made
      /\ st1.next[m] \in 0 .. SeqnoMax
  BY WithNbrKept
<1> HIDE DEF st1
<1>3. Find(st1, m) = {} /\ Unused(st1) = Unused(st)
  BY <1>2 DEF Find, Listed, Unused
<1>4. CASE Unused(st) = {}
  BY <1>2, <1>4 DEF Request, st1
<1>5. CASE Unused(st) # {} /\ outcome = "no_room"
  <2>1. Kept(n, [st1 EXCEPT !.made = made + 1])
    BY <1>1, <1>2, MadeKept
  <2>2. [st1 EXCEPT !.made = @ + 1] = [st1 EXCEPT !.made = made + 1]
    BY <1>2
  <2>3. Request(st, m, cmd, outcome) = [st1 EXCEPT !.made = @ + 1]
    BY <1>5 DEF Request, st1
  <2> QED
    BY <2>1, <2>2, <2>3
<1>6. CASE Unused(st) # {} /\ outcome # "no_room"
  <2>1. /\ Kept(n, st2)
        /\ s \in Listed(st2) /\ st2.trans[s].peer = m /\ st2.trans[s].cmd = cmd
        /\ st2.trans[s].state = "INIT" /\ st2.trans[s] \in Good(n)
        /\ Find(st2, m) = {s}
        /\ st2.queue = st1.queue /\ st2.next = st1.next
    <3>1. Allocated(n, st1, st2, s, m, cmd, st1.next[m], made + 1)
      BY <1>1, <1>2, <1>3, <1>6, AllocKept
    <3> HIDE DEF st2, s
    <3> QED
      BY <3>1 DEF Allocated
  <2> HIDE DEF st2, s
  <2>2. s \in Slot
    BY <2>1 DEF Listed
  <2>3. frame \in Frame
    BY <2>1, <2>2, FrameOfIs DEF Type
  <2> HIDE DEF frame
  <2>4. outcome = "queued" => Len(st2.queue[m]) < QueueSize
    BY <1>2, <2>1 DEF Room
  <2>5. Kept(n, st3) /\ st3.trans = st2.trans /\ st3.next = st2.next
    BY <2>1, <2>3, <2>4, OutputKept
  <2> HIDE DEF st3
  <2>6. k \in 0 .. SeqnoMax \cup {NULL}
    <3>1. st3.next[m] \in 0 .. SeqnoMax
      BY <1>2, <2>1, <2>5
    <3> QED
      BY <3>1, SixpAssumption DEF Increment
  <2> HIDE DEF k
  <2>7. \A t \in Find(st3, m) : st3.trans[t].state \notin Clearing
    <3>1. Find(st3, m) = {s}
      BY <2>1, <2>5 DEF Find, Listed
    <3> QED
      BY <2>1, <2>5, <3>1 DEF Clearing
  <2>8. Kept(n, st4)
    BY <2>5, <2>6, <2>7, NextKept
  <2>9. st4.trans = st3.trans
    BY <2>5, PlacesAre DEF Kept
  <2> HIDE DEF st4
  <2>10. s \in Listed(st4)
    BY <2>1, <2>5, <2>9 DEF Listed
  <2>11. Kept(n, st5)
    BY <2>8, <2>10, TransitKept
  <2>12. Request(st, m, cmd, outcome) = st5
    BY <1>6 DEF Request, st1, st2, s, frame, st3, k, st4
  <2> QED
    BY <2>11, <2>12
<1> QED
  BY <1>4, <1>5, <1>6

LEMMA AnswerKept ==
  ASSUME NEW n \in Node, NEW st, Kept(n, st), NEW m \in Node \ {n},
         NEW type \in {"RESPONSE", "CONFIRMATION"}, NEW outcome,
         Find(st, m) # {}, Room(st, m, outcome)
  PROVE  Kept(n, Answer(st, m, type, outcome)) /\ Answer(st, m, type, outcome).made = st.made
<1> DEFINE s == The(Find(st, m))
           st1 == WithNbr(st, m, st.trans[s].cmd, type)
           frame == FrameOf(type, st.trans[s], s)
           st2 == sixtop_output(st1, m, frame, outcome)
           new == IF type = "RESPONSE" THEN "RESPONSE_SENDING" ELSE "CONFIRMATION_SENDING"
           st3 == Transit(st2, s, new)
<1>1. s \in Listed(st)
  BY FindIs
<1> HIDE DEF s
<1>2. s \in Slot /\ st.trans[s] \in Good(n) /\ st.trans[s].state \notin Free
  BY <1>1, ListedIs
<1>3. Kept(n, st1) /\ st1.trans = st.trans /\ st1.queue = st.queue /\ st1.made = st.made
  BY WithNbrKept
<1> HIDE DEF st1
<1>4. frame \in Frame
  BY <1>2, FrameOfIs DEF Type, Free
<1> HIDE DEF frame
<1>5. outcome = "queued" => Len(st1.queue[m]) < QueueSize
  BY <1>3 DEF Room
<1>6. Kept(n, st2) /\ st2.trans = st1.trans /\ st2.made = st1.made
  BY <1>3, <1>4, <1>5, OutputKept
<1> HIDE DEF st2
<1>7. s \in Listed(st2)
  BY <1>1, <1>3, <1>6 DEF Listed
<1>8. new # "REQUEST_RECEIVED"
  OBVIOUS
<1> HIDE DEF new
<1>9. Kept(n, st3) /\ st3.made = st2.made
  BY <1>6, <1>7, <1>8, TransitKept
<1> HIDE DEF st3
<1>10. Answer(st, m, type, outcome) = IF outcome = "no_room" THEN st1 ELSE st3
  BY DEF Answer, s, st1, frame, st2, new, st3
<1> QED
  BY <1>3, <1>6, <1>9, <1>10

LEMMA RejectedKept ==
  ASSUME NEW n \in Node, NEW st, Kept(n, st), NEW m \in Node \ {n}, NEW pkt \in Frame, NEW outcome,
         Room(st, m, outcome)
  PROVE  Kept(n, Rejected(st, m, pkt, outcome)) /\ Rejected(st, m, pkt, outcome).made = st.made
<1> DEFINE frame1 == [pkt EXCEPT !.type = "RESPONSE", !.cmd = NULL, !.slot = 0]
           no == FALSE
           frame == [frame1 EXCEPT !.id = 0, !.heard = no]
<1>1. frame1 \in Frame
  BY DEF Frame, Type
<1>2. frame \in Frame
  <2>1. no \in BOOLEAN /\ 0 \in 0 .. MaxRequests
    BY SixpAssumption
  <2> HIDE DEF frame1, no
  <2> QED
    BY <1>1, <2>1 DEF Frame
<1>3. Rejected(st, m, pkt, outcome) = sixtop_output(st, m, frame, outcome)
  BY DEF Rejected
<1> HIDE DEF frame
<1> QED
  BY <1>2, <1>3, OutputKept DEF Room

LEMMA InconsistentKept ==
  ASSUME NEW n \in Node, NEW st, Kept(n, st), NEW m \in Node \ {n}, NEW pkt \in Frame, NEW outcome,
         Room(st, m, outcome)
  PROVE  Kept(n, Inconsistent(st, m, pkt, outcome)) /\ Inconsistent(st, m, pkt, outcome).made = st.made
<1>1. CASE Accepts(st, m, "RESPONSE")
  <2>1. Find(st, m) # {}
    BY <1>1 DEF Accepts
  <2> QED
    BY <1>1, <2>1, AnswerKept DEF Inconsistent
<1>2. CASE ~Accepts(st, m, "RESPONSE")
  BY <1>2, RejectedKept DEF Inconsistent
<1> QED
  BY <1>1, <1>2

--------------------------------------------------------------------------------
(* What is received, and what the MAC and the timers report.               *)

LEMMA InputRequestKept ==
  ASSUME NEW n \in Node, NEW st, Kept(n, st), NEW m \in Node \ {n}, NEW pkt \in Frame, NEW outcome,
         Room(st, m, outcome), st.made = made, made < MaxRequests
  PROVE  Kept(n, InputRequest(st, m, pkt, outcome))
<1> DEFINE k == IF pkt.cmd = "CLEAR" /\ st.next[m] # NULL THEN 0 ELSE st.next[m]
           st1 == [st EXCEPT !.next[m] = k]
           st2 == Alloc(st1, m, pkt.cmd, pkt.seqno, pkt.request)
           s == The(Find(st2, m))
           st3 == Transit(st2, s, "REQUEST_RECEIVED")
           r == InputRequest(st, m, pkt, outcome)
<1>1. /\ st.next \in [Node \ {n} -> 0 .. SeqnoMax \cup {NULL}]
      /\ st = [trans |-> st.trans, next |-> st.next, queue |-> st.queue, made |-> st.made]
  BY PlacesAre DEF Kept
<1>2. /\ k \in 0 .. SeqnoMax \cup {NULL} /\ (k \in {0, NULL} \/ k = st.next[m])
      /\ pkt.cmd = "CLEAR" => k \in {0, NULL}
  BY <1>1, SixpAssumption
<1> HIDE DEF k
<1>3. Kept(n, st1)
  BY <1>2, NextKept
<1>4. st1.trans = st.trans /\ st1.queue = st.queue /\ st1.made = st.made /\ st1.next[m] = k
  BY <1>1
<1>5. r = IF Find(st, m) # {}
          THEN IF pkt.cmd # "CLEAR" /\ \E t \in Find(st, m) : (pkt.seqno = 0) # (st.trans[t].seqno = 0)
               THEN Inconsistent(st, m, pkt, outcome) ELSE Rejected(st, m, pkt, outcome)
          ELSE IF Unused(st) = {} THEN Rejected(st1, m, pkt, outcome)
          ELSE IF pkt.cmd # "CLEAR" /\ (IF st.next[m] = NULL THEN pkt.seqno # 0
                                        ELSE st.next[m] # 0 /\ pkt.seqno = 0)
               THEN Inconsistent(st3, m, pkt, outcome) ELSE st3
  BY DEF InputRequest, k
<1> HIDE DEF st1, r
<1>6. CASE Find(st, m) # {}
  BY <1>5, <1>6, InconsistentKept, RejectedKept DEF r
<1>7. CASE Find(st, m) = {} /\ Unused(st) = {}
  <2>1. Room(st1, m, outcome)
    BY <1>4 DEF Room
  <2>2. Kept(n, Rejected(st1, m, pkt, outcome))
    BY <1>3, <2>1, RejectedKept
  <2> QED
    BY <1>5, <1>7, <2>2 DEF r
<1>8. CASE Find(st, m) = {} /\ Unused(st) # {}
  <2>1. Find(st1, m) = {} /\ Unused(st1) # {}
    BY <1>4, <1>8 DEF Find, Listed, Unused
  <2>2. pkt.cmd \in Command \cup {NULL} /\ pkt.seqno \in 0 .. SeqnoMax /\ pkt.request \in 1 .. MaxRequests
    BY DEF Frame
  <2>3. /\ Kept(n, st2)
        /\ s \in Listed(st2) /\ st2.trans[s].peer = m /\ st2.trans[s].cmd = pkt.cmd
        /\ st2.queue = st1.queue /\ st2.next = st1.next
    <3>1. Allocated(n, st1, st2, s, m, pkt.cmd, pkt.seqno, pkt.request)
      BY <1>3, <1>4, <2>1, <2>2, AllocKept
    <3> HIDE DEF st2, s
    <3> QED
      BY <3>1 DEF Allocated
  <2> HIDE DEF st2, s
  <2>4. Kept(n, st3) /\ st3.queue = st2.queue
    BY <1>2, <1>4, <2>3, TransitKept
  <2> HIDE DEF st3
  <2>5. Room(st3, m, outcome)
    BY <1>4, <2>3, <2>4 DEF Room
  <2>6. Kept(n, Inconsistent(st3, m, pkt, outcome))
    BY <2>4, <2>5, InconsistentKept
  <2> QED
    BY <1>5, <1>8, <2>4, <2>6 DEF r
<1> QED
  BY <1>6, <1>7, <1>8

\* a mark on a transaction that leaves it in its state
LEMMA MarkedKept ==
  ASSUME NEW n \in Node, NEW st, Kept(n, st), NEW s \in Slot, NEW tq \in Good(n),
         tq.state = st.trans[s].state, tq.peer = st.trans[s].peer, tq.cmd = st.trans[s].cmd
  PROVE  LET r == [st EXCEPT !.trans = [@ EXCEPT ![s] = tq]]
         IN  Kept(n, r) /\ r.queue = st.queue /\ r.made = st.made
<1> DEFINE trans1 == [st.trans EXCEPT ![s] = tq]
           r == [st EXCEPT !.trans = [@ EXCEPT ![s] = tq]]
<1>1. st \in Places(n) /\ One(st) /\ Zero(st)
  BY DEF Kept
<1>2. /\ st.trans \in [Slot -> Good(n)]
      /\ st = [trans |-> st.trans, next |-> st.next, queue |-> st.queue, made |-> st.made]
  BY <1>1, PlacesAre
<1>3. r = [st EXCEPT !.trans = trans1]
  OBVIOUS
<1>4. trans1 \in [Slot -> Good(n)] /\ trans1[s] = tq /\ \A t \in Slot \ {s} : trans1[t] = st.trans[t]
  BY <1>2
<1> HIDE DEF trans1, r
<1>5. r.trans = trans1 /\ r.next = st.next /\ r.queue = st.queue /\ r.made = st.made
  BY <1>2, <1>3
<1>6. r \in Places(n)
  BY <1>1, <1>3, <1>4 DEF Places
<1>7. \A t \in Slot : /\ r.trans[t].state = st.trans[t].state
                      /\ r.trans[t].peer = st.trans[t].peer /\ r.trans[t].cmd = st.trans[t].cmd
  BY <1>4, <1>5
<1>8. Listed(r) = Listed(st) /\ Listed(st) \subseteq Slot
  BY <1>7 DEF Listed
<1>9. One(r)
  BY <1>1, <1>7, <1>8 DEF One
<1>10. Zero(r)
  BY <1>1, <1>5, <1>7, <1>8 DEF Zero
<1> QED
  BY <1>5, <1>6, <1>9, <1>10 DEF Kept, r

LEMMA TakerIs ==
  ASSUME NEW st, NEW m, NEW pkt, Taker(st, m, pkt) # {}
  PROVE  LET s == The(Taker(st, m, pkt))
         IN  /\ s \in Listed(st) /\ st.trans[s].peer = m /\ s \in Taker(st, m, pkt)
             /\ Matches(st.trans[s], pkt) /\ Permitted(st.trans[s], Answered(pkt))
<1>1. The(Taker(st, m, pkt)) \in Taker(st, m, pkt)
  BY DEF The
<1> QED
  BY <1>1 DEF Taker, Find

LEMMA InputAnswerKept ==
  ASSUME NEW n \in Node, NEW st, Kept(n, st), NEW m \in Node \ {n}, NEW pkt
  PROVE  LET r == InputAnswer(st, m, pkt)
         IN  Kept(n, r) /\ r.queue = st.queue /\ r.made = st.made
<1>1. CASE Taker(st, m, pkt) = {}
  BY <1>1 DEF InputAnswer
<1>2. CASE Taker(st, m, pkt) # {}
  <2>1. The(Taker(st, m, pkt)) \in Listed(st)
    BY <1>2, TakerIs
  <2>2. InputAnswer(st, m, pkt) = Transit(st, The(Taker(st, m, pkt)), Answered(pkt))
    BY <1>2 DEF InputAnswer
  <2>3. Answered(pkt) # "REQUEST_RECEIVED"
    BY DEF Answered
  <2> QED
    BY <2>1, <2>2, <2>3, TransitKept
<1> QED
  BY <1>1, <1>2

LEMMA mac_callbackKept ==
  ASSUME NEW n \in Node, NEW st, Kept(n, st), NEW s \in Slot, NEW ok \in BOOLEAN
  PROVE  LET r == mac_callback(st, s, ok)
         IN  Kept(n, r) /\ r.queue = st.queue /\ r.made = st.made
<1> DEFINE state == st.trans[s].state
           new == Reported(state, ok)
           to == IF Permitted(st.trans[s], new) THEN new ELSE "TERMINATING"
<1>1. CASE state = "WAIT_FREE"
  BY <1>1, FreedKept DEF mac_callback
<1>2. CASE state # "WAIT_FREE" /\ new = state
  BY <1>2 DEF mac_callback
<1>3. CASE state # "WAIT_FREE" /\ new # state
  <2>1. s \in Listed(st) /\ to # "REQUEST_RECEIVED"
    BY <1>3 DEF Reported, Listed
  <2>2. mac_callback(st, s, ok) = Transit(st, s, to)
    BY <1>3 DEF mac_callback
  <2> HIDE DEF to
  <2> QED
    BY <2>1, <2>2, TransitKept
<1> QED
  BY <1>1, <1>2, <1>3

LEMMA process_transKept ==
  ASSUME NEW n \in Node, NEW st, Kept(n, st), NEW s \in Slot, st.trans[s].timer = "process"
  PROVE  LET r == process_trans(st, s)
         IN  Kept(n, r) /\ r.queue = st.queue /\ r.made = st.made
<1>1. st.trans[s] \in Good(n)
  BY PlacesAre DEF Kept
<1>2. s \in Listed(st)
  BY <1>1 DEF Good, Free, Listed
<1>3. CASE st.trans[s].state = "TERMINATING"
  <2>1. process_trans(st, s) = Freed(st, s) /\ s \in Slot
    BY <1>3 DEF process_trans, Finished
  <2> QED
    BY <1>3, <2>1, FreedKept
<1>4. CASE Finished(st.trans[s])
  <2>1. process_trans(st, s) = Transit(st, s, "TERMINATING")
    BY <1>4 DEF process_trans, Finished
  <2> QED
    BY <1>2, <2>1, TransitKept
<1>5. CASE st.trans[s].state # "TERMINATING" /\ ~Finished(st.trans[s])
  <2> DEFINE tq == [st.trans[s] EXCEPT !.timer = "timeout"]
  <2>1. /\ tq \in Good(n) /\ tq.state = st.trans[s].state
        /\ tq.peer = st.trans[s].peer /\ tq.cmd = st.trans[s].cmd
    BY <1>1, <1>2 DEF Good, Transaction, Free, Listed
  <2>2. process_trans(st, s) = [st EXCEPT !.trans = [@ EXCEPT ![s] = tq]]
    BY <1>5 DEF process_trans
  <2> HIDE DEF tq
  <2> QED
    BY <2>1, <2>2, MarkedKept
<1> QED
  BY <1>3, <1>4, <1>5

--------------------------------------------------------------------------------
(* The network: one action after the other.                                *)

SInv ==
  /\ trans = [n \in Node |-> trans[n]]
  /\ next_seqno = [n \in Node |-> next_seqno[n]]
  /\ queue = [n \in Node |-> queue[n]]
  /\ made \in 0 .. MaxRequests /\ resets \in 0 .. MaxResets
  /\ \A n \in Node : Kept(n, Local(n))

LEMMA LocalIs ==
  ASSUME NEW n \in Node
  PROVE  /\ Local(n).trans = trans[n] /\ Local(n).next = next_seqno[n]
         /\ Local(n).queue = queue[n] /\ Local(n).made = made
BY DEF Local

\* what a place keeps does not depend on the queues, nor on what was counted
LEMMA KeptAside ==
  ASSUME NEW n \in Node, NEW st, Kept(n, st), NEW q \in [Node \ {n} -> Fifo], NEW k \in 0 .. MaxRequests
  PROVE  Kept(n, [trans |-> st.trans, next |-> st.next, queue |-> q, made |-> k])
<1> DEFINE r == [trans |-> st.trans, next |-> st.next, queue |-> q, made |-> k]
<1>1. st \in Places(n) /\ One(st) /\ Zero(st)
  BY DEF Kept
<1>2. st.trans \in [Slot -> Good(n)] /\ st.next \in [Node \ {n} -> 0 .. SeqnoMax \cup {NULL}]
  BY <1>1, PlacesAre
<1>3. r.trans = st.trans /\ r.next = st.next
  OBVIOUS
<1>4. r \in Places(n)
  BY <1>2 DEF Places
<1> HIDE DEF r
<1>5. One(r) /\ Zero(r)
  BY <1>1, <1>3 DEF One, Zero, Listed
<1> QED
  BY <1>4, <1>5 DEF Kept, r

LEMMA StepKept ==
  ASSUME SInv, NEW n \in Node, NEW st, Kept(n, st), Assign(n, st), resets' \in 0 .. MaxResets,
         queue' = [k \in Node |-> queue'[k]],
         \A k \in Node : queue'[k] \in [Node \ {k} -> Fifo]
  PROVE  SInv'
<1>1. st \in Places(n)
  BY DEF Kept
<1>2. /\ st.made \in 0 .. MaxRequests /\ made' = st.made
      /\ trans' = [trans EXCEPT ![n] = st.trans] /\ next_seqno' = [next_seqno EXCEPT ![n] = st.next]
  BY <1>1, PlacesAre DEF Assign
<1>3. trans' = [k \in Node |-> trans'[k]] /\ next_seqno' = [k \in Node |-> next_seqno'[k]]
  BY <1>2 DEF SInv
<1>4. ASSUME NEW k \in Node
      PROVE  Kept(k, Local(k)')
  <2>1. Local(k)' = [trans |-> trans'[k], next |-> next_seqno'[k], queue |-> queue'[k], made |-> made']
    BY DEF Local
  <2>2. CASE k = n
    <3>1. trans'[k] = st.trans /\ next_seqno'[k] = st.next
      BY <1>2, <2>2 DEF SInv
    <3>2. \A q \in [Node \ {n} -> Fifo], j \in 0 .. MaxRequests :
            Kept(n, [trans |-> st.trans, next |-> st.next, queue |-> q, made |-> j])
      BY KeptAside
    <3> QED
      BY <1>2, <2>1, <2>2, <3>1, <3>2
  <2>3. CASE k # n
    <3>1. trans'[k] = Local(k).trans /\ next_seqno'[k] = Local(k).next
      BY <1>2, <2>3, LocalIs DEF SInv
    <3>2. Kept(k, Local(k))
      BY DEF SInv
    <3>3. \A q \in [Node \ {k} -> Fifo], j \in 0 .. MaxRequests :
            Kept(k, [trans |-> Local(k).trans, next |-> Local(k).next, queue |-> q, made |-> j])
      BY <3>2, KeptAside
    <3>4. made' \in 0 .. MaxRequests /\ queue'[k] \in [Node \ {k} -> Fifo]
      BY <1>2
    <3>5. Kept(k, [trans |-> Local(k).trans, next |-> Local(k).next, queue |-> queue'[k], made |-> made'])
      BY <3>3, <3>4
    <3> QED
      BY <2>1, <3>1, <3>5
  <2> QED
    BY <2>2, <2>3
<1>5. \A k \in Node : Kept(k, Local(k))'
  BY <1>4 DEF Kept
<1> QED
  BY <1>2, <1>3, <1>5 DEF SInv

Queued ==
  queue = [k \in Node |-> queue[k]] /\ \A k \in Node : queue[k] \in [Node \ {k} -> Fifo]

LEMMA FreshKept ==
  ASSUME NEW n \in Node, NEW k \in 0 .. MaxRequests
  PROVE  Kept(n, [trans |-> [s \in Slot |-> NoTrans], next |-> [m \in Node \ {n} |-> NULL],
                  queue |-> [m \in Node \ {n} |-> <<>>], made |-> k])
<1> DEFINE r == [trans |-> [s \in Slot |-> NoTrans], next |-> [m \in Node \ {n} |-> NULL],
                 queue |-> [m \in Node \ {n} |-> <<>>], made |-> k]
<1>1. NoTrans \in Good(n)
  <2>1. NoTrans \in Transaction
    BY SixpAssumption DEF NoTrans, Transaction, State, Sending
  <2>2. NoTrans.state = "UNAVAILABLE" /\ NoTrans.peer = NULL /\ NoTrans.timer = "off"
    BY DEF NoTrans
  <2> QED
    BY <2>1, <2>2 DEF Good, Free
<1>2. << >> \in Fifo
  <2>1. << >> \in Seq(Frame) /\ Len(<< >>) = 0
    OBVIOUS
  <2> QED
    BY <2>1, SixpAssumption DEF Fifo
<1>3. r \in Places(n)
  BY <1>1, <1>2 DEF Places
<1>4. Listed(r) = {}
  BY DEF Listed, NoTrans
<1> HIDE DEF r
<1>5. One(r) /\ Zero(r)
  BY <1>4 DEF One, Zero
<1> QED
  BY <1>3, <1>5 DEF Kept, r

LEMMA InitKept ==
  ASSUME Init
  PROVE  SInv
<1>1. /\ trans = [n \in Node |-> trans[n]] /\ next_seqno = [n \in Node |-> next_seqno[n]]
      /\ queue = [n \in Node |-> queue[n]]
      /\ made \in 0 .. MaxRequests /\ resets \in 0 .. MaxResets
  BY SixpAssumption DEF Init
<1>2. ASSUME NEW n \in Node
      PROVE  Kept(n, Local(n))
  <2>1. Local(n) = [trans |-> [s \in Slot |-> NoTrans], next |-> [m \in Node \ {n} |-> NULL],
                    queue |-> [m \in Node \ {n} |-> <<>>], made |-> made]
    BY DEF Local, Init
  <2> QED
    BY <1>1, <2>1, FreshKept
<1> QED
  BY <1>1, <1>2 DEF SInv

LEMMA QueuedIs ==
  ASSUME SInv
  PROVE  Queued
<1>1. ASSUME NEW n \in Node
      PROVE  queue[n] \in [Node \ {n} -> Fifo]
  <2>1. Kept(n, Local(n)) /\ Local(n).queue = queue[n]
    BY LocalIs DEF SInv
  <2> QED
    BY <2>1, PlacesAre DEF Kept
<1> QED
  BY <1>1 DEF SInv, Queued

LEMMA QueuedStep ==
  ASSUME Queued, NEW n \in Node, NEW q \in [Node \ {n} -> Fifo], queue' = [queue EXCEPT ![n] = q]
  PROVE  Queued'
BY DEF Queued

LEMMA RestartKept ==
  ASSUME SInv, NEW n \in Node, Restart(n)
  PROVE  SInv'
<1> DEFINE st == Booted(n)
<1>1. made \in 0 .. MaxRequests /\ resets \in 0 .. MaxResets
  BY DEF SInv
<1>2. Kept(n, st)
  BY <1>1, FreshKept DEF Booted
<1>3. Assign(n, st)
  BY DEF Restart
<1>4. resets' \in 0 .. MaxResets
  BY <1>1, SixpAssumption DEF Restart, SInv
<1>5. queue' = [queue EXCEPT ![n] = st.queue] /\ st.queue \in [Node \ {n} -> Fifo]
  BY <1>2, PlacesAre DEF Restart, Kept
<1> HIDE DEF st
<1>6. Queued'
  BY <1>5, QueuedIs, QueuedStep
<1> QED
  BY <1>2, <1>3, <1>4, <1>6, StepKept DEF Queued

LEMMA ProcessTimerKept ==
  ASSUME SInv, NEW n \in Node, NEW s \in Slot, ProcessTimer(n, s)
  PROVE  SInv'
<1>1. Kept(n, Local(n)) /\ Local(n).trans[s].timer = "process"
  BY LocalIs DEF SInv, ProcessTimer
<1>2. Kept(n, process_trans(Local(n), s))
  BY <1>1, process_transKept
<1>3. Assign(n, process_trans(Local(n), s)) /\ queue' = queue /\ resets' = resets
  BY DEF ProcessTimer
<1>4. Queued' /\ resets' \in 0 .. MaxResets
  BY <1>3, QueuedIs DEF Queued, SInv
<1> QED
  BY <1>2, <1>3, <1>4, StepKept DEF Queued

LEMMA TimeoutKept ==
  ASSUME SInv, NEW n \in Node, NEW s \in Slot, Timeout(n, s)
  PROVE  SInv'
<1>1. Kept(n, Local(n)) /\ Local(n).trans[s].timer = "timeout"
  BY LocalIs DEF SInv, Timeout
<1>2. s \in Listed(Local(n))
  <2>1. Local(n).trans[s] \in Good(n)
    BY <1>1, PlacesAre DEF Kept
  <2> QED
    BY <1>1, <2>1 DEF Good, Free, Listed
<1>3. Kept(n, Transit(Local(n), s, "TERMINATING"))
  BY <1>1, <1>2, TransitKept
<1>4. Assign(n, Transit(Local(n), s, "TERMINATING")) /\ queue' = queue /\ resets' = resets
  BY DEF Timeout
<1>5. Queued' /\ resets' \in 0 .. MaxResets
  BY <1>4, QueuedIs DEF Queued, SInv
<1> QED
  BY <1>3, <1>4, <1>5, StepKept DEF Queued

LEMMA RoomIs ==
  ASSUME NEW n \in Node, NEW m \in Node \ {n}, NEW outcome \in Outcomes(n, m)
  PROVE  Room(Local(n), m, outcome)
BY LocalIs DEF Outcomes, Room

\* an action that leaves its queues to the handler
LEMMA HandlerKept ==
  ASSUME SInv, NEW n \in Node, NEW st, Kept(n, st), Assign(n, st), resets' \in 0 .. MaxResets,
         queue' = [queue EXCEPT ![n] = st.queue]
  PROVE  SInv'
<1>1. st.queue \in [Node \ {n} -> Fifo]
  BY PlacesAre DEF Kept
<1>2. Queued'
  BY <1>1, QueuedIs, QueuedStep
<1> QED
  BY <1>2, StepKept DEF Queued

LEMMA SendRequestKept ==
  ASSUME SInv, NEW n \in Node, NEW m \in Node \ {n}, NEW cmd \in Command, SendRequest(n, m, cmd)
  PROVE  SInv'
<1>1. PICK outcome \in Outcomes(n, m) :
         /\ Assign(n, Request(Local(n), m, cmd, outcome))
         /\ queue' = [queue EXCEPT ![n] = Request(Local(n), m, cmd, outcome).queue]
  BY DEF SendRequest
<1>2. Kept(n, Local(n)) /\ Local(n).made = made /\ made < MaxRequests /\ Find(Local(n), m) = {}
  BY LocalIs DEF SInv, SendRequest, Accepts
<1>3. Room(Local(n), m, outcome)
  BY RoomIs
<1>4. Kept(n, Request(Local(n), m, cmd, outcome))
  BY <1>2, <1>3, RequestKept
<1>5. resets' \in 0 .. MaxResets
  BY SixpAssumption DEF SendRequest, SInv
<1> QED
  BY <1>1, <1>4, <1>5, HandlerKept

LEMMA SendAnswerKept ==
  ASSUME SInv, NEW n \in Node, NEW m \in Node \ {n}, NEW type \in {"RESPONSE", "CONFIRMATION"},
         SendAnswer(n, m, type)
  PROVE  SInv'
<1>1. PICK outcome \in Outcomes(n, m) :
         /\ Assign(n, Answer(Local(n), m, type, outcome))
         /\ queue' = [queue EXCEPT ![n] = Answer(Local(n), m, type, outcome).queue]
  BY DEF SendAnswer
<1>2. Kept(n, Local(n)) /\ Find(Local(n), m) # {}
  BY DEF SInv, SendAnswer, Accepts
<1>3. Room(Local(n), m, outcome)
  BY RoomIs
<1>4. Kept(n, Answer(Local(n), m, type, outcome))
  BY <1>2, <1>3, AnswerKept
<1>5. resets' \in 0 .. MaxResets
  BY DEF SendAnswer, SInv
<1> QED
  BY <1>1, <1>4, <1>5, HandlerKept

\* an answer is handled whatever becomes of the packets that are sent
LEMMA InputIs ==
  ASSUME NEW n, NEW m, Input(n, m)
  PROVE  LET pkt == Head(queue[m][n])
         IN \E outcome \in Outcomes(n, m) :
              LET st == IF pkt.type = "REQUEST" THEN InputRequest(Local(n), m, pkt, outcome)
                        ELSE InputAnswer(Local(n), m, pkt)
              IN /\ Assign(n, st)
                 /\ queue' = [queue EXCEPT ![n] = st.queue, ![m][n][1].heard = TRUE]
<1> DEFINE pkt == Head(queue[m][n])
           Becomes(st) == Assign(n, st) /\ queue' = [queue EXCEPT ![n] = st.queue, ![m][n][1].heard = TRUE]
<1>1. "refused" \in Outcomes(n, m)
  BY DEF Outcomes
<1>2. \E st \in IF pkt.type = "REQUEST"
               THEN {InputRequest(Local(n), m, pkt, outcome) : outcome \in Outcomes(n, m)}
               ELSE {InputAnswer(Local(n), m, pkt)} : Becomes(st)
  BY DEF Input
<1> HIDE DEF Becomes
<1>3. \E outcome \in Outcomes(n, m) :
        Becomes(IF pkt.type = "REQUEST" THEN InputRequest(Local(n), m, pkt, outcome)
                ELSE InputAnswer(Local(n), m, pkt))
  BY <1>1, <1>2
<1> QED
  BY <1>3 DEF Becomes

LEMMA InputKept ==
  ASSUME SInv, NEW n \in Node, NEW m \in Node \ {n}, Input(n, m)
  PROVE  SInv'
<1>1. Queued /\ n \in Node \ {m} /\ m # n
  BY QueuedIs
<1> DEFINE pkt == Head(queue[m][n])
<1>2. queue[m][n] \in Fifo /\ queue[m][n] # <<>>
  BY <1>1 DEF Queued, Input
<1>3. pkt \in Frame
  BY <1>2 DEF Fifo
<1>4. PICK outcome \in Outcomes(n, m) :
         LET st == IF pkt.type = "REQUEST" THEN InputRequest(Local(n), m, pkt, outcome)
                   ELSE InputAnswer(Local(n), m, pkt)
         IN /\ Assign(n, st)
            /\ queue' = [queue EXCEPT ![n] = st.queue, ![m][n][1].heard = TRUE]
  BY InputIs
<1> DEFINE st == IF pkt.type = "REQUEST" THEN InputRequest(Local(n), m, pkt, outcome)
                 ELSE InputAnswer(Local(n), m, pkt)
           q1 == [queue EXCEPT ![n] = st.queue]
           yes == TRUE
           heard == [queue[m][n] EXCEPT ![1] = [@ EXCEPT !.heard = yes]]
           q2 == [queue[m] EXCEPT ![n] = heard]
<1>5. Assign(n, st) /\ queue' = [q1 EXCEPT ![m][n][1].heard = yes]
  BY <1>4
<1>6. pkt.type = "REQUEST" => made < MaxRequests
  BY DEF Input
<1>7. Room(Local(n), m, outcome)
  BY RoomIs
<1>8. Kept(n, Local(n)) /\ Local(n).made = made
  BY LocalIs DEF SInv
<1> HIDE DEF pkt
<1>9. Kept(n, st)
  <2>1. CASE pkt.type = "REQUEST"
    BY <1>3, <1>6, <1>7, <1>8, <2>1, InputRequestKept
  <2>2. CASE pkt.type # "REQUEST"
    BY <1>8, <2>2, InputAnswerKept
  <2> QED
    BY <2>1, <2>2
<1> HIDE DEF st
<1>10. st.queue \in [Node \ {n} -> Fifo]
  BY <1>9, PlacesAre DEF Kept
<1>11. heard \in Fifo
  <2>1. queue[m][n] \in Seq(Frame) /\ Len(queue[m][n]) <= QueueSize /\ 1 \in 1 .. Len(queue[m][n])
    BY <1>2 DEF Fifo
  <2>2. queue[m][n][1] \in Frame
    BY <2>1
  <2>3. yes \in BOOLEAN
    OBVIOUS
  <2> HIDE DEF yes
  <2>4. [queue[m][n][1] EXCEPT !.heard = yes] \in Frame
    BY <2>2, <2>3 DEF Frame
  <2>5. heard = [queue[m][n] EXCEPT ![1] = [queue[m][n][1] EXCEPT !.heard = yes]]
    BY <2>1
  <2> DEFINE f == [queue[m][n][1] EXCEPT !.heard = yes]
             q == queue[m][n]
  <2> HIDE DEF f, heard
  <2>6. [q EXCEPT ![1] = f] \in Seq(Frame) /\ Len([q EXCEPT ![1] = f]) = Len(q)
    <3>1. q \in Seq(Frame) /\ 1 \in 1 .. Len(q) /\ f \in Frame
      BY <2>1, <2>4 DEF f
    <3> HIDE DEF q
    <3> QED
      BY <3>1
  <2>7. heard = [q EXCEPT ![1] = f]
    BY <2>5 DEF f
  <2> QED
    BY <2>1, <2>6, <2>7 DEF Fifo
<1>12. queue' = [q1 EXCEPT ![m] = q2]
  <2>1. q1[m] = queue[m]
    BY <1>1 DEF Queued
  <2>2. queue' = [q1 EXCEPT ![m] = [q1[m] EXCEPT ![n] = [q1[m][n] EXCEPT ![1] = [q1[m][n][1] EXCEPT !.heard = yes]]]]
    BY <1>5
  <2> HIDE DEF yes, q1
  <2> QED
    BY <2>1, <2>2
<1> HIDE DEF heard
<1>13. q2 \in [Node \ {m} -> Fifo]
  BY <1>1, <1>11 DEF Queued
<1> HIDE DEF q2
<1>14. Queued'
  <2>1. /\ q1 = [k \in Node |-> q1[k]]
        /\ \A k \in Node : q1[k] \in [Node \ {k} -> Fifo]
    BY <1>1, <1>10 DEF Queued
  <2> HIDE DEF q1
  <2> QED
    BY <1>12, <1>13, <2>1 DEF Queued
<1>15. resets' \in 0 .. MaxResets
  BY DEF Input, SInv
<1> HIDE DEF q1
<1> QED
  BY <1>5, <1>9, <1>14, <1>15, StepKept DEF Queued

LEMMA DoneKept ==
  ASSUME SInv, NEW n \in Node, NEW m \in Node \ {n}, NEW ok \in BOOLEAN, Done(n, m, ok)
  PROVE  SInv'
<1> DEFINE pkt == Head(queue[n][m])
           st == IF pkt.slot = 0 THEN Local(n) ELSE mac_callback(Local(n), pkt.slot, ok)
           q == [queue[n] EXCEPT ![m] = Tail(@)]
<1>1. Queued
  BY QueuedIs
<1>2. queue[n][m] \in Fifo /\ queue[n][m] # <<>>
  BY <1>1 DEF Queued, Done
<1>3. pkt.slot \in Slot \cup {0} /\ Tail(queue[n][m]) \in Fifo
  <2>1. Head(queue[n][m]) \in Frame /\ Tail(queue[n][m]) \in Seq(Frame)
    BY <1>2 DEF Fifo
  <2>2. Len(Tail(queue[n][m])) <= QueueSize
    BY <1>2, SixpAssumption DEF Fifo
  <2> QED
    BY <2>1, <2>2 DEF Frame, Fifo
<1>4. Assign(n, st) /\ queue' = [queue EXCEPT ![n] = q] /\ resets' = resets
  BY DEF Done
<1> HIDE DEF pkt
<1>5. Kept(n, st)
  <2>1. Kept(n, Local(n))
    BY DEF SInv
  <2>2. CASE pkt.slot = 0
    BY <2>1, <2>2
  <2>3. CASE pkt.slot # 0
    BY <1>3, <2>1, <2>3, mac_callbackKept
  <2> QED
    BY <2>2, <2>3
<1>6. q \in [Node \ {n} -> Fifo]
  BY <1>1, <1>3 DEF Queued
<1> HIDE DEF q, st
<1>7. Queued'
  BY <1>1, <1>4, <1>6, QueuedStep
<1>8. resets' \in 0 .. MaxResets
  BY <1>4 DEF SInv
<1> QED
  BY <1>4, <1>5, <1>7, <1>8, StepKept DEF Queued

LEMMA NextKeeps ==
  ASSUME SInv, [Next]_vars
  PROVE  SInv'
<1>1. CASE Next
  <2>1. PICK n \in Node :
          \/ Restart(n)
          \/ \E s \in Slot : ProcessTimer(n, s) \/ Timeout(n, s)
          \/ \E m \in Node \ {n} :
               \/ \E cmd \in Command : SendRequest(n, m, cmd)
               \/ \E type \in {"RESPONSE", "CONFIRMATION"} : SendAnswer(n, m, type)
               \/ Input(n, m)
               \/ \E ok \in BOOLEAN : Done(n, m, ok)
    BY <1>1 DEF Next
  <2>2. CASE Restart(n)
    BY <2>2, RestartKept
  <2>3. ASSUME NEW s \in Slot, ProcessTimer(n, s) \/ Timeout(n, s)
        PROVE  SInv'
    BY <2>3, ProcessTimerKept, TimeoutKept
  <2>4. ASSUME NEW m \in Node \ {n}, NEW cmd \in Command, SendRequest(n, m, cmd)
        PROVE  SInv'
    BY <2>4, SendRequestKept
  <2>5. ASSUME NEW m \in Node \ {n}, NEW type \in {"RESPONSE", "CONFIRMATION"}, SendAnswer(n, m, type)
        PROVE  SInv'
    BY <2>5, SendAnswerKept
  <2>6. ASSUME NEW m \in Node \ {n}, Input(n, m)
        PROVE  SInv'
    BY <2>6, InputKept
  <2>7. ASSUME NEW m \in Node \ {n}, NEW ok \in BOOLEAN, Done(n, m, ok)
        PROVE  SInv'
    BY <2>7, DoneKept
  <2> QED
    BY <2>1, <2>2, <2>3, <2>4, <2>5, <2>6, <2>7
<1>2. CASE UNCHANGED vars
  <2>1. \A n \in Node : Local(n)' = Local(n)
    BY <1>2 DEF vars, Local
  <2> QED
    BY <1>2, <2>1 DEF SInv, vars, Kept
<1> QED
  BY <1>1, <1>2

\* SInv is an invariant of the specification
LEMMA SInvAlways == Spec => []SInv
<1>1. SInv /\ [Next]_vars => SInv'
  BY NextKeeps
<1>2. Init => SInv
  BY InitKept
<1> QED
  BY <1>1, <1>2, PTL DEF Spec

\* what is noted of the past is true or false
Noted ==
  receded \in BOOLEAN /\ strayed \in BOOLEAN /\ overtaken \in [Node -> SUBSET (0 .. MaxRequests)]

LEMMA AssignNotes ==
  ASSUME NEW n, NEW st, Assign(n, st)
  PROVE  receded' \in BOOLEAN
BY DEF Assign

LEMMA InputNotes ==
  ASSUME NEW n, NEW m, Input(n, m)
  PROVE  strayed' \in BOOLEAN
<1> DEFINE strays == Strays(n, m, Head(queue[m][n]))
<1>1. strayed' = (strayed \/ strays)
  BY DEF Input
<1> HIDE DEF strays
<1> QED
  BY <1>1

LEMMA OvertakenNotes ==
  ASSUME SInv, Noted, Next
  PROVE  overtaken' \in [Node -> SUBSET (0 .. MaxRequests)]
<1> DEFINE Ids == 0 .. MaxRequests
<1>1. overtaken \in [Node -> SUBSET Ids]
  BY DEF Noted
<1>2. ASSUME NEW n \in Node, NEW s \in Slot
      PROVE  Overtaken(n, s) \subseteq Ids
  <2>1. Local(n) \in Places(n)
    BY DEF SInv, Kept
  <2>2. trans[n] \in [Slot -> Good(n)]
    <3>1. Local(n).trans \in [Slot -> Good(n)]
      BY <2>1, PlacesAre
    <3> QED
      BY <3>1, LocalIs
  <2>3. trans[n][s] \in Good(n)
    BY <2>2
  <2> QED
    BY <2>3 DEF Overtaken, Good, Transaction
<1>3. PICK n \in Node :
        \/ Restart(n)
        \/ \E s \in Slot : ProcessTimer(n, s) \/ Timeout(n, s)
        \/ \E m \in Node \ {n} :
             \/ \E cmd \in Command : SendRequest(n, m, cmd)
             \/ \E type \in {"RESPONSE", "CONFIRMATION"} : SendAnswer(n, m, type)
             \/ Input(n, m)
             \/ \E ok \in BOOLEAN : Done(n, m, ok)
  BY DEF Next
<1> HIDE DEF Ids
<1>4. ASSUME Restart(n)
      PROVE  overtaken' \in [Node -> SUBSET Ids]
  BY <1>1, <1>4 DEF Restart
<1>5. ASSUME NEW s \in Slot, ProcessTimer(n, s)
      PROVE  overtaken' \in [Node -> SUBSET Ids]
  BY <1>1, <1>5 DEF ProcessTimer
<1>6. ASSUME NEW s \in Slot, Timeout(n, s)
      PROVE  overtaken' \in [Node -> SUBSET Ids]
  BY <1>1, <1>2, <1>6 DEF Timeout
<1>7. ASSUME NEW m \in Node \ {n}, NEW cmd \in Command, SendRequest(n, m, cmd)
      PROVE  overtaken' \in [Node -> SUBSET Ids]
  BY <1>1, <1>7 DEF SendRequest
<1>8. ASSUME NEW m \in Node \ {n}, NEW type \in {"RESPONSE", "CONFIRMATION"}, SendAnswer(n, m, type)
      PROVE  overtaken' \in [Node -> SUBSET Ids]
  BY <1>1, <1>8 DEF SendAnswer
<1>9. ASSUME NEW m \in Node \ {n}, Input(n, m)
      PROVE  overtaken' \in [Node -> SUBSET Ids]
  <2> DEFINE X == UNION {Overtaken(n, s) : s \in Taker(Local(n), m, Head(queue[m][n]))}
  <2>1. X \subseteq Ids
    BY <1>2 DEF Taker, Find, Listed
  <2>2. overtaken' = overtaken \/ overtaken' = [overtaken EXCEPT ![n] = @ \cup X]
    BY <1>9 DEF Input
  <2> HIDE DEF X
  <2> QED
    BY <1>1, <2>1, <2>2
<1>10. ASSUME NEW m \in Node \ {n}, NEW ok \in BOOLEAN, Done(n, m, ok)
       PROVE  overtaken' \in [Node -> SUBSET Ids]
  <2> DEFINE pkt == Head(queue[n][m])
             X == Mistaken(n, pkt)
             O == (InMac(queue'[n]) \cup {0}) \cap (overtaken[n] \cup X)
  <2>1. queue[n][m] \in Seq(Frame) /\ queue[n][m] # <<>>
    BY <1>10, QueuedIs DEF Queued, Fifo, Done
  <2>2. pkt \in Frame
    BY <2>1
  <2>3. pkt.slot \in Slot \cup {0}
    BY <2>2 DEF Frame
  <2>4. X \subseteq Ids
    <3>1. 0 \in Ids
      BY SixpAssumption DEF Ids
    <3> QED
      BY <1>2, <2>3, <3>1 DEF Mistaken
  <2>5. overtaken' = [overtaken EXCEPT ![n] = O]
    BY <1>1, <1>10 DEF Done
  <2> HIDE DEF pkt, X
  <2>6. O \subseteq Ids
    BY <1>1, <2>4
  <2> HIDE DEF O
  <2> QED
    BY <1>1, <2>5, <2>6
<1>11. overtaken' \in [Node -> SUBSET Ids]
  BY <1>3, <1>4, <1>5, <1>6, <1>7, <1>8, <1>9, <1>10
<1> QED
  BY <1>11 DEF Ids

LEMMA StepNotes ==
  ASSUME SInv, Noted, Next
  PROVE  Noted'
<1>0. overtaken' \in [Node -> SUBSET (0 .. MaxRequests)]
  BY OvertakenNotes
<1>1. PICK n \in Node :
        \/ Restart(n)
        \/ \E s \in Slot : ProcessTimer(n, s) \/ Timeout(n, s)
        \/ \E m \in Node \ {n} :
             \/ \E cmd \in Command : SendRequest(n, m, cmd)
             \/ \E type \in {"RESPONSE", "CONFIRMATION"} : SendAnswer(n, m, type)
             \/ Input(n, m)
             \/ \E ok \in BOOLEAN : Done(n, m, ok)
  BY DEF Next
<1>2. strayed \in BOOLEAN
  BY DEF Noted
<1>3. CASE Restart(n)
  BY <1>2, <1>0, <1>3, AssignNotes DEF Restart, Noted
<1>4. ASSUME NEW s \in Slot, ProcessTimer(n, s)
      PROVE  Noted'
  BY <1>2, <1>0, <1>4, AssignNotes DEF ProcessTimer, Noted
<1>5. ASSUME NEW s \in Slot, Timeout(n, s)
      PROVE  Noted'
  BY <1>2, <1>0, <1>5, AssignNotes DEF Timeout, Noted
<1>6. ASSUME NEW m \in Node \ {n}, NEW cmd \in Command, SendRequest(n, m, cmd)
      PROVE  Noted'
  BY <1>2, <1>0, <1>6, AssignNotes DEF SendRequest, Noted
<1>7. ASSUME NEW m \in Node \ {n}, NEW type \in {"RESPONSE", "CONFIRMATION"}, SendAnswer(n, m, type)
      PROVE  Noted'
  BY <1>2, <1>0, <1>7, AssignNotes DEF SendAnswer, Noted
<1>8. ASSUME NEW m \in Node \ {n}, Input(n, m)
      PROVE  Noted'
  <2>1. receded' \in BOOLEAN
    BY <1>8, AssignNotes DEF Input
  <2> QED
    BY <1>0, <1>8, <2>1, InputNotes DEF Noted
<1>9. ASSUME NEW m \in Node \ {n}, NEW ok \in BOOLEAN, Done(n, m, ok)
      PROVE  Noted'
  BY <1>2, <1>0, <1>9, AssignNotes DEF Done, Noted
<1> QED
  BY <1>1, <1>3, <1>4, <1>5, <1>6, <1>7, <1>8, <1>9

LEMMA NotedAlways == Spec => []Noted
<1>1. Init => Noted
  BY DEF Init, Noted
<1>2. SInv /\ Noted /\ [Next]_vars => Noted'
  BY StepNotes DEF Noted, vars
<1> QED
  BY <1>1, <1>2, SInvAlways, PTL DEF Spec

--------------------------------------------------------------------------------
(* The variables keep their types: a SeqNum, however often it wraps, stays *)
(* a byte, a queue of the MAC within its size, and a block of the pool is  *)
(* free exactly when it has no peer.                                       *)
THEOREM SixpTypeCorrect == Spec => []TypeOK
<1>1. ASSUME SInv
      PROVE  Noted => TypeOK
  <2>1. ASSUME NEW n \in Node
        PROVE  /\ trans[n] \in [Slot -> Good(n)]
               /\ next_seqno[n] \in [Node \ {n} -> 0 .. SeqnoMax \cup {NULL}]
               /\ queue[n] \in [Node \ {n} -> Fifo]
    <3>1. Local(n) \in Places(n)
      BY <1>1 DEF SInv, Kept
    <3> QED
      BY <3>1, PlacesAre, LocalIs
  <2>2. ASSUME NEW n \in Node, NEW s \in Slot
        PROVE  trans[n][s] \in Transaction /\ (trans[n][s].state = "UNAVAILABLE" <=> trans[n][s].peer = NULL)
    <3>1. trans[n][s] \in Good(n)
      BY <2>1
    <3> QED
      BY <3>1, SixpAssumption DEF Good
  <2>3. \A n \in Node : trans[n] \in [Slot -> Transaction]
    BY <2>1, <2>2
  <2>4. trans \in [Node -> [Slot -> Transaction]]
    BY <1>1, <2>3 DEF SInv
  <2>5. \A n \in Node : \A m \in Node \ {n} :
          queue[n][m] \in Seq(Frame) /\ Len(queue[n][m]) <= QueueSize
    BY <2>1 DEF Fifo
  <2> QED
    BY <1>1, <2>1, <2>2, <2>4, <2>5 DEF TypeOK, SInv, Noted
<1> QED
  BY <1>1, SInvAlways, NotedAlways, PTL

(* sixp_trans_find finds at most one transaction: sixp_trans_alloc is only *)
(* called where it found none, whatever is sent, lost, late or retried,    *)
(* whoever reboots, and when both ends start a transaction at once.        *)
THEOREM OneTransactionPerPeer == Spec => []OnePerPeer
<1>1. ASSUME SInv
      PROVE  OnePerPeer
  <2>1. ASSUME NEW n \in Node, NEW s \in Listed(Local(n)), NEW t \in Listed(Local(n)),
               trans[n][s].peer = trans[n][t].peer
        PROVE  s = t
    <3>1. One(Local(n)) /\ Local(n).trans = trans[n]
      BY <1>1, LocalIs DEF SInv, Kept
    <3> QED
      BY <2>1, <3>1 DEF One
  <2> QED
    BY <2>1 DEF OnePerPeer
<1> QED
  BY <1>1, SInvAlways, PTL

(* The assertion in sixp_trans_transit_state never fails: from the moment  *)
(* a CLEAR is received until its transaction ends, the SeqNum kept for the *)
(* peer is 0, or there is none, whatever else the node sends and receives. *)
THEOREM ClearingKeepsZero == Spec => []ClearKeepsZero
<1>1. ASSUME SInv
      PROVE  ClearKeepsZero
  <2>1. ASSUME NEW n \in Node, NEW s \in Listed(Local(n)), trans[n][s].cmd = "CLEAR",
               trans[n][s].state \in {"REQUEST_RECEIVED", "RESPONSE_SENDING", "RESPONSE_SENT"}
        PROVE  next_seqno[n][trans[n][s].peer] \in {0, NULL}
    <3>1. Zero(Local(n)) /\ Local(n).trans = trans[n] /\ Local(n).next = next_seqno[n]
      BY <1>1, LocalIs DEF SInv, Kept
    <3> QED
      BY <2>1, <3>1 DEF Zero, Clearing
  <2> QED
    BY <2>1 DEF ClearKeepsZero
<1> QED
  BY <1>1, SInvAlways, PTL
--------------------------------------------------------------------------------
(* Every handler sets at most one block of its node, and sends at most one *)
(* frame: moves that leave r where st was.                                 *)

Sets(st, r, s, tq) == r.trans = [st.trans EXCEPT ![s] = tq]
MaySend(st, r, m, f) == r.queue = st.queue \/ r.queue = [st.queue EXCEPT ![m] = Append(@, f)]

Same(tr, tq) ==
  tq.peer = tr.peer /\ tq.seqno = tr.seqno /\ tq.request = tr.request /\ tq.id = tr.id

SendingOf(type) ==
  CASE type = "REQUEST" -> "REQUEST_SENDING"
    [] type = "RESPONSE" -> "RESPONSE_SENDING"
    [] type = "CONFIRMATION" -> "CONFIRMATION_SENDING"

\* the state in which a transaction waits for its node to send an answer
ReceivedOf(type) == IF type = "RESPONSE" THEN "REQUEST_RECEIVED" ELSE "RESPONSE_RECEIVED"

Idles(st, r) == r.trans = st.trans /\ r.queue = st.queue

\* a block is set, to what is left of its transaction or to a new one
Settles(n, st, r, s, tq) == s \in Slot /\ tq \in Good(n) /\ Sets(st, r, s, tq) /\ r.queue = st.queue

\* a transaction goes on, or ends
Wanes(tr, tq) == tq = NoTrans \/ (Same(tr, tq) /\ (tq.state = tr.state \/ Permitted(tr, tq.state)))

\* a transaction with m gets the state of one whose frame is being sent
Speaks(n, st, r, m, s, tq, type) ==
  /\ s \in Slot /\ tq \in Good(n) /\ st.trans[s].state \notin Sending
  /\ tq.peer = m /\ tq.state = SendingOf(type)
  /\ Sets(st, r, s, tq) /\ MaySend(st, r, m, FrameOf(type, tq, s))

RejectionOf(pkt) ==
  [pkt EXCEPT !.type = "RESPONSE", !.cmd = NULL, !.slot = 0, !.id = 0, !.heard = FALSE]

NextSet(st, m, k) == [st EXCEPT !.next[m] = k]

LEMMA NextIs ==
  ASSUME NEW n \in Node, NEW st, Kept(n, st), NEW m \in Node \ {n}, NEW k
  PROVE  /\ NextSet(st, m, k).trans = st.trans /\ NextSet(st, m, k).queue = st.queue
         /\ NextSet(st, m, k).made = st.made /\ NextSet(st, m, k).next[m] = k
<1> DEFINE next == [st.next EXCEPT ![m] = k]
           r == NextSet(st, m, k)
<1>1. /\ st = [trans |-> st.trans, next |-> st.next, queue |-> st.queue, made |-> st.made]
      /\ st.next \in [Node \ {n} -> 0 .. SeqnoMax \cup {NULL}]
  BY PlacesAre DEF Kept
<1>2. r = [st EXCEPT !.next = next]
  BY DEF NextSet
<1>3. r = [trans |-> st.trans, next |-> next, queue |-> st.queue, made |-> st.made]
  <2> HIDE DEF next, r
  <2> QED
    BY <1>1, <1>2
<1>4. next[m] = k
  BY <1>1
<1> HIDE DEF next, r
<1> QED
  BY <1>3, <1>4 DEF r

Goes(n, st, r, s, tq, new) ==
  /\ Settles(n, st, r, s, tq) /\ r.made = st.made
  /\ ~Counts(st.trans[s], new) => \A m \in Node \ {n} : r.next[m] = st.next[m]
  /\ Same(st.trans[s], tq) /\ tq.state = new /\ tq.cmd = st.trans[s].cmd
  /\ new \in State \ Free

LEMMA TransitSets ==
  ASSUME NEW n \in Node, NEW st \in Places(n), NEW s \in Listed(st), NEW new, Permitted(st.trans[s], new)
  PROVE  Goes(n, st, Transit(st, s, new), s, Moved(st.trans[s], new), new)
<1> DEFINE tr == st.trans[s]
           tq == Moved(tr, new)
           r == Transit(st, s, new)
<1>1. Transited(n, st, r, s, new)
  BY TransitIs
<1>2. s \in Slot /\ tr \in Good(n) /\ tr.state \notin Free /\ new \in State \ Free
  <2>1. s \in Slot /\ tr \in Good(n) /\ tr.state \notin Free
    BY PlacesAre DEF Listed, Free
  <2> HIDE DEF r
  <2>2. new \in State \ Free
    BY <1>1 DEF Transited
  <2> QED
    BY <2>1, <2>2
<1>3. tq \in Good(n) /\ Same(tr, tq) /\ tq.state = new /\ tq.cmd = tr.cmd
  BY <1>2 DEF Good, Transaction, Free, Moved, Same
<1> HIDE DEF tq, tr, r
<1> QED
  BY <1>1, <1>2, <1>3 DEF Goes, Settles, Sets, Transited, tq, tr, r

LEMMA RequestMoves ==
  ASSUME NEW n \in Node, NEW st, Kept(n, st), NEW m \in Node \ {n}, NEW cmd \in Command, NEW outcome,
         Find(st, m) = {}, st.made = made, made < MaxRequests, Room(st, m, outcome)
  PROVE  LET r == Request(st, m, cmd, outcome)
         IN  /\ r.made \in {made, made + 1}
             /\ \/ Idles(st, r)
                \/ \E s \in Slot, tq \in Good(n) :
                     /\ Speaks(n, st, r, m, s, tq, "REQUEST")
                     /\ st.trans[s].state = "UNAVAILABLE" /\ tq.request = made + 1 /\ r.made = made + 1
                     /\ tq.seqno = IF st.next[m] = NULL THEN 0 ELSE st.next[m]
                     /\ cmd # "CLEAR" => r.next[m] = Increment(tq.seqno)
<1> DEFINE st1 == WithNbr(st, m, cmd, "REQUEST")
           st2 == Alloc(st1, m, cmd, st1.next[m], made + 1)
           s == The(Find(st2, m))
           frame == FrameOf("REQUEST", st2.trans[s], s)
           st3 == sixtop_output(st2, m, frame, outcome)
           k == IF cmd = "CLEAR" THEN 0 ELSE Increment(st3.next[m])
           st4 == [st3 EXCEPT !.next[m] = k]
           st5 == Transit(st4, s, "REQUEST_SENDING")
           base == IF st.next[m] = NULL THEN 0 ELSE st.next[m]
<1>1. made \in Nat /\ made + 1 \in 1 .. MaxRequests /\ made + 1 \in 0 .. MaxRequests
  <2>1. st.made \in 0 .. MaxRequests
    BY PlacesAre DEF Kept
  <2> QED
    BY <2>1, SixpAssumption
<1>2. /\ Kept(n, st1) /\ st1.trans = st.trans /\ st1.queue = st.queue /\ st1.made = st.made
      /\ st1.next[m] \in 0 .. SeqnoMax
  BY WithNbrKept
<1>3. st1.next[m] = base
  <2>1. st1 = NextSet(st, m, base)
    BY DEF WithNbr, NextSet
  <2> HIDE DEF st1, base
  <2> QED
    BY <2>1, NextIs
<1> HIDE DEF st1
<1>4. Find(st1, m) = {} /\ Unused(st1) = Unused(st)
  BY <1>2 DEF Find, Listed, Unused
<1>5. CASE Unused(st) = {}
  <2>1. Request(st, m, cmd, outcome) = st1
    BY <1>5 DEF Request, st1
  <2> QED
    BY <1>2, <2>1 DEF Idles
<1>6. CASE Unused(st) # {} /\ outcome = "no_room"
  <2> DEFINE r == [st1 EXCEPT !.made = @ + 1]
  <2>1. Request(st, m, cmd, outcome) = r
    BY <1>6 DEF Request, st1
  <2>2. r.trans = st1.trans /\ r.queue = st1.queue /\ r.made = made + 1
    BY <1>2, PlacesAre DEF Kept
  <2> QED
    BY <1>2, <2>1, <2>2 DEF Idles
<1>7. CASE Unused(st) # {} /\ outcome # "no_room"
  <2>1. /\ Kept(n, st2)
        /\ s \in Listed(st2) /\ st2.trans[s].peer = m /\ st2.trans[s].cmd = cmd
        /\ st2.trans[s].state = "INIT" /\ st2.trans[s] \in Good(n)
        /\ Find(st2, m) = {s}
        /\ st2.queue = st1.queue /\ st2.next = st1.next /\ st2.made = made + 1
        /\ st1.trans[s].state = "UNAVAILABLE" /\ st2.trans = [st1.trans EXCEPT ![s] = st2.trans[s]]
        /\ st2.trans[s].seqno = base /\ st2.trans[s].request = made + 1
    <3>1. Allocated(n, st1, st2, s, m, cmd, base, made + 1)
      BY <1>1, <1>2, <1>3, <1>4, <1>7, AllocKept
    <3> HIDE DEF st2, s, base
    <3> QED
      BY <3>1 DEF Allocated
  <2> HIDE DEF st2, s
  <2>2. s \in Slot
    BY <2>1 DEF Listed
  <2>3. frame \in Frame
    BY <2>1, <2>2, FrameOfIs DEF Type
  <2>4. MaySend(st2, st3, m, frame)
    BY <2>1, PlacesAre DEF Kept, sixtop_output, MaySend
  <2>5. outcome = "queued" => Len(st2.queue[m]) < QueueSize
    BY <1>2, <2>1 DEF Room
  <2>6. Kept(n, st3) /\ st3.trans = st2.trans /\ st3.next = st2.next /\ st3.made = st2.made
    <3> HIDE DEF frame
    <3> QED
      BY <2>1, <2>3, <2>5, OutputKept
  <2> HIDE DEF st3, frame
  <2>7. k \in 0 .. SeqnoMax \cup {NULL} /\ st3.next[m] = base
    <3>1. st3.next[m] \in 0 .. SeqnoMax
      BY <1>2, <2>1, <2>6
    <3> QED
      BY <1>3, <2>1, <2>6, <3>1, SixpAssumption DEF Increment
  <2>8. cmd # "CLEAR" => k = Increment(base)
    BY <2>7
  <2> HIDE DEF k
  <2>9. \A t \in Find(st3, m) : st3.trans[t].state \notin Clearing
    <3>1. Find(st3, m) = {s}
      BY <2>1, <2>6 DEF Find, Listed
    <3> QED
      BY <2>1, <2>6, <3>1 DEF Clearing
  <2>10. Kept(n, st4)
    BY <2>6, <2>7, <2>9, NextKept
  <2>11. st4.trans = st3.trans /\ st4.queue = st3.queue /\ st4.made = st3.made /\ st4.next[m] = k
    <3>1. st4 = NextSet(st3, m, k)
      BY DEF NextSet
    <3> HIDE DEF st4
    <3> QED
      BY <2>6, <3>1, NextIs
  <2> HIDE DEF st4
  <2>12. s \in Listed(st4) /\ Permitted(st4.trans[s], "REQUEST_SENDING")
    BY <2>1, <2>6, <2>11 DEF Listed, Permitted
  <2> DEFINE tq == Moved(st4.trans[s], "REQUEST_SENDING")
  <2>13. /\ Settles(n, st4, st5, s, tq) /\ st5.made = st4.made
         /\ ~Counts(st4.trans[s], "REQUEST_SENDING") => \A p \in Node \ {n} : st5.next[p] = st4.next[p]
         /\ Same(st4.trans[s], tq) /\ tq.state = "REQUEST_SENDING" /\ tq.cmd = st4.trans[s].cmd
    <3>1. Goes(n, st4, st5, s, tq, "REQUEST_SENDING")
      BY <2>10, <2>12, TransitSets DEF Kept
    <3> HIDE DEF st5, tq
    <3> QED
      BY <3>1 DEF Goes
  <2>14. st5.next[m] = st4.next[m]
    <3>1. ~Counts(st4.trans[s], "REQUEST_SENDING")
      BY DEF Counts
    <3> HIDE DEF st5
    <3> QED
      BY <2>13, <3>1
  <2> HIDE DEF st5, tq
  <2>15. Request(st, m, cmd, outcome) = st5
    BY <1>7 DEF Request, st1, st2, s, frame, st3, k, st4, st5
  <2>16. frame = FrameOf("REQUEST", tq, s)
    BY <2>1, <2>6, <2>11, <2>13 DEF FrameOf, Same, frame
  <2>17. st5.trans = [st.trans EXCEPT ![s] = tq] /\ tq \in Good(n)
    BY <1>2, <2>1, <2>6, <2>11, <2>13 DEF Settles, Sets
  <2>18. MaySend(st, st5, m, frame)
    BY <1>2, <2>1, <2>4, <2>11, <2>13 DEF MaySend, Settles
  <2>19. Speaks(n, st, st5, m, s, tq, "REQUEST")
    <3>1. tq.peer = m /\ tq.state = SendingOf("REQUEST") /\ st.trans[s].state \notin Sending
      BY <1>2, <2>1, <2>6, <2>11, <2>13 DEF SendingOf, Same, Sending
    <3> QED
      BY <2>2, <2>16, <2>17, <2>18, <3>1 DEF Speaks, Sets
  <2>20. tq.seqno = base /\ tq.request = made + 1
    BY <2>1, <2>6, <2>11, <2>13 DEF Same
  <2>21. st5.made = made + 1 /\ st.trans[s].state = "UNAVAILABLE"
    BY <1>2, <2>1, <2>6, <2>11, <2>13
  <2>22. cmd # "CLEAR" => st5.next[m] = Increment(tq.seqno)
    BY <2>8, <2>11, <2>14, <2>20
  <2> QED
    BY <2>2, <2>15, <2>17, <2>19, <2>20, <2>21, <2>22
<1> QED
  BY <1>5, <1>6, <1>7

\* the response or confirmation that the transaction with m has to give
Answers(n, st, r, m, type) ==
  \E s \in Slot, tq \in Good(n) :
    Speaks(n, st, r, m, s, tq, type) /\ st.trans[s].state = ReceivedOf(type) /\ Same(st.trans[s], tq)

LEMMA AnswerMoves ==
  ASSUME NEW n \in Node, NEW st, Kept(n, st), NEW m \in Node \ {n},
         NEW type \in {"RESPONSE", "CONFIRMATION"}, NEW outcome,
         Find(st, m) # {}, Room(st, m, outcome),
         \A s \in Find(st, m) : st.trans[s].state = ReceivedOf(type),
         type = "CONFIRMATION" => \A s \in Find(st, m) : ThreeStep(st.trans[s])
  PROVE  LET r == Answer(st, m, type, outcome)
         IN  Idles(st, r) \/ Answers(n, st, r, m, type)
<1> DEFINE s == The(Find(st, m))
           tr == st.trans[s]
           st1 == WithNbr(st, m, tr.cmd, type)
           frame == FrameOf(type, tr, s)
           st2 == sixtop_output(st1, m, frame, outcome)
           new == IF type = "RESPONSE" THEN "RESPONSE_SENDING" ELSE "CONFIRMATION_SENDING"
           st3 == Transit(st2, s, new)
           tq == Moved(st2.trans[s], new)
<1>1. /\ s \in Listed(st) /\ tr.peer = m /\ tr.state = ReceivedOf(type)
      /\ type = "CONFIRMATION" => ThreeStep(tr)
  BY FindIs
<1> HIDE DEF s
<1>2. s \in Slot /\ tr \in Good(n) /\ tr.state \notin Free
  BY <1>1, ListedIs
<1>3. Kept(n, st1) /\ st1.trans = st.trans /\ st1.queue = st.queue
  BY WithNbrKept
<1> HIDE DEF st1
<1>4. frame \in Frame
  BY <1>2, FrameOfIs DEF Type, Free
<1>5. outcome = "queued" => Len(st1.queue[m]) < QueueSize
  BY <1>3 DEF Room
<1>6. MaySend(st1, st2, m, frame)
  BY <1>3, PlacesAre DEF Kept, sixtop_output, MaySend
<1> HIDE DEF frame
<1>7. Kept(n, st2) /\ st2.trans = st1.trans
  BY <1>3, <1>4, <1>5, OutputKept
<1> HIDE DEF st2
<1>8. s \in Listed(st2) /\ st2.trans[s] = tr
  BY <1>1, <1>3, <1>7 DEF Listed
<1>9. Permitted(st2.trans[s], new)
  BY <1>1, <1>8 DEF Permitted, ReceivedOf
<1>10. new = SendingOf(type)
  BY DEF SendingOf
<1> HIDE DEF new
<1>11. Settles(n, st2, st3, s, tq) /\ Same(st2.trans[s], tq) /\ tq.state = new /\ tq.cmd = st2.trans[s].cmd
  <2>1. Goes(n, st2, st3, s, tq, new)
    BY <1>7, <1>8, <1>9, TransitSets DEF Kept
  <2> HIDE DEF st3, tq
  <2> QED
    BY <2>1 DEF Goes
<1>12. Answer(st, m, type, outcome) = IF outcome = "no_room" THEN st1 ELSE st3
  BY DEF Answer, s, st1, frame, st2, new, st3
<1> HIDE DEF st3, tq
<1>13. frame = FrameOf(type, tq, s)
  BY <1>8, <1>11 DEF FrameOf, Same, frame
<1>14. st3.trans = [st.trans EXCEPT ![s] = tq] /\ tq \in Good(n)
  BY <1>3, <1>7, <1>11 DEF Settles, Sets
<1>15. MaySend(st, st3, m, FrameOf(type, tq, s))
  BY <1>3, <1>6, <1>11, <1>13 DEF MaySend, Settles
<1>16. Same(tr, tq) /\ tq.peer = m /\ tr.state \notin Sending
  BY <1>1, <1>8, <1>11 DEF Same, ReceivedOf, Sending
<1> HIDE DEF tr
<1>17. Speaks(n, st, st3, m, s, tq, type)
  BY <1>2, <1>10, <1>11, <1>14, <1>15, <1>16 DEF Speaks, Sets, tr
<1>18. Answers(n, st, st3, m, type)
  BY <1>1, <1>2, <1>14, <1>16, <1>17 DEF Answers, tr
<1> QED
  BY <1>3, <1>12, <1>18 DEF Idles

\* an error response without a transaction of its own
Refuses(st, r, m, pkt) == r.trans = st.trans /\ MaySend(st, r, m, RejectionOf(pkt))

LEMMA RejectedMoves ==
  ASSUME NEW n \in Node, NEW st, Kept(n, st), NEW m \in Node \ {n}, NEW pkt \in Frame, NEW outcome,
         Room(st, m, outcome)
  PROVE  Refuses(st, Rejected(st, m, pkt, outcome), m, pkt) /\ RejectionOf(pkt) \in Frame
<1> DEFINE frame1 == [pkt EXCEPT !.type = "RESPONSE", !.cmd = NULL, !.slot = 0]
           no == FALSE
           frame == [frame1 EXCEPT !.id = 0, !.heard = no]
<1>1. frame \in Frame
  <2>1. frame1 \in Frame
    BY DEF Frame, Type
  <2>2. no \in BOOLEAN /\ 0 \in 0 .. MaxRequests
    BY SixpAssumption
  <2> HIDE DEF frame1, no
  <2> QED
    BY <2>1, <2>2 DEF Frame
<1>2. RejectionOf(pkt) = frame
  BY DEF RejectionOf
<1>3. Rejected(st, m, pkt, outcome) = sixtop_output(st, m, RejectionOf(pkt), outcome)
  BY DEF Rejected, RejectionOf
<1> HIDE DEF frame
<1>4. Rejected(st, m, pkt, outcome).trans = st.trans
  BY <1>1, <1>2, <1>3, OutputKept DEF Room
<1>5. MaySend(st, sixtop_output(st, m, RejectionOf(pkt), outcome), m, RejectionOf(pkt))
  BY PlacesAre DEF Kept, sixtop_output, MaySend
<1> QED
  BY <1>1, <1>2, <1>3, <1>4, <1>5 DEF Refuses

LEMMA InconsistentMoves ==
  ASSUME NEW n \in Node, NEW st, Kept(n, st), NEW m \in Node \ {n}, NEW pkt \in Frame, NEW outcome,
         Room(st, m, outcome)
  PROVE  LET r == Inconsistent(st, m, pkt, outcome)
         IN  \/ ~Accepts(st, m, "RESPONSE") /\ Refuses(st, r, m, pkt)
             \/ Idles(st, r) \/ Answers(n, st, r, m, "RESPONSE")
<1>1. CASE Accepts(st, m, "RESPONSE")
  <2>1. PICK s \in Find(st, m) : st.trans[s].state = "REQUEST_RECEIVED"
    BY <1>1 DEF Accepts
  <2>2. \A t \in Find(st, m) : t = s
    BY DEF Kept, One, Find
  <2>3. \A t \in Find(st, m) : st.trans[t].state = ReceivedOf("RESPONSE")
    BY <2>1, <2>2 DEF ReceivedOf
  <2>4. Inconsistent(st, m, pkt, outcome) = Answer(st, m, "RESPONSE", outcome)
    BY <1>1 DEF Inconsistent
  <2> QED
    BY <1>1, <2>1, <2>3, <2>4, AnswerMoves
<1>2. CASE ~Accepts(st, m, "RESPONSE")
  BY <1>2, RejectedMoves DEF Inconsistent
<1> QED
  BY <1>1, <1>2

\* a transaction for the request pkt, which waits for the response or sends it at once
Opens(n, st, r, m, pkt) ==
  \E s \in Slot, tq \in Good(n) :
    /\ st.trans[s].state = "UNAVAILABLE"
    /\ tq.peer = m /\ tq.seqno = pkt.seqno /\ tq.request = pkt.request
    /\ \/ tq.state = "REQUEST_RECEIVED" /\ Settles(n, st, r, s, tq)
       \/ Speaks(n, st, r, m, s, tq, "RESPONSE")

LEMMA OpensIs ==
  ASSUME NEW n \in Node, NEW st, Kept(n, st), NEW m \in Node \ {n}, NEW pkt \in Frame, NEW outcome,
         Room(st, m, outcome), Find(st, m) = {}, Unused(st) # {}, st.made = made, made < MaxRequests,
         pkt.cmd = "CLEAR" => st.next[m] \in {0, NULL}
  PROVE  LET st2 == Alloc(st, m, pkt.cmd, pkt.seqno, pkt.request)
             st3 == Transit(st2, The(Find(st2, m)), "REQUEST_RECEIVED")
             st4 == Inconsistent(st3, m, pkt, outcome)
         IN  /\ st3.made = made + 1 /\ st4.made = made + 1
             /\ Opens(n, st, st3, m, pkt) /\ Opens(n, st, st4, m, pkt)
<1> DEFINE st2 == Alloc(st, m, pkt.cmd, pkt.seqno, pkt.request)
           s == The(Find(st2, m))
           st3 == Transit(st2, s, "REQUEST_RECEIVED")
           st4 == Inconsistent(st3, m, pkt, outcome)
           tq == Moved(st2.trans[s], "REQUEST_RECEIVED")
<1>1. /\ Kept(n, st2)
      /\ s \in Listed(st2) /\ st2.trans[s].peer = m /\ st2.trans[s].cmd = pkt.cmd
      /\ st2.trans[s].state = "INIT" /\ st2.trans[s] \in Good(n)
      /\ st2.trans[s].seqno = pkt.seqno /\ st2.trans[s].request = pkt.request
      /\ Find(st2, m) = {s}
      /\ st.trans[s].state = "UNAVAILABLE" /\ st2.trans = [st.trans EXCEPT ![s] = st2.trans[s]]
      /\ st2.queue = st.queue /\ st2.next = st.next /\ st2.made = made + 1
  <2>1. pkt.cmd \in Command \cup {NULL} /\ pkt.seqno \in 0 .. SeqnoMax /\ pkt.request \in 1 .. MaxRequests
    BY DEF Frame
  <2>2. Allocated(n, st, st2, s, m, pkt.cmd, pkt.seqno, pkt.request)
    BY <2>1, AllocKept
  <2> HIDE DEF st2, s
  <2> QED
    BY <2>2 DEF Allocated
<1> HIDE DEF st2, s
<1>2. /\ Settles(n, st2, st3, s, tq) /\ st3.made = st2.made /\ Same(st2.trans[s], tq)
      /\ tq.state = "REQUEST_RECEIVED"
  <2>1. Permitted(st2.trans[s], "REQUEST_RECEIVED") /\ st2 \in Places(n)
    BY <1>1 DEF Permitted, Kept
  <2>2. Goes(n, st2, st3, s, tq, "REQUEST_RECEIVED")
    BY <1>1, <2>1, TransitSets
  <2> HIDE DEF st3, tq
  <2> QED
    BY <2>2 DEF Goes
<1>3. Kept(n, st3)
  BY <1>1, TransitKept
<1> HIDE DEF st3, tq
<1>4. s \in Slot /\ tq \in Good(n) /\ st3.trans = [st.trans EXCEPT ![s] = tq] /\ st3.queue = st.queue
  BY <1>1, <1>2 DEF Settles, Sets
<1>5. tq.peer = m /\ tq.seqno = pkt.seqno /\ tq.request = pkt.request
  BY <1>1, <1>2 DEF Same
<1>6. st3.trans[s] = tq
  <2>1. st.trans \in [Slot -> Good(n)]
    BY PlacesAre DEF Kept
  <2> QED
    BY <1>4, <2>1
<1>7. Find(st3, m) = {s}
  <2>1. s \in Find(st3, m)
    BY <1>2, <1>4, <1>5, <1>6 DEF Find, Listed
  <2> QED
    BY <1>3, <2>1 DEF Kept, One, Find
<1>8. Opens(n, st, st3, m, pkt)
  BY <1>1, <1>2, <1>4, <1>5 DEF Opens, Settles, Sets
<1>9. Accepts(st3, m, "RESPONSE")
  BY <1>2, <1>6, <1>7 DEF Accepts
<1>10. Room(st3, m, outcome)
  BY <1>4 DEF Room
<1>11. st4.made = st3.made
  BY <1>3, <1>10, InconsistentKept
<1>12. Idles(st3, st4) \/ Answers(n, st3, st4, m, "RESPONSE")
  BY <1>3, <1>9, <1>10, InconsistentMoves
<1> HIDE DEF st4
<1>13. CASE Idles(st3, st4)
  <2>1. Opens(n, st, st4, m, pkt)
    BY <1>1, <1>2, <1>4, <1>5, <1>13 DEF Opens, Settles, Sets, Idles
  <2> QED
    BY <1>1, <1>2, <1>8, <1>11, <2>1 DEF st3, st4, st2, s
<1>14. CASE Answers(n, st3, st4, m, "RESPONSE")
  <2>1. PICK t \in Slot, tp \in Good(n) :
          /\ Speaks(n, st3, st4, m, t, tp, "RESPONSE")
          /\ st3.trans[t].state = "REQUEST_RECEIVED" /\ Same(st3.trans[t], tp)
    BY <1>14 DEF Answers, ReceivedOf
  <2>2. t = s
    <3>1. t \in Find(st3, m)
      BY <2>1 DEF Speaks, Same, Find, Listed
    <3> QED
      BY <1>7, <3>1
  <2>3. tp.peer = m /\ tp.seqno = pkt.seqno /\ tp.request = pkt.request
    BY <1>5, <1>6, <2>1, <2>2 DEF Same
  <2>4. st4.trans = [st.trans EXCEPT ![s] = tp]
    BY <1>4, <2>1, <2>2 DEF Speaks, Sets
  <2>5. Speaks(n, st, st4, m, s, tp, "RESPONSE")
    BY <1>1, <1>4, <2>1, <2>2, <2>4 DEF Speaks, Sets, MaySend, Sending
  <2>6. Opens(n, st, st4, m, pkt)
    BY <1>1, <1>4, <2>1, <2>3, <2>5 DEF Opens
  <2> QED
    BY <1>1, <1>2, <1>8, <1>11, <2>6 DEF st3, st4, st2, s
<1> QED
  BY <1>12, <1>13, <1>14

LEMMA InputRequestMoves ==
  ASSUME NEW n \in Node, NEW st, Kept(n, st), NEW m \in Node \ {n}, NEW pkt \in Frame, NEW outcome,
         Room(st, m, outcome), st.made = made, made < MaxRequests
  PROVE  LET r == InputRequest(st, m, pkt, outcome)
         IN  /\ r.made \in {made, made + 1}
             /\ \/ Idles(st, r) \/ Refuses(st, r, m, pkt)
                \/ Answers(n, st, r, m, "RESPONSE") \/ Opens(n, st, r, m, pkt)
<1> DEFINE k == IF pkt.cmd = "CLEAR" /\ st.next[m] # NULL THEN 0 ELSE st.next[m]
           st1 == [st EXCEPT !.next[m] = k]
           st2 == Alloc(st1, m, pkt.cmd, pkt.seqno, pkt.request)
           st3 == Transit(st2, The(Find(st2, m)), "REQUEST_RECEIVED")
           r == InputRequest(st, m, pkt, outcome)
<1>1. /\ k \in 0 .. SeqnoMax \cup {NULL} /\ (k \in {0, NULL} \/ k = st.next[m])
      /\ pkt.cmd = "CLEAR" => k \in {0, NULL}
  <2>1. st.next \in [Node \ {n} -> 0 .. SeqnoMax \cup {NULL}]
    BY PlacesAre DEF Kept
  <2> QED
    BY <2>1, SixpAssumption
<1>2. r = IF Find(st, m) # {}
          THEN IF pkt.cmd # "CLEAR" /\ \E t \in Find(st, m) : (pkt.seqno = 0) # (st.trans[t].seqno = 0)
               THEN Inconsistent(st, m, pkt, outcome) ELSE Rejected(st, m, pkt, outcome)
          ELSE IF Unused(st) = {} THEN Rejected(st1, m, pkt, outcome)
          ELSE IF pkt.cmd # "CLEAR" /\ (IF st.next[m] = NULL THEN pkt.seqno # 0
                                        ELSE st.next[m] # 0 /\ pkt.seqno = 0)
               THEN Inconsistent(st3, m, pkt, outcome) ELSE st3
  BY DEF InputRequest
<1> HIDE DEF k
<1>3. Kept(n, st1)
  BY <1>1, NextKept
<1>4. st1.trans = st.trans /\ st1.queue = st.queue /\ st1.made = st.made /\ st1.next[m] = k
  <2>1. st1 = NextSet(st, m, k)
    BY DEF NextSet
  <2> HIDE DEF st1
  <2> QED
    BY <2>1, NextIs
<1> HIDE DEF st1, st3, r
<1>5. CASE Find(st, m) # {}
  BY <1>2, <1>5, InconsistentMoves, RejectedMoves, InconsistentKept, RejectedKept DEF r
<1>6. CASE Find(st, m) = {} /\ Unused(st) = {}
  <2>1. Room(st1, m, outcome)
    BY <1>4 DEF Room
  <2>2. Refuses(st1, Rejected(st1, m, pkt, outcome), m, pkt) /\ Rejected(st1, m, pkt, outcome).made = st1.made
    BY <1>3, <2>1, RejectedMoves, RejectedKept
  <2>3. Refuses(st, Rejected(st1, m, pkt, outcome), m, pkt)
    BY <1>4, <2>2 DEF Refuses, MaySend
  <2> QED
    BY <1>2, <1>4, <1>6, <2>2, <2>3 DEF r
<1>7. CASE Find(st, m) = {} /\ Unused(st) # {}
  <2>1. Find(st1, m) = {} /\ Unused(st1) # {} /\ Room(st1, m, outcome)
    BY <1>4, <1>7 DEF Find, Listed, Unused, Room
  <2>2. /\ st3.made = made + 1 /\ Inconsistent(st3, m, pkt, outcome).made = made + 1
        /\ Opens(n, st1, st3, m, pkt) /\ Opens(n, st1, Inconsistent(st3, m, pkt, outcome), m, pkt)
    BY <1>1, <1>3, <1>4, <2>1, OpensIs DEF st3
  <2>3. r = st3 \/ r = Inconsistent(st3, m, pkt, outcome)
    BY <1>2, <1>7
  <2>4. Opens(n, st1, r, m, pkt) /\ r.made = made + 1
    BY <2>2, <2>3
  <2>5. Opens(n, st, r, m, pkt)
    <3>1. PICK s \in Slot, tq \in Good(n) :
            /\ st1.trans[s].state = "UNAVAILABLE"
            /\ tq.peer = m /\ tq.seqno = pkt.seqno /\ tq.request = pkt.request
            /\ \/ tq.state = "REQUEST_RECEIVED" /\ Settles(n, st1, r, s, tq)
               \/ Speaks(n, st1, r, m, s, tq, "RESPONSE")
      BY <2>4 DEF Opens
    <3>2. Settles(n, st1, r, s, tq) => Settles(n, st, r, s, tq)
      BY <1>4 DEF Settles, Sets
    <3>3. Speaks(n, st1, r, m, s, tq, "RESPONSE") => Speaks(n, st, r, m, s, tq, "RESPONSE")
      BY <1>4 DEF Speaks, Sets, MaySend
    <3> QED
      BY <1>4, <3>1, <3>2, <3>3 DEF Opens
  <2> QED
    BY <2>4, <2>5 DEF r
<1> QED
  BY <1>5, <1>6, <1>7

\* a transaction that goes on, or ends, without a frame
LEMMA InputAnswerMoves ==
  ASSUME NEW n \in Node, NEW st, Kept(n, st), NEW m \in Node \ {n}, NEW pkt
  PROVE  LET r == InputAnswer(st, m, pkt)
         IN  \/ Idles(st, r)
             \/ \E s \in Taker(st, m, pkt), tq \in Good(n) :
                  /\ Settles(n, st, r, s, tq) /\ Same(st.trans[s], tq)
                  /\ tq.state = Answered(pkt) /\ Permitted(st.trans[s], tq.state)
<1>1. CASE Taker(st, m, pkt) = {}
  BY <1>1 DEF InputAnswer, Idles
<1>2. CASE Taker(st, m, pkt) # {}
  <2> DEFINE s == The(Taker(st, m, pkt))
             tq == Moved(st.trans[s], Answered(pkt))
             r == InputAnswer(st, m, pkt)
  <2>1. s \in Listed(st) /\ s \in Taker(st, m, pkt) /\ Permitted(st.trans[s], Answered(pkt))
    BY <1>2, TakerIs
  <2>2. r = Transit(st, s, Answered(pkt))
    BY <1>2 DEF InputAnswer
  <2> HIDE DEF s, r
  <2>3. Goes(n, st, r, s, tq, Answered(pkt))
    BY <2>1, <2>2, TransitSets DEF Kept
  <2> HIDE DEF tq
  <2>4. Settles(n, st, r, s, tq) /\ Same(st.trans[s], tq) /\ tq.state = Answered(pkt) /\ tq \in Good(n)
    BY <2>3 DEF Goes, Settles
  <2> QED
    BY <2>1, <2>4 DEF r
<1> QED
  BY <1>1, <1>2

LEMMA FreedMoves ==
  ASSUME NEW n \in Node, NEW st, Kept(n, st), NEW s \in Slot, st.trans[s].state \notin Sending
  PROVE  Settles(n, st, Freed(st, s), s, NoTrans)
<1> DEFINE trans1 == [st.trans EXCEPT ![s] = NoTrans]
           r == Freed(st, s)
<1>1. st = [trans |-> st.trans, next |-> st.next, queue |-> st.queue, made |-> st.made]
  BY PlacesAre DEF Kept
<1>2. r = [st EXCEPT !.trans = trans1]
  BY DEF Freed
<1> HIDE DEF r, trans1
<1>3. r.trans = trans1 /\ r.queue = st.queue
  BY <1>1, <1>2
<1>4. NoTrans \in Good(n)
  <2>1. NoTrans \in Transaction
    BY SixpAssumption DEF NoTrans, Transaction, State, Sending
  <2> QED
    BY <2>1 DEF Good, NoTrans, Free
<1> QED
  BY <1>3, <1>4 DEF Settles, Sets, trans1, r

Ended == {"TERMINATING", "REQUEST_SENT", "RESPONSE_SENT", "CONFIRMATION_SENT"}

LEMMA mac_callbackMoves ==
  ASSUME NEW n \in Node, NEW st, Kept(n, st), NEW s \in Slot, NEW ok \in BOOLEAN
  PROVE  LET r == mac_callback(st, s, ok)
         IN  \/ Idles(st, r)
             \/ \E tq \in Good(n) :
                  /\ Settles(n, st, r, s, tq) /\ Wanes(st.trans[s], tq)
                  /\ tq.state \in Ended \cup {"UNAVAILABLE"} /\ st.trans[s].state # "INIT"
<1> DEFINE state == st.trans[s].state
           new == Reported(state, ok)
           to == IF Permitted(st.trans[s], new) THEN new ELSE "TERMINATING"
           r == mac_callback(st, s, ok)
<1>1. CASE state = "WAIT_FREE"
  <2>1. r = Freed(st, s)
    BY <1>1 DEF mac_callback
  <2>2. Settles(n, st, r, s, NoTrans) /\ NoTrans.state = "UNAVAILABLE"
    BY <1>1, <2>1, FreedMoves DEF Sending, NoTrans
  <2> HIDE DEF r
  <2> QED
    BY <1>1, <2>2 DEF Settles, Wanes, r
<1>2. CASE state # "WAIT_FREE" /\ new = state
  BY <1>2 DEF mac_callback, Idles
<1>3. CASE state # "WAIT_FREE" /\ new # state
  <2>1. s \in Listed(st) /\ to \in Ended /\ state # "INIT"
    BY <1>3 DEF Reported, Listed, Ended
  <2>2. r = Transit(st, s, to)
    BY <1>3 DEF mac_callback
  <2>3. Permitted(st.trans[s], to)
    BY DEF Permitted
  <2> DEFINE tq == Moved(st.trans[s], to)
  <2> HIDE DEF to, r
  <2>4. Goes(n, st, r, s, tq, to)
    BY <2>1, <2>2, <2>3, TransitSets DEF Kept
  <2> HIDE DEF tq
  <2>5. Settles(n, st, r, s, tq) /\ Wanes(st.trans[s], tq) /\ tq.state = to /\ tq \in Good(n)
    BY <2>3, <2>4 DEF Goes, Settles, Wanes
  <2> QED
    BY <2>1, <2>5 DEF r
<1> QED
  BY <1>1, <1>2, <1>3

LEMMA process_transMoves ==
  ASSUME NEW n \in Node, NEW st, Kept(n, st), NEW s \in Slot, st.trans[s].timer = "process"
  PROVE  \E tq \in Good(n) :
           /\ Settles(n, st, process_trans(st, s), s, tq) /\ Wanes(st.trans[s], tq)
           /\ \/ Same(st.trans[s], tq) /\ tq.state = st.trans[s].state
              \/ tq.state \in {"TERMINATING", "UNAVAILABLE"} /\ st.trans[s].state \notin Sending
<1> DEFINE tr == st.trans[s]
           r == process_trans(st, s)
<1>1. tr \in Good(n)
  BY PlacesAre DEF Kept
<1>2. s \in Listed(st)
  BY <1>1 DEF Good, Free, Listed
<1>3. CASE tr.state = "TERMINATING"
  <2>1. r = Freed(st, s)
    BY <1>3 DEF process_trans, Finished
  <2>2. Settles(n, st, r, s, NoTrans) /\ NoTrans.state = "UNAVAILABLE" /\ tr.state \notin Sending
    BY <1>3, <2>1, FreedMoves DEF Sending, NoTrans
  <2> HIDE DEF r
  <2> QED
    BY <2>2 DEF Settles, Wanes, r
<1>4. CASE Finished(tr)
  <2>1. r = Transit(st, s, "TERMINATING") /\ Permitted(tr, "TERMINATING") /\ tr.state \notin Sending
    BY <1>4 DEF process_trans, Finished, Permitted, Sending
  <2> DEFINE tq == Moved(tr, "TERMINATING")
  <2> HIDE DEF r
  <2>2. Goes(n, st, r, s, tq, "TERMINATING")
    BY <1>2, <2>1, TransitSets DEF Kept
  <2> HIDE DEF tq
  <2>3. Settles(n, st, r, s, tq) /\ Wanes(tr, tq) /\ tq.state = "TERMINATING" /\ tq \in Good(n)
    BY <2>1, <2>2 DEF Goes, Settles, Wanes
  <2> QED
    BY <2>1, <2>3 DEF r
<1>5. CASE tr.state # "TERMINATING" /\ ~Finished(tr)
  <2> DEFINE tq == [tr EXCEPT !.timer = "timeout"]
             trans1 == [st.trans EXCEPT ![s] = tq]
  <2>1. tq \in Good(n) /\ Same(tr, tq) /\ tq.state = tr.state
    BY <1>1, <1>2 DEF Good, Transaction, Free, Listed, Same
  <2>2. r = [st EXCEPT !.trans = trans1]
    BY <1>5 DEF process_trans
  <2>3. st = [trans |-> st.trans, next |-> st.next, queue |-> st.queue, made |-> st.made]
    BY PlacesAre DEF Kept
  <2> HIDE DEF r, trans1
  <2>4. r.trans = trans1 /\ r.queue = st.queue
    BY <2>2, <2>3
  <2>5. Settles(n, st, r, s, tq) /\ Wanes(tr, tq)
    BY <2>1, <2>4 DEF Settles, Sets, trans1, Wanes
  <2> HIDE DEF tq
  <2> QED
    BY <2>1, <2>5 DEF r
<1> QED
  BY <1>3, <1>4, <1>5

LEMMA EndingMoves ==
  ASSUME NEW n \in Node, NEW st, Kept(n, st), NEW s \in Slot, st.trans[s].timer = "timeout"
  PROVE  \E tq \in Good(n) :
           /\ Settles(n, st, Transit(st, s, "TERMINATING"), s, tq) /\ Wanes(st.trans[s], tq)
           /\ tq.state = "TERMINATING"
<1> DEFINE tq == Moved(st.trans[s], "TERMINATING")
           r == Transit(st, s, "TERMINATING")
<1>1. s \in Listed(st) /\ Permitted(st.trans[s], "TERMINATING")
  <2>1. st.trans[s] \in Good(n)
    BY PlacesAre DEF Kept
  <2> QED
    BY <2>1 DEF Good, Free, Listed, Permitted
<1>2. Goes(n, st, r, s, tq, "TERMINATING")
  BY <1>1, TransitSets DEF Kept
<1> HIDE DEF r, tq
<1> QED
  BY <1>1, <1>2 DEF Goes, Settles, Wanes, r
--------------------------------------------------------------------------------
(* What is known of a request: the transaction that made it, the frames    *)
(* that carry it and its confirmation, and, at the peer, the transaction   *)
(* for it and the responses.                                               *)

Side == {"ask", "reply"}

StatesOf(side) ==
  IF side = "ask"
  THEN {"REQUEST_SENDING", "REQUEST_SENT", "RESPONSE_RECEIVED", "CONFIRMATION_SENDING", "CONFIRMATION_SENT"}
  ELSE {"REQUEST_RECEIVED", "RESPONSE_SENDING", "RESPONSE_SENT", "CONFIRMATION_RECEIVED"}

Takes(tr, side, m, k, q) ==
  tr.peer = m /\ tr.seqno = k /\ tr.request = q /\ tr.state \in StatesOf(side)

Tells(f, side, k, q) ==
  f.seqno = k /\ f.request = q /\ (f.type = "RESPONSE" <=> side = "reply")

\* a place knows of a request q with the SeqNum k that it made to m ("ask") or m made ("reply")
Knows(st, side, m, k, q) ==
  \/ \E s \in Slot : Takes(st.trans[s], side, m, k, q)
  \/ \E i \in DOMAIN st.queue[m] : Tells(st.queue[m][i], side, k, q)

LEMMA SettlesKnows ==
  ASSUME NEW n \in Node, NEW st \in Places(n), NEW r, NEW s, NEW tq, Settles(n, st, r, s, tq),
         NEW side, NEW m, NEW k, NEW q, Knows(r, side, m, k, q)
  PROVE  Knows(st, side, m, k, q) \/ Takes(tq, side, m, k, q)
<1>1. s \in Slot /\ r.trans = [st.trans EXCEPT ![s] = tq] /\ r.queue = st.queue
  BY DEF Settles, Sets
<1>2. st.trans \in [Slot -> Good(n)]
  BY PlacesAre
<1>3. CASE \E i \in DOMAIN r.queue[m] : Tells(r.queue[m][i], side, k, q)
  BY <1>1, <1>3 DEF Knows
<1>4. ASSUME NEW t \in Slot, Takes(r.trans[t], side, m, k, q)
      PROVE  Knows(st, side, m, k, q) \/ Takes(tq, side, m, k, q)
  <2>1. CASE t = s
    BY <1>1, <1>2, <1>4, <2>1
  <2>2. CASE t # s
    <3>1. r.trans[t] = st.trans[t]
      BY <1>1, <1>2, <2>2
    <3> QED
      BY <1>4, <3>1 DEF Knows
  <2> QED
    BY <2>1, <2>2
<1> QED
  BY <1>3, <1>4 DEF Knows

\* a frame that may have been sent
LEMMA MaySendTells ==
  ASSUME NEW n \in Node, NEW st \in Places(n), NEW r, NEW p \in Node \ {n}, NEW f, MaySend(st, r, p, f),
         NEW m \in Node \ {n}, NEW i \in DOMAIN r.queue[m]
  PROVE  \/ i \in DOMAIN st.queue[m] /\ r.queue[m][i] = st.queue[m][i]
         \/ m = p /\ r.queue[m][i] = f /\ i = Len(st.queue[m]) + 1
<1>1. st.queue \in [Node \ {n} -> Fifo] /\ st.queue[m] \in Seq(Frame)
  <2>1. st.queue \in [Node \ {n} -> Fifo]
    BY PlacesAre
  <2> QED
    BY <2>1 DEF Fifo
<1>2. CASE r.queue = st.queue
  BY <1>2
<1>3. CASE r.queue = [st.queue EXCEPT ![p] = Append(@, f)]
  <2>1. CASE m # p
    BY <1>1, <1>3, <2>1
  <2>2. CASE m = p
    <3>1. r.queue[m] = Append(st.queue[m], f)
      BY <1>1, <1>3, <2>2
    <3>2. DOMAIN st.queue[m] = 1 .. Len(st.queue[m]) /\ DOMAIN r.queue[m] = 1 .. Len(st.queue[m]) + 1
      BY <1>1, <3>1
    <3> QED
      BY <1>1, <2>2, <3>1, <3>2
  <2> QED
    BY <2>1, <2>2
<1> QED
  BY <1>2, <1>3 DEF MaySend

LEMMA SpeaksKnows ==
  ASSUME NEW n \in Node, NEW st \in Places(n), NEW r, NEW p \in Node \ {n}, NEW s, NEW tq, NEW type \in Type,
         Speaks(n, st, r, p, s, tq, type),
         NEW side \in Side, NEW m \in Node \ {n}, NEW k, NEW q, Knows(r, side, m, k, q)
  PROVE  Knows(st, side, m, k, q) \/ Takes(tq, side, m, k, q)
<1>1. /\ s \in Slot /\ tq.peer = p /\ tq.state = SendingOf(type)
      /\ r.trans = [st.trans EXCEPT ![s] = tq] /\ MaySend(st, r, p, FrameOf(type, tq, s))
  BY DEF Speaks, Sets
<1>2. st.trans \in [Slot -> Good(n)]
  BY PlacesAre
<1>3. ASSUME NEW i \in DOMAIN r.queue[m], Tells(r.queue[m][i], side, k, q)
      PROVE  Knows(st, side, m, k, q) \/ Takes(tq, side, m, k, q)
  <2>1. CASE i \in DOMAIN st.queue[m] /\ r.queue[m][i] = st.queue[m][i]
    BY <1>3, <2>1 DEF Knows
  <2>2. CASE m = p /\ r.queue[m][i] = FrameOf(type, tq, s)
    <3>1. Tells(FrameOf(type, tq, s), side, k, q)
      BY <1>3, <2>2
    <3>2. tq.seqno = k /\ tq.request = q /\ (type = "RESPONSE" <=> side = "reply")
      BY <3>1 DEF Tells, FrameOf
    <3>3. SendingOf(type) \in StatesOf(side)
      BY <3>2 DEF SendingOf, StatesOf, Side, Type
    <3> QED
      BY <1>1, <2>2, <3>2, <3>3 DEF Takes
  <2> DEFINE f == FrameOf(type, tq, s)
  <2>3. MaySend(st, r, p, f)
    BY <1>1
  <2> HIDE DEF f
  <2>4. \/ i \in DOMAIN st.queue[m] /\ r.queue[m][i] = st.queue[m][i]
        \/ m = p /\ r.queue[m][i] = f /\ i = Len(st.queue[m]) + 1
    BY <2>3, MaySendTells
  <2> QED
    BY <2>1, <2>2, <2>4 DEF f
<1>4. ASSUME NEW t \in Slot, Takes(r.trans[t], side, m, k, q)
      PROVE  Knows(st, side, m, k, q) \/ Takes(tq, side, m, k, q)
  <2>1. CASE t = s
    BY <1>1, <1>2, <1>4, <2>1
  <2>2. CASE t # s
    <3>1. r.trans[t] = st.trans[t]
      BY <1>1, <1>2, <2>2
    <3> QED
      BY <1>4, <3>1 DEF Knows
  <2> QED
    BY <2>1, <2>2
<1> QED
  BY <1>3, <1>4 DEF Knows

LEMMA RefusesKnows ==
  ASSUME NEW n \in Node, NEW st \in Places(n), NEW r, NEW p \in Node \ {n}, NEW pkt \in Frame,
         Refuses(st, r, p, pkt),
         NEW side \in Side, NEW m \in Node \ {n}, NEW k, NEW q, Knows(r, side, m, k, q)
  PROVE  \/ Knows(st, side, m, k, q)
         \/ side = "reply" /\ m = p /\ k = pkt.seqno /\ q = pkt.request
<1>1. r.trans = st.trans /\ MaySend(st, r, p, RejectionOf(pkt))
  BY DEF Refuses
<1>2. ASSUME NEW i \in DOMAIN r.queue[m], Tells(r.queue[m][i], side, k, q)
      PROVE  \/ Knows(st, side, m, k, q)
             \/ side = "reply" /\ m = p /\ k = pkt.seqno /\ q = pkt.request
  <2>1. CASE i \in DOMAIN st.queue[m] /\ r.queue[m][i] = st.queue[m][i]
    BY <1>2, <2>1 DEF Knows
  <2>2. CASE m = p /\ r.queue[m][i] = RejectionOf(pkt)
    <3>1. Tells(RejectionOf(pkt), side, k, q)
      BY <1>2, <2>2
    <3>2. /\ RejectionOf(pkt).seqno = pkt.seqno /\ RejectionOf(pkt).request = pkt.request
          /\ RejectionOf(pkt).type = "RESPONSE"
      BY DEF RejectionOf, Frame
    <3> QED
      BY <2>2, <3>1, <3>2 DEF Tells
  <2> DEFINE f == RejectionOf(pkt)
  <2>3. MaySend(st, r, p, f)
    BY <1>1
  <2> HIDE DEF f
  <2>4. \/ i \in DOMAIN st.queue[m] /\ r.queue[m][i] = st.queue[m][i]
        \/ m = p /\ r.queue[m][i] = f /\ i = Len(st.queue[m]) + 1
    BY <2>3, MaySendTells
  <2> QED
    BY <2>1, <2>2, <2>4 DEF f
<1> QED
  BY <1>1, <1>2 DEF Knows

\* a transaction that goes on stays with its request
LEMMA WanesTakes ==
  ASSUME NEW tr, NEW tq, Wanes(tr, tq), tr.state # "INIT" \/ tq.state \in {tr.state, "TERMINATING", "UNAVAILABLE"},
         NEW side, NEW m, NEW k, NEW q, Takes(tq, side, m, k, q)
  PROVE  Takes(tr, side, m, k, q)
<1>1. tq.state \in StatesOf(side)
  BY DEF Takes
<1>2. tq # NoTrans /\ tq.state \notin {"TERMINATING", "UNAVAILABLE"}
  BY <1>1 DEF NoTrans, StatesOf
<1>3. Same(tr, tq) /\ (tq.state = tr.state \/ Permitted(tr, tq.state))
  BY <1>2 DEF Wanes
<1>4. tr.state \in StatesOf(side)
  <2>1. CASE tq.state = tr.state
    BY <1>1, <2>1
  <2>2. CASE tr.state # "INIT" /\ Permitted(tr, tq.state)
    BY <1>1, <2>2 DEF StatesOf, Permitted
  <2> QED
    BY <1>2, <1>3, <2>1, <2>2
<1> QED
  BY <1>3, <1>4 DEF Same, Takes
--------------------------------------------------------------------------------
(* The SeqNum of a request that anybody still knows of tells the request.  *)

Pair(T, Q, a) == [trans |-> T[a], queue |-> Q[a]]

About(T, Q, a, b, k, q) == Knows(Pair(T, Q, a), "ask", b, k, q) \/ Knows(Pair(T, Q, b), "reply", a, k, q)

\* it is smaller than the next one, and that of no other request
Tellable(T, Q, N) ==
  \A a \in Node : \A b \in Node \ {a}, k \in 0 .. SeqnoMax : \A q :
    About(T, Q, a, b, k, q) =>
      /\ N[a][b] # NULL /\ k < N[a][b]
      /\ \A p : About(T, Q, a, b, k, p) => p = q

Numbers(N) == \A a \in Node : \A b \in Node \ {a} : N[a][b] \in 0 .. SeqnoMax \cup {NULL}

Advances(N, N1) == \A a \in Node : \A b \in Node \ {a} : ~Recedes(N[a][b], N1[a][b])

LEMMA TellableStays ==
  ASSUME NEW T, NEW Q, NEW N, NEW T1, NEW Q1, NEW N1, Tellable(T, Q, N), Numbers(N), Numbers(N1),
         Advances(N, N1),
         \A a \in Node : \A b \in Node \ {a}, k \in 0 .. SeqnoMax : \A q :
           About(T1, Q1, a, b, k, q) => About(T, Q, a, b, k, q)
  PROVE  Tellable(T1, Q1, N1)
<1> SUFFICES ASSUME NEW a \in Node, NEW b \in Node \ {a}, NEW k \in 0 .. SeqnoMax, NEW q,
                    About(T1, Q1, a, b, k, q)
             PROVE  /\ N1[a][b] # NULL /\ k < N1[a][b]
                    /\ \A p : About(T1, Q1, a, b, k, p) => p = q
  BY DEF Tellable
<1>1. N[a][b] # NULL /\ k < N[a][b] /\ \A p : About(T, Q, a, b, k, p) => p = q
  BY DEF Tellable
<1>2. N1[a][b] # NULL /\ ~(N1[a][b] < N[a][b])
  BY <1>1 DEF Advances, Recedes
<1>3. N[a][b] \in Int /\ N1[a][b] \in Int
  BY <1>1, <1>2, SixpAssumption DEF Numbers
<1> QED
  BY <1>1, <1>2, <1>3

LEMMA TellableGrows ==
  ASSUME NEW T, NEW Q, NEW N, NEW T1, NEW Q1, NEW N1, Tellable(T, Q, N), Numbers(N), Numbers(N1),
         Advances(N, N1), NEW n \in Node, NEW m \in Node \ {n}, NEW k0, NEW q0,
         k0 = IF N[n][m] = NULL THEN 0 ELSE N[n][m],
         N1[n][m] = Increment(k0),
         \A a \in Node : \A b \in Node \ {a}, k \in 0 .. SeqnoMax : \A q :
           About(T1, Q1, a, b, k, q) =>
             About(T, Q, a, b, k, q) \/ (a = n /\ b = m /\ k = k0 /\ q = q0)
  PROVE  Tellable(T1, Q1, N1)
<1>1. k0 \in 0 .. SeqnoMax /\ N1[n][m] # NULL /\ N1[n][m] = k0 + 1
  <2>1. k0 \in 0 .. SeqnoMax
    BY SixpAssumption DEF Numbers
  <2>2. k0 # SeqnoMax
    <3>1. ~Recedes(N[n][m], N1[n][m])
      BY DEF Advances
    <3> QED
      BY <2>1, <3>1, SixpAssumption DEF Recedes, Increment
  <2> QED
    BY <2>1, <2>2, SixpAssumption DEF Increment
<1>2. \A q : ~About(T, Q, n, m, k0, q)
  <2>1. ASSUME NEW q, About(T, Q, n, m, k0, q)
        PROVE  FALSE
    <3>1. N[n][m] # NULL /\ k0 < N[n][m]
      BY <1>1, <2>1 DEF Tellable
    <3> QED
      BY <1>1, <3>1
  <2> QED
    BY <2>1
<1> SUFFICES ASSUME NEW a \in Node, NEW b \in Node \ {a}, NEW k \in 0 .. SeqnoMax, NEW q,
                    About(T1, Q1, a, b, k, q)
             PROVE  /\ N1[a][b] # NULL /\ k < N1[a][b]
                    /\ \A p : About(T1, Q1, a, b, k, p) => p = q
  BY DEF Tellable
<1>3. CASE a = n /\ b = m /\ k = k0
  <2>1. \A p : About(T1, Q1, a, b, k, p) => p = q0
    BY <1>2, <1>3
  <2> QED
    BY <1>1, <1>3, <2>1
<1>4. CASE ~(a = n /\ b = m /\ k = k0)
  <2>1. \A p : About(T1, Q1, a, b, k, p) => About(T, Q, a, b, k, p)
    BY <1>4
  <2>2. N[a][b] # NULL /\ k < N[a][b] /\ \A p : About(T, Q, a, b, k, p) => p = q
    BY <2>1 DEF Tellable
  <2>3. N1[a][b] # NULL /\ ~(N1[a][b] < N[a][b])
    BY <2>2 DEF Advances, Recedes
  <2>4. N[a][b] \in Int /\ N1[a][b] \in Int
    BY <2>2, <2>3, SixpAssumption DEF Numbers
  <2> QED
    BY <2>1, <2>2, <2>3, <2>4
<1> QED
  BY <1>3, <1>4

LEMMA NumbersAre ==
  ASSUME SInv
  PROVE  Numbers(next_seqno)
<1>1. ASSUME NEW a \in Node, NEW b \in Node \ {a}
      PROVE  next_seqno[a][b] \in 0 .. SeqnoMax \cup {NULL}
  <2>1. Local(a).next = next_seqno[a] /\ Local(a) \in Places(a)
    BY LocalIs DEF SInv, Kept
  <2> QED
    BY <2>1, PlacesAre
<1> QED
  BY <1>1 DEF Numbers

LEMMA AdvancesIs ==
  ASSUME SInv, NEW n \in Node, NEW st, Assign(n, st), ~receded'
  PROVE  Advances(next_seqno, next_seqno')
<1>1. next_seqno' = [next_seqno EXCEPT ![n] = st.next]
  BY DEF Assign
<1>2. \A m \in Node \ {n} : ~Recedes(next_seqno[n][m], st.next[m])
  BY DEF Assign
<1>3. next_seqno'[n] = st.next /\ \A a \in Node \ {n} : next_seqno'[a] = next_seqno[a]
  BY <1>1 DEF SInv
<1>4. ASSUME NEW a \in Node \ {n}, NEW b \in Node \ {a}
      PROVE  ~Recedes(next_seqno[a][b], next_seqno[a][b])
  <2>1. next_seqno[a][b] \in 0 .. SeqnoMax \cup {NULL}
    BY NumbersAre DEF Numbers
  <2> QED
    BY <2>1, SixpAssumption DEF Recedes
<1>5. ASSUME NEW a \in Node, NEW b \in Node \ {a}
      PROVE  ~Recedes(next_seqno[a][b], next_seqno'[a][b])
  <2>1. CASE a = n
    BY <1>2, <1>3, <2>1
  <2>2. CASE a # n
    BY <1>3, <1>4, <2>2
  <2> QED
    BY <2>1, <2>2
<1> QED
  BY <1>5 DEF Advances

LEMMA KnowsIs ==
  ASSUME NEW st, NEW r, r.trans = st.trans, r.queue = st.queue,
         NEW side, NEW m, NEW k, NEW q
  PROVE  Knows(r, side, m, k, q) <=> Knows(st, side, m, k, q)
BY DEF Knows
--------------------------------------------------------------------------------
(* A step of a node that sends no request makes nobody know of another one.*)

Told == Tellable(trans, queue, next_seqno)

\* one frame, heard or not
Alike(f, g) ==
  f.seqno = g.seqno /\ f.request = g.request /\ f.type = g.type /\ f.slot = g.slot /\ f.id = g.id

\* after a step of n, where the handler left st, nobody knows more than st and the others did
Shows(n, st, T1, Q1) ==
  \A side \in Side, a \in Node : \A b \in Node \ {a}, k \in 0 .. SeqnoMax : \A q :
    Knows(Pair(T1, Q1, a), side, b, k, q) =>
      Knows(IF a = n THEN st ELSE Pair(trans, queue, a), side, b, k, q)

LEMMA ShowsIs ==
  ASSUME SInv, NEW n \in Node, NEW st, Assign(n, st), NEW Q1,
         \A a \in Node : \A b \in Node \ {a} : \A i \in DOMAIN Q1[a][b] :
           \E j \in DOMAIN (IF a = n THEN st.queue ELSE queue[a])[b] :
             Alike(Q1[a][b][i], (IF a = n THEN st.queue ELSE queue[a])[b][j])
  PROVE  Shows(n, st, trans', Q1)
<1> SUFFICES ASSUME NEW side \in Side, NEW a \in Node, NEW b \in Node \ {a}, NEW k \in 0 .. SeqnoMax, NEW q,
                    Knows(Pair(trans', Q1, a), side, b, k, q)
             PROVE  Knows(IF a = n THEN st ELSE Pair(trans, queue, a), side, b, k, q)
  BY DEF Shows
<1> DEFINE was == IF a = n THEN st ELSE Pair(trans, queue, a)
           now == Pair(trans', Q1, a)
<1>1. now.trans = was.trans
  <2>1. trans' = [trans EXCEPT ![n] = st.trans]
    BY DEF Assign
  <2> QED
    BY <2>1 DEF SInv, Pair
<1>2. was.queue = (IF a = n THEN st.queue ELSE queue[a]) /\ now.queue = Q1[a]
  BY DEF Pair
<1> HIDE DEF was, now
<1>3. \A i \in DOMAIN now.queue[b] : \E j \in DOMAIN was.queue[b] : Alike(now.queue[b][i], was.queue[b][j])
  BY <1>2
<1>4. CASE \E s \in Slot : Takes(now.trans[s], side, b, k, q)
  BY <1>1, <1>4 DEF Knows, was
<1>5. ASSUME NEW i \in DOMAIN now.queue[b], Tells(now.queue[b][i], side, k, q)
      PROVE  Knows(was, side, b, k, q)
  <2>1. PICK j \in DOMAIN was.queue[b] : Alike(now.queue[b][i], was.queue[b][j])
    BY <1>3
  <2>2. Tells(was.queue[b][j], side, k, q)
    BY <1>5, <2>1 DEF Alike, Tells
  <2> QED
    BY <2>2 DEF Knows
<1> QED
  BY <1>4, <1>5 DEF Knows, was, now

LEMMA KnowsLocal ==
  ASSUME NEW a \in Node, NEW side, NEW b, NEW k, NEW q
  PROVE  Knows(Local(a), side, b, k, q) <=> Knows(Pair(trans, queue, a), side, b, k, q)
<1>1. Local(a).trans = Pair(trans, queue, a).trans /\ Local(a).queue = Pair(trans, queue, a).queue
  BY LocalIs DEF Pair
<1> QED
  BY <1>1, KnowsIs

\* a step of n that sends no request
LEMMA QuietTold ==
  ASSUME SInv, SInv', Told, ~receded', NEW n \in Node, NEW st, Assign(n, st),
         Shows(n, st, trans', queue'),
         \A side \in Side, m \in Node \ {n}, k \in 0 .. SeqnoMax : \A q :
           Knows(st, side, m, k, q) =>
             Knows(Local(n), side, m, k, q) \/ (side = "reply" /\ About(trans, queue, m, n, k, q))
  PROVE  Told'
<1>1. Numbers(next_seqno) /\ Numbers(next_seqno')
  <2>1. Numbers(next_seqno)'
    BY NumbersAre, PTL
  <2> QED
    BY <2>1, NumbersAre DEF Numbers
<1>2. Advances(next_seqno, next_seqno')
  BY AdvancesIs
<1>3. ASSUME NEW a \in Node, NEW b \in Node \ {a}, NEW k \in 0 .. SeqnoMax, NEW q,
             About(trans', queue', a, b, k, q)
      PROVE  About(trans, queue, a, b, k, q)
  <2>1. CASE Knows(Pair(trans', queue', a), "ask", b, k, q)
    <3>1. Knows(IF a = n THEN st ELSE Pair(trans, queue, a), "ask", b, k, q)
      BY <2>1 DEF Shows, Side
    <3>2. Knows(Pair(trans, queue, a), "ask", b, k, q)
      BY <3>1, KnowsLocal DEF Side
    <3> QED
      BY <3>2 DEF About
  <2>2. CASE Knows(Pair(trans', queue', b), "reply", a, k, q)
    <3>1. Knows(IF b = n THEN st ELSE Pair(trans, queue, b), "reply", a, k, q)
      BY <2>2 DEF Shows, Side
    <3>2. Knows(Pair(trans, queue, b), "reply", a, k, q) \/ About(trans, queue, a, b, k, q)
      BY <3>1, KnowsLocal DEF Side
    <3> QED
      BY <3>2 DEF About
  <2> QED
    BY <1>3, <2>1, <2>2 DEF About
<1>4. Tellable(trans', queue', next_seqno')
  BY <1>1, <1>2, <1>3, TellableStays DEF Told
<1> QED
  BY <1>4 DEF Told

\* queues that keep their frames, or lose some
LEMMA QueuesShow ==
  ASSUME SInv, NEW n \in Node, NEW st, Assign(n, st), st.queue = queue[n], queue' = queue
  PROVE  Shows(n, st, trans', queue')
<1>1. \A a \in Node : \A b \in Node \ {a} : \A i \in DOMAIN queue'[a][b] :
        \E j \in DOMAIN (IF a = n THEN st.queue ELSE queue[a])[b] :
          Alike(queue'[a][b][i], (IF a = n THEN st.queue ELSE queue[a])[b][j])
  BY DEF Alike
<1> QED
  BY <1>1, ShowsIs

LEMMA HandlerShows ==
  ASSUME SInv, NEW n \in Node, NEW st, Assign(n, st), queue' = [queue EXCEPT ![n] = st.queue]
  PROVE  Shows(n, st, trans', queue')
<1>1. queue'[n] = st.queue /\ \A a \in Node \ {n} : queue'[a] = queue[a]
  BY DEF SInv
<1>2. \A a \in Node : \A b \in Node \ {a} : \A i \in DOMAIN queue'[a][b] :
        \E j \in DOMAIN (IF a = n THEN st.queue ELSE queue[a])[b] :
          Alike(queue'[a][b][i], (IF a = n THEN st.queue ELSE queue[a])[b][j])
  BY <1>1 DEF Alike
<1> QED
  BY <1>2, ShowsIs

LEMMA WanesKnows ==
  ASSUME NEW n \in Node, NEW st \in Places(n), NEW r, NEW s, NEW tq, Settles(n, st, r, s, tq),
         Wanes(st.trans[s], tq),
         st.trans[s].state # "INIT" \/ tq.state \in {st.trans[s].state, "TERMINATING", "UNAVAILABLE"},
         NEW side, NEW m, NEW k, NEW q, Knows(r, side, m, k, q)
  PROVE  Knows(st, side, m, k, q)
<1>1. CASE Takes(tq, side, m, k, q)
  <2>1. Takes(st.trans[s], side, m, k, q) /\ s \in Slot
    BY <1>1, WanesTakes DEF Settles
  <2> QED
    BY <2>1 DEF Knows
<1> QED
  BY <1>1, SettlesKnows

LEMMA ProcessTimerTold ==
  ASSUME SInv, SInv', Told, ~receded', NEW n \in Node, NEW s \in Slot, ProcessTimer(n, s)
  PROVE  Told'
<1> DEFINE st == process_trans(Local(n), s)
<1>1. Kept(n, Local(n)) /\ Local(n).trans[s].timer = "process" /\ Local(n).queue = queue[n]
  BY LocalIs DEF SInv, ProcessTimer
<1>2. Assign(n, st) /\ queue' = queue
  BY DEF ProcessTimer
<1>3. PICK tq \in Good(n) :
        /\ Settles(n, Local(n), st, s, tq) /\ Wanes(Local(n).trans[s], tq)
        /\ \/ Same(Local(n).trans[s], tq) /\ tq.state = Local(n).trans[s].state
           \/ tq.state \in {"TERMINATING", "UNAVAILABLE"} /\ Local(n).trans[s].state \notin Sending
  BY <1>1, process_transMoves
<1> HIDE DEF st
<1>4. \A side, m, k, q : Knows(st, side, m, k, q) => Knows(Local(n), side, m, k, q)
  BY <1>1, <1>3, WanesKnows DEF Kept
<1>5. Shows(n, st, trans', queue')
  BY <1>1, <1>2, <1>3, QueuesShow DEF Settles
<1> QED
  BY <1>2, <1>4, <1>5, QuietTold

LEMMA TimeoutTold ==
  ASSUME SInv, SInv', Told, ~receded', NEW n \in Node, NEW s \in Slot, Timeout(n, s)
  PROVE  Told'
<1> DEFINE st == Transit(Local(n), s, "TERMINATING")
<1>1. Kept(n, Local(n)) /\ Local(n).trans[s].timer = "timeout" /\ Local(n).queue = queue[n]
  BY LocalIs DEF SInv, Timeout
<1>2. Assign(n, st) /\ queue' = queue
  BY DEF Timeout
<1>3. PICK tq \in Good(n) :
        /\ Settles(n, Local(n), st, s, tq) /\ Wanes(Local(n).trans[s], tq)
        /\ tq.state = "TERMINATING"
  BY <1>1, EndingMoves
<1> HIDE DEF st
<1>4. \A side, m, k, q : Knows(st, side, m, k, q) => Knows(Local(n), side, m, k, q)
  BY <1>1, <1>3, WanesKnows DEF Kept
<1>5. Shows(n, st, trans', queue')
  BY <1>1, <1>2, <1>3, QueuesShow DEF Settles
<1> QED
  BY <1>2, <1>4, <1>5, QuietTold

LEMMA DoneTold ==
  ASSUME SInv, SInv', Told, ~receded', NEW n \in Node, NEW m \in Node \ {n}, NEW ok \in BOOLEAN, Done(n, m, ok)
  PROVE  Told'
<1> DEFINE pkt == Head(queue[n][m])
           st == IF pkt.slot = 0 THEN Local(n) ELSE mac_callback(Local(n), pkt.slot, ok)
           q1 == [queue[n] EXCEPT ![m] = Tail(@)]
<1>1. Kept(n, Local(n)) /\ Local(n).queue = queue[n] /\ Queued
  BY LocalIs, QueuedIs DEF SInv
<1>2. queue[n][m] \in Seq(Frame) /\ queue[n][m] # <<>> /\ queue[n] \in [Node \ {n} -> Fifo]
  BY <1>1 DEF Queued, Done, Fifo
<1>3. pkt.slot \in Slot \cup {0}
  <2>1. pkt \in Frame
    BY <1>2
  <2> QED
    BY <2>1 DEF Frame
<1>4. Assign(n, st) /\ queue' = [queue EXCEPT ![n] = q1]
  BY DEF Done
<1> HIDE DEF pkt
<1>5. Idles(Local(n), st) \/
      \E tq \in Good(n) :
        /\ Settles(n, Local(n), st, pkt.slot, tq) /\ Wanes(Local(n).trans[pkt.slot], tq)
        /\ Local(n).trans[pkt.slot].state # "INIT"
  <2>1. CASE pkt.slot = 0
    BY <2>1 DEF Idles
  <2>2. CASE pkt.slot # 0
    BY <1>1, <1>3, <2>2, mac_callbackMoves
  <2> QED
    BY <2>1, <2>2
<1> HIDE DEF st, q1
<1>6. st.queue = queue[n]
  BY <1>1, <1>5 DEF Idles, Settles
<1>7. \A side, p, k, q : Knows(st, side, p, k, q) => Knows(Local(n), side, p, k, q)
  <2>1. CASE Idles(Local(n), st)
    BY <2>1, KnowsIs DEF Idles
  <2>2. ASSUME NEW tq \in Good(n),
               Settles(n, Local(n), st, pkt.slot, tq), Wanes(Local(n).trans[pkt.slot], tq),
               Local(n).trans[pkt.slot].state # "INIT"
        PROVE  \A side, p, k, q : Knows(st, side, p, k, q) => Knows(Local(n), side, p, k, q)
    BY <1>1, <2>2, WanesKnows DEF Kept
  <2> QED
    BY <1>5, <2>1, <2>2
<1>8. ASSUME NEW a \in Node, NEW b \in Node \ {a}, NEW i \in DOMAIN queue'[a][b]
      PROVE  \E j \in DOMAIN (IF a = n THEN st.queue ELSE queue[a])[b] :
               Alike(queue'[a][b][i], (IF a = n THEN st.queue ELSE queue[a])[b][j])
  <2>1. queue'[a] = IF a = n THEN q1 ELSE queue[a]
    BY <1>1, <1>4 DEF Queued
  <2>2. CASE a = n /\ b = m
    <3>1. queue'[a][b] = Tail(queue[n][m])
      BY <1>2, <2>1, <2>2 DEF q1
    <3>2. i \in 1 .. Len(queue[n][m]) - 1 /\ queue'[a][b][i] = queue[n][m][i + 1]
      BY <1>2, <3>1
    <3>3. i + 1 \in DOMAIN queue[n][m]
      BY <1>2, <3>2
    <3> QED
      BY <1>6, <2>2, <3>2, <3>3 DEF Alike
  <2>3. CASE ~(a = n /\ b = m)
    <3>1. queue'[a][b] = queue[a][b]
      BY <1>2, <2>1, <2>3 DEF q1
    <3> QED
      BY <1>6, <3>1 DEF Alike
  <2> QED
    BY <2>2, <2>3
<1>9. Shows(n, st, trans', queue')
  BY <1>4, <1>8, ShowsIs
<1> QED
  BY <1>4, <1>7, <1>9, QuietTold

LEMMA AnswersKnows ==
  ASSUME NEW n \in Node, NEW st \in Places(n), NEW r, NEW p \in Node \ {n}, NEW type \in {"RESPONSE", "CONFIRMATION"},
         Answers(n, st, r, p, type),
         NEW side \in Side, NEW m \in Node \ {n}, NEW k, NEW q, Knows(r, side, m, k, q)
  PROVE  Knows(st, side, m, k, q)
<1>1. PICK s \in Slot, tq \in Good(n) :
        Speaks(n, st, r, p, s, tq, type) /\ st.trans[s].state = ReceivedOf(type) /\ Same(st.trans[s], tq)
  BY DEF Answers
<1>2. Knows(st, side, m, k, q) \/ Takes(tq, side, m, k, q)
  BY <1>1, SpeaksKnows DEF Type
<1>3. CASE Takes(tq, side, m, k, q)
  <2>1. tq.state = SendingOf(type)
    BY <1>1 DEF Speaks
  <2>2. Takes(st.trans[s], side, m, k, q)
    BY <1>1, <1>3, <2>1 DEF Takes, Same, SendingOf, ReceivedOf, StatesOf
  <2> QED
    BY <2>2 DEF Knows
<1> QED
  BY <1>2, <1>3

LEMMA SendAnswerTold ==
  ASSUME SInv, SInv', Told, ~receded', NEW n \in Node, NEW m \in Node \ {n},
         NEW type \in {"RESPONSE", "CONFIRMATION"}, SendAnswer(n, m, type)
  PROVE  Told'
<1>1. PICK outcome \in Outcomes(n, m) :
         /\ Assign(n, Answer(Local(n), m, type, outcome))
         /\ queue' = [queue EXCEPT ![n] = Answer(Local(n), m, type, outcome).queue]
  BY DEF SendAnswer
<1> DEFINE st == Answer(Local(n), m, type, outcome)
<1>2. Kept(n, Local(n)) /\ Find(Local(n), m) # {}
  BY DEF SInv, SendAnswer, Accepts
<1>3. \A s \in Find(Local(n), m) : Local(n).trans[s].state = ReceivedOf(type)
  <2>1. PICK s \in Find(Local(n), m) : Local(n).trans[s].state = ReceivedOf(type)
    BY DEF SendAnswer, Accepts, ReceivedOf
  <2>2. \A t \in Find(Local(n), m) : t = s
    BY <1>2 DEF Kept, One, Find
  <2> QED
    BY <2>1, <2>2
<1>4. type = "CONFIRMATION" => \A s \in Find(Local(n), m) : ThreeStep(Local(n).trans[s])
  BY LocalIs DEF SendAnswer
<1>5. Room(Local(n), m, outcome)
  BY RoomIs
<1>6. Idles(Local(n), st) \/ Answers(n, Local(n), st, m, type)
  BY <1>2, <1>3, <1>4, <1>5, AnswerMoves
<1> HIDE DEF st
<1>7. \A side \in Side, p \in Node \ {n} : \A k, q : Knows(st, side, p, k, q) => Knows(Local(n), side, p, k, q)
  <2>1. CASE Idles(Local(n), st)
    BY <2>1, KnowsIs DEF Idles
  <2>2. CASE Answers(n, Local(n), st, m, type)
    BY <1>2, <2>2, AnswersKnows DEF Kept
  <2> QED
    BY <1>6, <2>1, <2>2
<1>8. Shows(n, st, trans', queue')
  BY <1>1, HandlerShows DEF st
<1> QED
  BY <1>1, <1>7, <1>8, QuietTold DEF st

LEMMA OpensKnows ==
  ASSUME NEW n \in Node, NEW st \in Places(n), NEW r, NEW p \in Node \ {n}, NEW pkt, Opens(n, st, r, p, pkt),
         NEW side \in Side, NEW m \in Node \ {n}, NEW k, NEW q, Knows(r, side, m, k, q)
  PROVE  \/ Knows(st, side, m, k, q)
         \/ side = "reply" /\ m = p /\ k = pkt.seqno /\ q = pkt.request
<1>1. PICK s \in Slot, tq \in Good(n) :
        /\ st.trans[s].state = "UNAVAILABLE"
        /\ tq.peer = p /\ tq.seqno = pkt.seqno /\ tq.request = pkt.request
        /\ \/ tq.state = "REQUEST_RECEIVED" /\ Settles(n, st, r, s, tq)
           \/ Speaks(n, st, r, p, s, tq, "RESPONSE")
  BY DEF Opens
<1>2. Knows(st, side, m, k, q) \/ Takes(tq, side, m, k, q)
  BY <1>1, SpeaksKnows, SettlesKnows DEF Type
<1>3. CASE Takes(tq, side, m, k, q)
  <2>1. tq.state \in {"REQUEST_RECEIVED", "RESPONSE_SENDING"}
    BY <1>1 DEF Speaks, SendingOf
  <2> QED
    BY <1>1, <1>3, <2>1 DEF Takes, StatesOf, Side
<1> QED
  BY <1>2, <1>3

\* the frame at the head of m's queue for n is heard and stays in it, while n's queues become q
Marks(n, m, q, Q1) ==
  /\ Q1[n] = q
  /\ \A a \in Node \ {m, n} : Q1[a] = queue[a]
  /\ \A b \in Node \ {m, n} : Q1[m][b] = queue[m][b]
  /\ DOMAIN Q1[m][n] = DOMAIN queue[m][n] /\ 1 \in DOMAIN queue[m][n]
  /\ Q1[m][n][1].heard /\ Alike(Q1[m][n][1], queue[m][n][1])
  /\ \A i \in DOMAIN queue[m][n] : i # 1 => Q1[m][n][i] = queue[m][n][i]

LEMMA InputMarks ==
  ASSUME SInv, NEW n \in Node, NEW m \in Node \ {n}, NEW st, queue[m][n] # <<>>,
         queue' = [queue EXCEPT ![n] = st.queue, ![m][n][1].heard = TRUE]
  PROVE  Marks(n, m, st.queue, queue')
<1>1. Queued /\ n \in Node \ {m}
  BY QueuedIs
<1> DEFINE q1 == [queue EXCEPT ![n] = st.queue]
           yes == TRUE
           f == queue[m][n][1]
           g == [f EXCEPT !.heard = yes]
           heard == [queue[m][n] EXCEPT ![1] = g]
           q2 == [queue[m] EXCEPT ![n] = heard]
<1>2. queue[m][n] \in Seq(Frame) /\ 1 \in DOMAIN queue[m][n] /\ queue[m] \in [Node \ {m} -> Fifo]
  <2>1. queue[m] \in [Node \ {m} -> Fifo]
    BY <1>1 DEF Queued
  <2>2. queue[m][n] \in Seq(Frame)
    BY <1>1, <2>1 DEF Fifo
  <2> QED
    BY <2>1, <2>2
<1>3. f \in Frame
  BY <1>2
<1>4. g.heard /\ Alike(g, f)
  <2> HIDE DEF f
  <2> QED
    BY <1>3 DEF Alike, Frame
<1>5. queue' = [q1 EXCEPT ![m] = q2]
  <2>1. q1[m] = queue[m]
    BY <1>1 DEF Queued
  <2>2. queue' = [q1 EXCEPT ![m] = [q1[m] EXCEPT ![n] = [q1[m][n] EXCEPT ![1] = [q1[m][n][1] EXCEPT !.heard = yes]]]]
    OBVIOUS
  <2> HIDE DEF yes, q1
  <2> QED
    BY <2>1, <2>2
<1> HIDE DEF f, g
<1>6. DOMAIN heard = DOMAIN queue[m][n] /\ heard[1] = g /\ \A i \in DOMAIN heard : i # 1 => heard[i] = queue[m][n][i]
  BY <1>2
<1> HIDE DEF heard
<1>7. q2[n] = heard /\ \A b \in Node \ {m, n} : q2[b] = queue[m][b]
  BY <1>1, <1>2
<1> HIDE DEF q2
<1>8. queue'[n] = st.queue /\ queue'[m] = q2 /\ \A a \in Node \ {m, n} : queue'[a] = queue[a]
  BY <1>1, <1>5 DEF Queued
<1> QED
  BY <1>2, <1>4, <1>6, <1>7, <1>8 DEF Marks, f

LEMMA HeardShows ==
  ASSUME SInv, NEW n \in Node, NEW m \in Node \ {n}, NEW st, Assign(n, st), Marks(n, m, st.queue, queue')
  PROVE  Shows(n, st, trans', queue')
<1>1. ASSUME NEW a \in Node, NEW b \in Node \ {a}, NEW i \in DOMAIN queue'[a][b]
      PROVE  \E j \in DOMAIN (IF a = n THEN st.queue ELSE queue[a])[b] :
               Alike(queue'[a][b][i], (IF a = n THEN st.queue ELSE queue[a])[b][j])
  <2>1. CASE a = n
    BY <2>1 DEF Alike, Marks
  <2>2. CASE a = m /\ b = n
    BY <2>2 DEF Alike, Marks
  <2>3. CASE a = m /\ b # n
    BY <2>3 DEF Alike, Marks
  <2>4. CASE a \notin {m, n}
    BY <2>4 DEF Alike, Marks
  <2> QED
    BY <2>1, <2>2, <2>3, <2>4
<1> QED
  BY <1>1, ShowsIs

LEMMA InputTold ==
  ASSUME SInv, SInv', Told, ~receded', NEW n \in Node, NEW m \in Node \ {n}, Input(n, m)
  PROVE  Told'
<1> DEFINE pkt == Head(queue[m][n])
<1>1. Kept(n, Local(n)) /\ Local(n).made = made /\ n \in Node \ {m} /\ Queued
  BY LocalIs, QueuedIs DEF SInv
<1>2. queue[m][n] \in Seq(Frame) /\ queue[m][n] # <<>> /\ pkt = queue[m][n][1] /\ 1 \in DOMAIN queue[m][n]
  <2>1. queue[m] \in [Node \ {m} -> Fifo] /\ queue[m][n] # <<>>
    BY <1>1 DEF Queued, Input
  <2>2. queue[m][n] \in Seq(Frame)
    BY <1>1, <2>1 DEF Fifo
  <2> QED
    BY <2>1, <2>2
<1>3. pkt \in Frame
  BY <1>2
<1>4. PICK outcome \in Outcomes(n, m) :
         LET st == IF pkt.type = "REQUEST" THEN InputRequest(Local(n), m, pkt, outcome)
                   ELSE InputAnswer(Local(n), m, pkt)
         IN /\ Assign(n, st)
            /\ queue' = [queue EXCEPT ![n] = st.queue, ![m][n][1].heard = TRUE]
  BY InputIs
<1> DEFINE st == IF pkt.type = "REQUEST" THEN InputRequest(Local(n), m, pkt, outcome)
                 ELSE InputAnswer(Local(n), m, pkt)
<1>5. Assign(n, st) /\ queue' = [queue EXCEPT ![n] = st.queue, ![m][n][1].heard = TRUE]
  BY <1>4
<1>6. pkt.type = "REQUEST" => made < MaxRequests
  BY DEF Input
<1>7. Room(Local(n), m, outcome)
  BY RoomIs
<1> HIDE DEF pkt
<1>8. pkt.type = "REQUEST" => About(trans, queue, m, n, pkt.seqno, pkt.request)
  <2>1. pkt.type = "REQUEST" => Tells(Pair(trans, queue, m).queue[n][1], "ask", pkt.seqno, pkt.request)
    BY <1>2 DEF Tells, Pair
  <2> QED
    BY <1>2, <2>1 DEF Knows, About, Pair
<1>9. \A side \in Side, p \in Node \ {n} : \A k, q :
        Knows(st, side, p, k, q) =>
          Knows(Local(n), side, p, k, q) \/ (side = "reply" /\ About(trans, queue, p, n, k, q))
  <2>1. CASE pkt.type = "REQUEST"
    <3>1. \/ Idles(Local(n), st) \/ Refuses(Local(n), st, m, pkt)
          \/ Answers(n, Local(n), st, m, "RESPONSE") \/ Opens(n, Local(n), st, m, pkt)
      BY <1>1, <1>3, <1>6, <1>7, <2>1, InputRequestMoves
    <3> HIDE DEF st
    <3>2. CASE Idles(Local(n), st)
      BY <3>2, KnowsIs DEF Idles
    <3>3. CASE Refuses(Local(n), st, m, pkt)
      BY <1>1, <1>3, <1>8, <2>1, <3>3, RefusesKnows DEF Kept
    <3>4. CASE Answers(n, Local(n), st, m, "RESPONSE")
      BY <1>1, <3>4, AnswersKnows DEF Kept
    <3>5. CASE Opens(n, Local(n), st, m, pkt)
      BY <1>1, <1>8, <2>1, <3>5, OpensKnows DEF Kept
    <3> QED
      BY <3>1, <3>2, <3>3, <3>4, <3>5
  <2>2. CASE pkt.type # "REQUEST"
    <3>1. \/ Idles(Local(n), st)
          \/ \E s \in Taker(Local(n), m, pkt), tq \in Good(n) :
               /\ Settles(n, Local(n), st, s, tq) /\ Same(Local(n).trans[s], tq)
               /\ tq.state = Answered(pkt) /\ Permitted(Local(n).trans[s], tq.state)
      BY <1>1, <2>2, InputAnswerMoves
    <3> HIDE DEF st
    <3>2. CASE Idles(Local(n), st)
      BY <3>2, KnowsIs DEF Idles
    <3>3. ASSUME NEW s, NEW tq \in Good(n),
                 Settles(n, Local(n), st, s, tq), Same(Local(n).trans[s], tq),
                 tq.state = Answered(pkt), Permitted(Local(n).trans[s], tq.state)
          PROVE  \A side, p, k, q : Knows(st, side, p, k, q) => Knows(Local(n), side, p, k, q)
      <4>1. Wanes(Local(n).trans[s], tq) /\ Local(n).trans[s].state # "INIT"
        BY <3>3 DEF Wanes, Answered, Permitted
      <4> QED
        BY <1>1, <3>3, <4>1, WanesKnows DEF Kept
    <3> QED
      BY <3>1, <3>2, <3>3
  <2> QED
    BY <2>1, <2>2
<1> HIDE DEF st
<1>10. Shows(n, st, trans', queue')
  BY <1>2, <1>5, InputMarks, HeardShows
<1> QED
  BY <1>5, <1>9, <1>10, QuietTold

LEMMA SendRequestTold ==
  ASSUME SInv, SInv', Told, ~receded', NEW n \in Node, NEW m \in Node \ {n}, NEW cmd \in Command,
         SendRequest(n, m, cmd), cmd # "CLEAR"
  PROVE  Told'
<1>1. PICK outcome \in Outcomes(n, m) :
         /\ Assign(n, Request(Local(n), m, cmd, outcome))
         /\ queue' = [queue EXCEPT ![n] = Request(Local(n), m, cmd, outcome).queue]
  BY DEF SendRequest
<1> DEFINE st == Request(Local(n), m, cmd, outcome)
           k0 == IF next_seqno[n][m] = NULL THEN 0 ELSE next_seqno[n][m]
<1>2. /\ Kept(n, Local(n)) /\ Local(n).made = made /\ made < MaxRequests /\ Find(Local(n), m) = {}
      /\ Local(n).next = next_seqno[n]
  BY LocalIs DEF SInv, SendRequest, Accepts
<1>3. Room(Local(n), m, outcome)
  BY RoomIs
<1>4. \/ Idles(Local(n), st)
      \/ \E s \in Slot, tq \in Good(n) :
           /\ Speaks(n, Local(n), st, m, s, tq, "REQUEST")
           /\ Local(n).trans[s].state = "UNAVAILABLE" /\ tq.request = made + 1 /\ st.made = made + 1
           /\ tq.seqno = (IF Local(n).next[m] = NULL THEN 0 ELSE Local(n).next[m])
           /\ cmd # "CLEAR" => st.next[m] = Increment(tq.seqno)
  BY <1>2, <1>3, RequestMoves
<1>5. Shows(n, st, trans', queue')
  BY <1>1, HandlerShows
<1>6. Assign(n, st)
  BY <1>1
<1> HIDE DEF st
<1>7. CASE Idles(Local(n), st)
  <2>1. \A side, p, k, q : Knows(st, side, p, k, q) => Knows(Local(n), side, p, k, q)
    BY <1>7, KnowsIs DEF Idles
  <2> QED
    BY <1>5, <1>6, <2>1, QuietTold
<1>8. ASSUME NEW s \in Slot, NEW tq \in Good(n),
             Speaks(n, Local(n), st, m, s, tq, "REQUEST"), tq.request = made + 1,
             tq.seqno = k0, st.next[m] = Increment(k0)
      PROVE  Told'
  <2>1. Numbers(next_seqno) /\ Numbers(next_seqno')
    <3>1. Numbers(next_seqno)'
      BY NumbersAre, PTL
    <3> QED
      BY <3>1, NumbersAre DEF Numbers
  <2>2. Advances(next_seqno, next_seqno')
    BY <1>6, AdvancesIs
  <2>3. next_seqno'[n][m] = Increment(k0)
    <3>1. next_seqno' = [next_seqno EXCEPT ![n] = st.next]
      BY <1>6 DEF Assign
    <3> QED
      BY <1>8, <3>1 DEF SInv
  <2>4. \A side \in Side, p \in Node \ {n} : \A k, q :
          Knows(st, side, p, k, q) =>
            \/ Knows(Pair(trans, queue, n), side, p, k, q)
            \/ side = "ask" /\ p = m /\ k = k0 /\ q = made + 1
    <3>1. ASSUME NEW side \in Side, NEW p \in Node \ {n}, NEW k, NEW q, Knows(st, side, p, k, q)
          PROVE  \/ Knows(Local(n), side, p, k, q)
                 \/ side = "ask" /\ p = m /\ k = k0 /\ q = made + 1
      <4>1. Knows(Local(n), side, p, k, q) \/ Takes(tq, side, p, k, q)
        BY <1>2, <1>8, <3>1, SpeaksKnows DEF Kept, Type
      <4>2. tq.state = "REQUEST_SENDING" /\ tq.peer = m
        BY <1>8 DEF Speaks, SendingOf
      <4> QED
        BY <1>8, <4>1, <4>2 DEF Takes, StatesOf, Side
    <3> QED
      BY <3>1, KnowsLocal
  <2> HIDE DEF k0
  <2>5. ASSUME NEW a \in Node, NEW b \in Node \ {a}, NEW k \in 0 .. SeqnoMax, NEW q,
               About(trans', queue', a, b, k, q)
        PROVE  About(trans, queue, a, b, k, q) \/ (a = n /\ b = m /\ k = k0 /\ q = made + 1)
    <3>1. CASE Knows(Pair(trans', queue', a), "ask", b, k, q)
      <4>1. Knows(IF a = n THEN st ELSE Pair(trans, queue, a), "ask", b, k, q)
        BY <1>5, <3>1 DEF Shows, Side
      <4> QED
        BY <2>4, <4>1 DEF About, Side
    <3>2. CASE Knows(Pair(trans', queue', b), "reply", a, k, q)
      <4>1. Knows(IF b = n THEN st ELSE Pair(trans, queue, b), "reply", a, k, q)
        BY <1>5, <3>2 DEF Shows, Side
      <4> QED
        BY <2>4, <4>1 DEF About, Side
    <3> QED
      BY <2>5, <3>1, <3>2 DEF About
  <2>6. Tellable(trans', queue', next_seqno')
    BY <2>1, <2>2, <2>3, <2>5, TellableGrows DEF Told, k0
  <2> QED
    BY <2>6 DEF Told
<1> QED
  BY <1>2, <1>4, <1>7, <1>8

\* so whoever takes an answer with the SeqNum of its request takes the answer to it
LEMMA ToldMatches ==
  ASSUME SInv, Told, NEW n \in Node, NEW m \in Node \ {n}, Input(n, m)
  PROVE  ~Strays(n, m, Head(queue[m][n]))
<1> DEFINE pkt == Head(queue[m][n])
<1>1. Kept(n, Local(n)) /\ n \in Node \ {m} /\ Queued /\ Local(n).trans = trans[n]
  BY LocalIs, QueuedIs DEF SInv
<1>2. queue[m][n] \in Seq(Frame) /\ queue[m][n] # <<>> /\ pkt = queue[m][n][1] /\ 1 \in DOMAIN queue[m][n]
  <2>1. queue[m] \in [Node \ {m} -> Fifo] /\ queue[m][n] # <<>>
    BY <1>1 DEF Queued, Input
  <2>2. queue[m][n] \in Seq(Frame)
    BY <1>1, <2>1 DEF Fifo
  <2> QED
    BY <2>1, <2>2
<1>3. pkt \in Frame
  BY <1>2
<1> HIDE DEF pkt
<1>4. SUFFICES ASSUME NEW s \in Taker(Local(n), m, pkt), pkt.type # "REQUEST"
               PROVE  trans[n][s].request = pkt.request
  BY DEF Strays, pkt
<1> DEFINE tr == trans[n][s]
           k == pkt.seqno
<1>5. s \in Slot /\ tr.peer = m /\ tr.seqno = k /\ Permitted(tr, Answered(pkt))
  BY <1>1 DEF Taker, Find, Listed, Matches
<1>6. k \in 0 .. SeqnoMax /\ pkt.type \in {"RESPONSE", "CONFIRMATION"}
  BY <1>3, <1>4 DEF Frame, Type
<1> HIDE DEF k
<1>7. CASE pkt.type = "RESPONSE"
  <2>1. tr.state \in StatesOf("ask")
    BY <1>5, <1>7 DEF Answered, Permitted, StatesOf
  <2>2. Knows(Pair(trans, queue, n), "ask", m, k, tr.request)
    BY <1>5, <2>1 DEF Knows, Pair, Takes
  <2>3. Tells(Pair(trans, queue, m).queue[n][1], "reply", k, pkt.request)
    BY <1>2, <1>7 DEF Tells, Pair, k
  <2>4. Knows(Pair(trans, queue, m), "reply", n, k, pkt.request)
    BY <1>2, <2>3 DEF Knows, Pair
  <2>5. About(trans, queue, n, m, k, tr.request) /\ About(trans, queue, n, m, k, pkt.request)
    BY <2>2, <2>4 DEF About
  <2> QED
    BY <1>6, <2>5 DEF Told, Tellable
<1>8. CASE pkt.type = "CONFIRMATION"
  <2>1. tr.state \in StatesOf("reply")
    BY <1>5, <1>8 DEF Answered, Permitted, StatesOf
  <2>2. Knows(Pair(trans, queue, n), "reply", m, k, tr.request)
    BY <1>5, <2>1 DEF Knows, Pair, Takes
  <2>3. Tells(Pair(trans, queue, m).queue[n][1], "ask", k, pkt.request)
    BY <1>2, <1>8 DEF Tells, Pair, k
  <2>4. Knows(Pair(trans, queue, m), "ask", n, k, pkt.request)
    BY <1>2, <2>3 DEF Knows, Pair
  <2>5. About(trans, queue, m, n, k, tr.request) /\ About(trans, queue, m, n, k, pkt.request)
    BY <2>2, <2>4 DEF About
  <2> QED
    BY <1>1, <1>6, <2>5 DEF Told, Tellable
<1> QED
  BY <1>6, <1>7, <1>8

Faithful == resets = 0 /\ ~receded => ~strayed /\ Told

LEMMA ToldStep ==
  ASSUME SInv, SInv', ~strayed, Told, Next, resets' = 0, ~receded'
  PROVE  ~strayed' /\ Told'
<1>1. PICK n \in Node :
        \/ Restart(n)
        \/ \E s \in Slot : ProcessTimer(n, s) \/ Timeout(n, s)
        \/ \E m \in Node \ {n} :
             \/ \E cmd \in Command : SendRequest(n, m, cmd)
             \/ \E type \in {"RESPONSE", "CONFIRMATION"} : SendAnswer(n, m, type)
             \/ Input(n, m)
             \/ \E ok \in BOOLEAN : Done(n, m, ok)
  BY DEF Next
<1>2. resets \in Nat
  BY SixpAssumption DEF SInv
<1>3. ~Restart(n)
  BY <1>2 DEF Restart
<1>4. ASSUME NEW s \in Slot, ProcessTimer(n, s)
      PROVE  ~strayed' /\ Told'
  BY <1>4, ProcessTimerTold DEF ProcessTimer
<1>5. ASSUME NEW s \in Slot, Timeout(n, s)
      PROVE  ~strayed' /\ Told'
  BY <1>5, TimeoutTold DEF Timeout
<1>6. ASSUME NEW m \in Node \ {n}, NEW cmd \in Command, SendRequest(n, m, cmd)
      PROVE  ~strayed' /\ Told'
  <2>1. cmd # "CLEAR"
    BY <1>2, <1>6 DEF SendRequest
  <2> QED
    BY <1>6, <2>1, SendRequestTold DEF SendRequest
<1>7. ASSUME NEW m \in Node \ {n}, NEW type \in {"RESPONSE", "CONFIRMATION"}, SendAnswer(n, m, type)
      PROVE  ~strayed' /\ Told'
  BY <1>7, SendAnswerTold DEF SendAnswer
<1>8. ASSUME NEW m \in Node \ {n}, Input(n, m)
      PROVE  ~strayed' /\ Told'
  <2>1. ~Strays(n, m, Head(queue[m][n]))
    BY <1>8, ToldMatches
  <2>2. strayed' = (strayed \/ Strays(n, m, Head(queue[m][n])))
    BY <1>8 DEF Input
  <2> QED
    BY <1>8, <2>1, <2>2, InputTold
<1>9. ASSUME NEW m \in Node \ {n}, NEW ok \in BOOLEAN, Done(n, m, ok)
      PROVE  ~strayed' /\ Told'
  BY <1>9, DoneTold DEF Done
<1> QED
  BY <1>1, <1>3, <1>4, <1>5, <1>6, <1>7, <1>8, <1>9

\* once a node has reset a SeqNum, or one has receded, it is never undone
LEMMA PastStays ==
  ASSUME SInv, Next, resets' = 0, ~receded'
  PROVE  resets = 0 /\ ~receded
<1>1. PICK n \in Node :
        \/ Restart(n)
        \/ \E s \in Slot : ProcessTimer(n, s) \/ Timeout(n, s)
        \/ \E m \in Node \ {n} :
             \/ \E cmd \in Command : SendRequest(n, m, cmd)
             \/ \E type \in {"RESPONSE", "CONFIRMATION"} : SendAnswer(n, m, type)
             \/ Input(n, m)
             \/ \E ok \in BOOLEAN : Done(n, m, ok)
  BY DEF Next
<1>2. resets \in Nat
  BY SixpAssumption DEF SInv
<1>3. resets' = resets \/ resets' = resets + 1
  BY <1>1 DEF Restart, ProcessTimer, Timeout, SendRequest, SendAnswer, Input, Done
<1>4. \E st : Assign(n, st)
  BY <1>1 DEF Restart, ProcessTimer, Timeout, SendRequest, SendAnswer, Input, Done
<1>5. ~receded
  BY <1>4 DEF Assign
<1> QED
  BY <1>2, <1>3, <1>5

LEMMA InitTold ==
  ASSUME Init
  PROVE  Told
<1>1. ASSUME NEW a \in Node, NEW b \in Node \ {a}, NEW k, NEW q, NEW side
      PROVE  ~Knows(Pair(trans, queue, a), side, b, k, q)
  <2>1. \A s \in Slot : Pair(trans, queue, a).trans[s] = NoTrans
    BY DEF Init, Pair
  <2>2. Pair(trans, queue, a).queue[b] = <<>>
    BY DEF Init, Pair
  <2>3. NoTrans.state \notin StatesOf(side)
    BY DEF NoTrans, StatesOf
  <2> QED
    BY <2>1, <2>2, <2>3 DEF Knows, Takes
<1>2. ASSUME NEW a \in Node, NEW b \in Node \ {a}, NEW k, NEW q
      PROVE  ~About(trans, queue, a, b, k, q)
  BY <1>1 DEF About
<1> QED
  BY <1>2 DEF Told, Tellable

(* No answer is taken for the answer to another request, unless a node     *)
(* rebooted, sent a CLEAR or set a next_seqno back: whatever is lost, late *)
(* or refused, a SeqNum that anybody still knows of, in a transaction or a *)
(* frame, is smaller than the next one and belongs to one request.         *)
THEOREM AnswersAreMatched == Spec => []AnswersMatch
<1>1. Init => Faithful
  BY InitTold DEF Init, Faithful
<1>2. SInv /\ SInv' /\ Faithful /\ [Next]_vars => Faithful'
  <2>1. ASSUME SInv, SInv', Faithful, Next
        PROVE  Faithful'
    BY <2>1, PastStays, ToldStep DEF Faithful
  <2>2. ASSUME Faithful, UNCHANGED vars
        PROVE  Faithful'
    BY <2>2 DEF Faithful, vars, Told
  <2> QED
    BY <2>1, <2>2
<1>3. Faithful => AnswersMatch
  BY DEF Faithful, AnswersMatch
<1> QED
  BY <1>1, <1>2, <1>3, SInvAlways, PTL DEF Spec
--------------------------------------------------------------------------------
(* A frame with a callback, unless its transaction was overtaken, has the  *)
(* block it was sent for, whose transaction waits for this frame alone.    *)

Waits(tr, m, f) == tr.id = f.id /\ tr.peer = m /\ tr.state \in Sending

Only(Q, m, i) ==
  \A j \in DOMAIN Q[m] : Q[m][j].slot = Q[m][i].slot /\ Q[m][j].id = Q[m][i].id => j = i

Exempt(O, f) == f.slot = 0 \/ f.id \in O

Backed(n, T, Q, O) ==
  \A m \in Node \ {n} : \A i \in DOMAIN Q[m] :
    Exempt(O, Q[m][i]) \/ (Waits(T[Q[m][i].slot], m, Q[m][i]) /\ Only(Q, m, i))

\* nobody waits for a frame of the transaction in the block s
Unsent(n, Q, O, s) == \A m \in Node \ {n} : \A i \in DOMAIN Q[m] : Q[m][i].slot = s => Q[m][i].id \in O

Sound ==
  /\ overtaken = [a \in Node |-> overtaken[a]]
  /\ \A a \in Node : Backed(a, trans[a], queue[a], overtaken[a])

LEMMA UnsentIs ==
  ASSUME NEW n, NEW T, NEW Q, NEW O, Backed(n, T, Q, O), NEW s \in Slot, T[s].state \notin Sending
  PROVE  Unsent(n, Q, O, s)
BY DEF Backed, Unsent, Exempt, Waits, Slot

LEMMA InMacIs ==
  ASSUME NEW n, NEW Q, DOMAIN Q = Node \ {n}, NEW m \in Node \ {n}, NEW i \in DOMAIN Q[m], Q[m][i].slot # 0
  PROVE  Q[m][i].id \in InMac(Q)
<1>1. Q[m][i] \in UNION {Range(Q[p]) : p \in DOMAIN Q}
  BY DEF Range
<1> QED
  BY <1>1 DEF InMac

\* a block is set whose transaction goes on waiting, or that nobody's frame is about
LEMMA BlockBacked ==
  ASSUME NEW n, NEW T, NEW Q, NEW O, Backed(n, T, Q, O), NEW O1, O \subseteq O1,
         NEW s, NEW tq, NEW T1, T1 = [T EXCEPT ![s] = tq], DOMAIN T = Slot,
         \/ Same(T[s], tq) /\ tq.state = T[s].state
         \/ Unsent(n, Q, O1, s)
  PROVE  Backed(n, T1, Q, O1)
<1> SUFFICES ASSUME NEW m \in Node \ {n}, NEW i \in DOMAIN Q[m], ~Exempt(O1, Q[m][i])
             PROVE  Waits(T1[Q[m][i].slot], m, Q[m][i]) /\ Only(Q, m, i)
  BY DEF Backed
<1> DEFINE f == Q[m][i]
<1>1. Waits(T[f.slot], m, f) /\ Only(Q, m, i)
  BY DEF Backed, Exempt
<1>2. CASE f.slot # s
  BY <1>1, <1>2
<1>3. CASE f.slot = s
  <2>1. Same(T[s], tq) /\ tq.state = T[s].state
    BY <1>3 DEF Unsent, Exempt
  <2>2. T1[s] = tq \/ T1[s] = T[s]
    OBVIOUS
  <2> QED
    BY <1>1, <1>3, <2>1, <2>2 DEF Waits, Same
<1> QED
  BY <1>2, <1>3

\* more transactions are overtaken
LEMMA MoreBacked ==
  ASSUME NEW n, NEW T, NEW Q, NEW O, Backed(n, T, Q, O), NEW O1, O \subseteq O1
  PROVE  Backed(n, T, Q, O1)
BY DEF Backed, Exempt

\* those that the MAC has no frame of are forgotten
LEMMA LessBacked ==
  ASSUME NEW n, NEW T, NEW Q, DOMAIN Q = Node \ {n}, NEW O, Backed(n, T, Q, O)
  PROVE  Backed(n, T, Q, InMac(Q) \cap O)
<1> SUFFICES ASSUME NEW m \in Node \ {n}, NEW i \in DOMAIN Q[m], ~Exempt(InMac(Q) \cap O, Q[m][i])
             PROVE  ~Exempt(O, Q[m][i])
  BY DEF Backed
<1>1. Q[m][i].id \in InMac(Q)
  BY InMacIs DEF Exempt
<1> QED
  BY <1>1 DEF Exempt

LEMMA SpeaksBacked ==
  ASSUME NEW n \in Node, NEW st \in Places(n), NEW O, Backed(n, st.trans, st.queue, O), NEW r,
         NEW p \in Node \ {n}, NEW s, NEW tq, NEW type \in Type, Speaks(n, st, r, p, s, tq, type)
  PROVE  Backed(n, r.trans, r.queue, O)
<1> DEFINE f == FrameOf(type, tq, s)
<1>1. /\ s \in Slot /\ tq.peer = p /\ tq.state = SendingOf(type) /\ st.trans[s].state \notin Sending
      /\ r.trans = [st.trans EXCEPT ![s] = tq] /\ MaySend(st, r, p, f)
  BY DEF Speaks, Sets
<1>2. Unsent(n, st.queue, O, s)
  BY <1>1, UnsentIs
<1>3. r.trans[s] = tq /\ \A t : t # s => r.trans[t] = st.trans[t]
  <2>1. st.trans \in [Slot -> Good(n)]
    BY PlacesAre
  <2> QED
    BY <1>1, <2>1
<1>4. f.slot = s /\ Waits(tq, p, f)
  BY <1>1 DEF FrameOf, Waits, SendingOf, Sending, Type
<1> HIDE DEF f
<1> SUFFICES ASSUME NEW m \in Node \ {n}, NEW i \in DOMAIN r.queue[m], ~Exempt(O, r.queue[m][i])
             PROVE  Waits(r.trans[r.queue[m][i].slot], m, r.queue[m][i]) /\ Only(r.queue, m, i)
  BY DEF Backed
<1>5. ASSUME NEW j \in DOMAIN r.queue[m]
      PROVE  \/ j \in DOMAIN st.queue[m] /\ r.queue[m][j] = st.queue[m][j]
             \/ m = p /\ r.queue[m][j] = f /\ j = Len(st.queue[m]) + 1
  BY <1>1, MaySendTells
<1>6. CASE i \in DOMAIN st.queue[m] /\ r.queue[m][i] = st.queue[m][i]
  <2>1. st.queue[m][i].slot # s
    BY <1>2, <1>6 DEF Unsent, Exempt
  <2>2. Waits(st.trans[st.queue[m][i].slot], m, st.queue[m][i]) /\ Only(st.queue, m, i)
    BY <1>6 DEF Backed
  <2>3. \A j \in DOMAIN r.queue[m] :
          r.queue[m][j].slot = r.queue[m][i].slot => j \in DOMAIN st.queue[m] /\ r.queue[m][j] = st.queue[m][j]
    BY <1>4, <1>5, <1>6, <2>1
  <2>4. Only(r.queue, m, i)
    BY <1>6, <2>2, <2>3 DEF Only
  <2> QED
    BY <1>3, <1>6, <2>1, <2>2, <2>4
<1>7. CASE m = p /\ r.queue[m][i] = f /\ i = Len(st.queue[m]) + 1
  <2>1. ASSUME NEW j \in DOMAIN r.queue[m], r.queue[m][j].slot = s, r.queue[m][j].id = f.id
        PROVE  j = i
    <3>1. ~(j \in DOMAIN st.queue[m] /\ r.queue[m][j] = st.queue[m][j])
      BY <1>2, <1>7, <2>1 DEF Unsent, Exempt
    <3> QED
      BY <1>5, <1>7, <3>1
  <2>2. Only(r.queue, m, i)
    BY <1>4, <1>7, <2>1 DEF Only
  <2> QED
    BY <1>3, <1>4, <1>7, <2>2
<1> QED
  BY <1>5, <1>6, <1>7

LEMMA RefusesBacked ==
  ASSUME NEW n \in Node, NEW st \in Places(n), NEW O, Backed(n, st.trans, st.queue, O), NEW r,
         NEW p \in Node \ {n}, NEW pkt \in Frame, Refuses(st, r, p, pkt)
  PROVE  Backed(n, r.trans, r.queue, O)
<1> DEFINE f == RejectionOf(pkt)
<1>1. r.trans = st.trans /\ MaySend(st, r, p, f)
  BY DEF Refuses
<1>2. f.slot = 0
  BY DEF RejectionOf, Frame
<1> HIDE DEF f
<1> SUFFICES ASSUME NEW m \in Node \ {n}, NEW i \in DOMAIN r.queue[m], ~Exempt(O, r.queue[m][i])
             PROVE  Waits(r.trans[r.queue[m][i].slot], m, r.queue[m][i]) /\ Only(r.queue, m, i)
  BY DEF Backed
<1>3. ASSUME NEW j \in DOMAIN r.queue[m], r.queue[m][j].slot # 0
      PROVE  j \in DOMAIN st.queue[m] /\ r.queue[m][j] = st.queue[m][j]
  BY <1>1, <1>2, <1>3, MaySendTells
<1>4. i \in DOMAIN st.queue[m] /\ r.queue[m][i] = st.queue[m][i] /\ r.queue[m][i].slot # 0
  BY <1>3 DEF Exempt
<1>5. Waits(st.trans[st.queue[m][i].slot], m, st.queue[m][i]) /\ Only(st.queue, m, i)
  BY <1>4 DEF Backed
<1>6. Only(r.queue, m, i)
  BY <1>3, <1>4, <1>5 DEF Only
<1> QED
  BY <1>1, <1>4, <1>5, <1>6

LEMMA AnswersBacked ==
  ASSUME NEW n \in Node, NEW st \in Places(n), NEW O, Backed(n, st.trans, st.queue, O), NEW r,
         NEW p \in Node \ {n}, NEW type \in Type, Answers(n, st, r, p, type)
  PROVE  Backed(n, r.trans, r.queue, O)
BY SpeaksBacked DEF Answers

LEMMA OpensBacked ==
  ASSUME NEW n \in Node, NEW st \in Places(n), NEW O, Backed(n, st.trans, st.queue, O), NEW r,
         NEW p \in Node \ {n}, NEW pkt, Opens(n, st, r, p, pkt)
  PROVE  Backed(n, r.trans, r.queue, O)
<1>1. PICK s \in Slot, tq \in Good(n) :
        /\ st.trans[s].state = "UNAVAILABLE"
        /\ Settles(n, st, r, s, tq) \/ Speaks(n, st, r, p, s, tq, "RESPONSE")
  BY DEF Opens
<1>2. CASE Speaks(n, st, r, p, s, tq, "RESPONSE")
  BY <1>2, SpeaksBacked DEF Type
<1>3. CASE Settles(n, st, r, s, tq)
  <2>1. DOMAIN st.trans = Slot
    BY PlacesAre
  <2>2. Unsent(n, st.queue, O, s)
    BY <1>1, UnsentIs DEF Sending
  <2> QED
    BY <1>3, <2>1, <2>2, BlockBacked DEF Settles, Sets
<1> QED
  BY <1>1, <1>2, <1>3

\* the frames that are left when the one at the head of the queue for m is gone
LEMMA TailBacked ==
  ASSUME NEW n \in Node, NEW T, NEW Q \in [Node \ {n} -> Fifo], NEW O, Backed(n, T, Q, O),
         NEW m \in Node \ {n}, Q[m] # <<>>, NEW Q1, Q1 = [Q EXCEPT ![m] = Tail(@)]
  PROVE  /\ Backed(n, T, Q1, O) /\ DOMAIN Q1 = Node \ {n}
         /\ Head(Q[m]).slot # 0 /\ T[Head(Q[m]).slot].id = Head(Q[m]).id
              => Unsent(n, Q1, O, Head(Q[m]).slot)
<1> DEFINE Old(p, i) == IF p = m THEN i + 1 ELSE i
<1>1. ASSUME NEW p \in Node \ {n}, NEW i \in DOMAIN Q1[p]
      PROVE  /\ Old(p, i) \in DOMAIN Q[p] /\ Q1[p][i] = Q[p][Old(p, i)]
             /\ p = m => i \in Nat \ {0}
  <2>1. CASE p = m
    <3> DEFINE q == Q[m]
    <3>1. q \in Seq(Frame) /\ q # <<>>
      BY DEF Fifo
    <3>2. Q1[p] = Tail(q)
      BY <2>1
    <3> HIDE DEF q
    <3>3. Len(q) \in Nat \ {0} /\ DOMAIN Tail(q) = 1 .. Len(q) - 1 /\ DOMAIN q = 1 .. Len(q)
      BY <3>1
    <3>4. i \in 1 .. Len(q) - 1
      BY <3>2, <3>3
    <3>5. i \in Nat \ {0} /\ i + 1 \in DOMAIN q /\ Tail(q)[i] = q[i + 1]
      BY <3>1, <3>3, <3>4
    <3> QED
      BY <2>1, <3>2, <3>5 DEF q
  <2>2. CASE p # m
    BY <2>2
  <2> QED
    BY <2>1, <2>2
<1>2. Head(Q[m]) = Q[m][1] /\ 1 \in DOMAIN Q[m]
  <2>1. Q[m] \in Seq(Frame)
    BY DEF Fifo
  <2> QED
    BY <2>1
<1>3. ASSUME NEW p \in Node \ {n}, NEW i \in DOMAIN Q1[p], ~Exempt(O, Q1[p][i])
      PROVE  Waits(T[Q1[p][i].slot], p, Q1[p][i]) /\ Only(Q, p, Old(p, i)) /\ Only(Q1, p, i)
  <2>1. Waits(T[Q1[p][i].slot], p, Q1[p][i]) /\ Only(Q, p, Old(p, i))
    BY <1>1, <1>3 DEF Backed
  <2>2. ASSUME NEW j \in DOMAIN Q1[p], Q1[p][j].slot = Q1[p][i].slot, Q1[p][j].id = Q1[p][i].id
        PROVE  j = i
    <3>1. Old(p, j) = Old(p, i)
      <4>1. Old(p, j) \in DOMAIN Q[p] /\ Q1[p][j] = Q[p][Old(p, j)] /\ Q1[p][i] = Q[p][Old(p, i)]
        BY <1>1
      <4> HIDE DEF Old
      <4> QED
        BY <2>1, <2>2, <4>1 DEF Only
    <3>2. p = m => i \in Nat /\ j \in Nat
      BY <1>1
    <3> QED
      BY <3>1, <3>2
  <2> QED
    BY <2>1, <2>2 DEF Only
<1>4. Backed(n, T, Q1, O)
  BY <1>3 DEF Backed
<1>5. ASSUME Head(Q[m]).slot # 0, T[Head(Q[m]).slot].id = Head(Q[m]).id,
             NEW p \in Node \ {n}, NEW i \in DOMAIN Q1[p], Q1[p][i].slot = Head(Q[m]).slot, Q1[p][i].id \notin O
      PROVE  FALSE
  <2>1. ~Exempt(O, Q1[p][i])
    BY <1>5 DEF Exempt
  <2>2. Waits(T[Q1[p][i].slot], p, Q1[p][i]) /\ Only(Q, p, Old(p, i))
    BY <1>3, <2>1
  <2>3. Q1[p][i].id = Head(Q[m]).id
    BY <1>5, <2>2 DEF Waits
  <2>4. ~Exempt(O, Head(Q[m]))
    BY <1>5, <2>3 DEF Exempt
  <2>5. Waits(T[Head(Q[m]).slot], m, Head(Q[m]))
    BY <1>2, <2>4 DEF Backed
  <2>6. p = m
    BY <1>5, <2>2, <2>5 DEF Waits
  <2>7. Q1[p][i] = Q[m][i + 1] /\ Old(p, i) = i + 1 /\ i \in Nat \ {0}
    BY <1>1, <2>6
  <2>8. 1 = i + 1
    BY <1>2, <1>5, <2>2, <2>3, <2>6, <2>7 DEF Only
  <2> QED
    BY <2>7, <2>8
<1>6. Head(Q[m]).slot # 0 /\ T[Head(Q[m]).slot].id = Head(Q[m]).id => Unsent(n, Q1, O, Head(Q[m]).slot)
  BY <1>5 DEF Unsent
<1> QED
  BY <1>4, <1>6

LEMMA TailFrom ==
  ASSUME NEW n \in Node, NEW Q \in [Node \ {n} -> Fifo], NEW m \in Node \ {n}, Q[m] # <<>>,
         NEW Q1, Q1 = [Q EXCEPT ![m] = Tail(@)], NEW p \in Node \ {n}, NEW i \in DOMAIN Q1[p]
  PROVE  \E j \in DOMAIN Q[p] : Q1[p][i] = Q[p][j]
<1>1. CASE p = m
  <2> DEFINE q == Q[m]
  <2>1. q \in Seq(Frame) /\ q # <<>>
    BY DEF Fifo
  <2>2. Q1[p] = Tail(q)
    BY <1>1
  <2> HIDE DEF q
  <2>3. i \in 1 .. Len(q) - 1 /\ Len(q) \in Nat
    BY <2>1, <2>2
  <2>4. i + 1 \in DOMAIN q /\ Tail(q)[i] = q[i + 1]
    BY <2>1, <2>3
  <2> QED
    BY <1>1, <2>2, <2>4 DEF q
<1>2. CASE p # m
  BY <1>2
<1> QED
  BY <1>1, <1>2

\* the frame at the head of the queue for n is heard
LEMMA MarkedBacked ==
  ASSUME SInv, Sound, NEW n \in Node, NEW m \in Node \ {n}, NEW q, Marks(n, m, q, queue'),
         NEW a \in Node \ {n}
  PROVE  Backed(a, trans[a], queue'[a], overtaken[a])
<1>1. Backed(a, trans[a], queue[a], overtaken[a])
  BY DEF Sound
<1>2. CASE a # m
  BY <1>1, <1>2 DEF Marks
<1>3. CASE a = m
  <2>1. ASSUME NEW b \in Node \ {a}
        PROVE  DOMAIN queue'[a][b] = DOMAIN queue[a][b] /\ \A i \in DOMAIN queue[a][b] :
                 queue'[a][b][i].slot = queue[a][b][i].slot /\ queue'[a][b][i].id = queue[a][b][i].id
    <3>1. CASE b = n
      BY <1>3, <3>1 DEF Marks, Alike
    <3>2. CASE b # n
      BY <1>3, <3>2 DEF Marks
    <3> QED
      BY <3>1, <3>2
  <2> SUFFICES ASSUME NEW b \in Node \ {a}, NEW i \in DOMAIN queue'[a][b], ~Exempt(overtaken[a], queue'[a][b][i])
               PROVE  Waits(trans[a][queue'[a][b][i].slot], b, queue'[a][b][i]) /\ Only(queue'[a], b, i)
    BY DEF Backed
  <2>2. i \in DOMAIN queue[a][b] /\ ~Exempt(overtaken[a], queue[a][b][i])
    BY <2>1 DEF Exempt
  <2>3. Waits(trans[a][queue[a][b][i].slot], b, queue[a][b][i]) /\ Only(queue[a], b, i)
    BY <1>1, <2>2 DEF Backed
  <2>4. Only(queue'[a], b, i)
    BY <2>1, <2>2, <2>3 DEF Only
  <2>5. Waits(trans[a][queue'[a][b][i].slot], b, queue'[a][b][i])
    BY <2>1, <2>2, <2>3 DEF Waits
  <2> QED
    BY <2>4, <2>5
<1> QED
  BY <1>2, <1>3

\* a step of n that changes no other queues than its own
LEMMA OwnStep ==
  ASSUME SInv, Sound, NEW n \in Node, NEW st, Assign(n, st), NEW Q, queue' = [queue EXCEPT ![n] = Q],
         NEW O, overtaken' = [overtaken EXCEPT ![n] = O], Backed(n, st.trans, Q, O)
  PROVE  Sound'
<1>1. trans'[n] = st.trans /\ queue'[n] = Q /\ overtaken'[n] = O
  BY DEF Assign, SInv, Sound
<1>2. ASSUME NEW a \in Node \ {n}
      PROVE  trans'[a] = trans[a] /\ queue'[a] = queue[a] /\ overtaken'[a] = overtaken[a]
  BY DEF Assign, SInv, Sound
<1>3. overtaken' = [a \in Node |-> overtaken'[a]]
  BY DEF Sound
<1>4. \A a \in Node : Backed(a, trans'[a], queue'[a], overtaken'[a])
  BY <1>1, <1>2 DEF Sound
<1> QED
  BY <1>3, <1>4 DEF Sound

\* ... nor what was overtaken
LEMMA QuietStep ==
  ASSUME SInv, Sound, NEW n \in Node, NEW st, Assign(n, st), queue' = [queue EXCEPT ![n] = st.queue],
         overtaken' = overtaken, Backed(n, st.trans, st.queue, overtaken[n])
  PROVE  Sound'
<1>1. overtaken' = [overtaken EXCEPT ![n] = overtaken[n]]
  BY DEF Sound
<1> QED
  BY <1>1, OwnStep

LEMMA LocalBacked ==
  ASSUME SInv, Sound, NEW n \in Node
  PROVE  /\ Kept(n, Local(n)) /\ Local(n) \in Places(n) /\ DOMAIN Local(n).trans = Slot
         /\ Local(n).made = made /\ Local(n).queue = queue[n] /\ Local(n).trans = trans[n]
         /\ Backed(n, Local(n).trans, Local(n).queue, overtaken[n])
BY LocalIs, PlacesAre DEF SInv, Sound, Kept

\* when the transaction of a block is overtaken, nobody waits for its frames
LEMMA OvertakenUnsent ==
  ASSUME SInv, Sound, NEW n \in Node, NEW s \in Slot, NEW O, overtaken[n] \cup Overtaken(n, s) \subseteq O
  PROVE  Unsent(n, queue[n], O, s)
<1> SUFFICES ASSUME NEW m \in Node \ {n}, NEW i \in DOMAIN queue[n][m], queue[n][m][i].slot = s,
                    queue[n][m][i].id \notin overtaken[n]
             PROVE  queue[n][m][i].id \in Overtaken(n, s)
  BY DEF Unsent
<1>0. queue[n] \in [Node \ {n} -> Fifo]
  BY QueuedIs DEF Queued
<1>1. s # 0 /\ DOMAIN queue[n] = Node \ {n}
  BY <1>0 DEF Slot
<1>2. queue[n][m][i].id \in InMac(queue[n])
  BY <1>1, InMacIs
<1>3. trans[n][s].id = queue[n][m][i].id
  BY <1>1 DEF Sound, Backed, Exempt, Waits
<1> QED
  BY <1>2, <1>3 DEF Overtaken

LEMMA ProcessTimerSound ==
  ASSUME SInv, Sound, NEW n \in Node, NEW s \in Slot, ProcessTimer(n, s)
  PROVE  Sound'
<1> DEFINE st == process_trans(Local(n), s)
<1>1. Kept(n, Local(n)) /\ Local(n).trans[s].timer = "process"
  BY LocalBacked DEF ProcessTimer
<1>2. Assign(n, st) /\ queue' = queue /\ overtaken' = overtaken
  BY DEF ProcessTimer
<1>3. PICK tq \in Good(n) :
        /\ Settles(n, Local(n), st, s, tq) /\ Wanes(Local(n).trans[s], tq)
        /\ \/ Same(Local(n).trans[s], tq) /\ tq.state = Local(n).trans[s].state
           \/ tq.state \in {"TERMINATING", "UNAVAILABLE"} /\ Local(n).trans[s].state \notin Sending
  BY <1>1, process_transMoves
<1> HIDE DEF st
<1>4. /\ Backed(n, Local(n).trans, Local(n).queue, overtaken[n])
      /\ DOMAIN Local(n).trans = Slot /\ Local(n).queue = queue[n]
  BY LocalBacked
<1>5. Local(n).trans[s].state \notin Sending => Unsent(n, Local(n).queue, overtaken[n], s)
  BY <1>4, UnsentIs
<1>6. st.trans = [Local(n).trans EXCEPT ![s] = tq] /\ st.queue = Local(n).queue
  BY <1>3 DEF Settles, Sets
<1>7. Backed(n, st.trans, st.queue, overtaken[n])
  BY <1>3, <1>4, <1>5, <1>6, BlockBacked
<1>8. queue' = [queue EXCEPT ![n] = st.queue]
  BY <1>2, <1>4, <1>6 DEF SInv
<1> QED
  BY <1>2, <1>7, <1>8, QuietStep

LEMMA TimeoutSound ==
  ASSUME SInv, Sound, NEW n \in Node, NEW s \in Slot, Timeout(n, s)
  PROVE  Sound'
<1> DEFINE st == Transit(Local(n), s, "TERMINATING")
           O == overtaken[n] \cup Overtaken(n, s)
<1>1. Kept(n, Local(n)) /\ Local(n).trans[s].timer = "timeout"
  BY LocalBacked DEF Timeout
<1>2. Assign(n, st) /\ queue' = queue /\ overtaken' = [overtaken EXCEPT ![n] = O]
  BY DEF Timeout, Sound
<1>3. PICK tq \in Good(n) : Settles(n, Local(n), st, s, tq)
  BY <1>1, EndingMoves
<1> HIDE DEF st
<1>4. /\ Backed(n, Local(n).trans, Local(n).queue, overtaken[n])
      /\ DOMAIN Local(n).trans = Slot /\ Local(n).queue = queue[n] /\ Local(n).trans = trans[n]
  BY LocalBacked
<1>5. Unsent(n, Local(n).queue, O, s)
  BY <1>4, OvertakenUnsent
<1>6. st.trans = [Local(n).trans EXCEPT ![s] = tq] /\ st.queue = Local(n).queue
  BY <1>3 DEF Settles, Sets
<1>7. overtaken[n] \subseteq O
  OBVIOUS
<1> HIDE DEF O
<1>8. Backed(n, st.trans, queue[n], O)
  BY <1>4, <1>5, <1>6, <1>7, BlockBacked
<1>9. queue' = [queue EXCEPT ![n] = queue[n]]
  BY <1>2 DEF SInv
<1> QED
  BY <1>2, <1>8, <1>9, OwnStep

LEMMA SendRequestSound ==
  ASSUME SInv, Sound, NEW n \in Node, NEW m \in Node \ {n}, NEW cmd \in Command, SendRequest(n, m, cmd)
  PROVE  Sound'
<1>1. PICK outcome \in Outcomes(n, m) :
         /\ Assign(n, Request(Local(n), m, cmd, outcome))
         /\ queue' = [queue EXCEPT ![n] = Request(Local(n), m, cmd, outcome).queue]
  BY DEF SendRequest
<1> DEFINE st == Request(Local(n), m, cmd, outcome)
<1>2. /\ Kept(n, Local(n)) /\ Local(n).made = made /\ made < MaxRequests /\ Find(Local(n), m) = {}
      /\ Local(n) \in Places(n) /\ Backed(n, Local(n).trans, Local(n).queue, overtaken[n])
  BY LocalBacked DEF SendRequest, Accepts
<1>3. Room(Local(n), m, outcome)
  BY RoomIs
<1>4. \/ Idles(Local(n), st)
      \/ \E s \in Slot, tq \in Good(n) : Speaks(n, Local(n), st, m, s, tq, "REQUEST")
  BY <1>2, <1>3, RequestMoves
<1>5. Assign(n, st) /\ queue' = [queue EXCEPT ![n] = st.queue] /\ overtaken' = overtaken
  BY <1>1 DEF SendRequest
<1> HIDE DEF st
<1>6. Backed(n, st.trans, st.queue, overtaken[n])
  BY <1>2, <1>4, SpeaksBacked DEF Idles, Type
<1> QED
  BY <1>5, <1>6, QuietStep

LEMMA SendAnswerSound ==
  ASSUME SInv, Sound, NEW n \in Node, NEW m \in Node \ {n},
         NEW type \in {"RESPONSE", "CONFIRMATION"}, SendAnswer(n, m, type)
  PROVE  Sound'
<1>1. PICK outcome \in Outcomes(n, m) :
         /\ Assign(n, Answer(Local(n), m, type, outcome))
         /\ queue' = [queue EXCEPT ![n] = Answer(Local(n), m, type, outcome).queue]
  BY DEF SendAnswer
<1> DEFINE st == Answer(Local(n), m, type, outcome)
<1>2. /\ Kept(n, Local(n)) /\ Local(n).trans = trans[n] /\ Local(n) \in Places(n)
      /\ Backed(n, Local(n).trans, Local(n).queue, overtaken[n])
  BY LocalBacked
<1>3. Room(Local(n), m, outcome)
  BY RoomIs
<1>4. /\ Find(Local(n), m) # {}
      /\ \A s \in Find(Local(n), m) : Local(n).trans[s].state = ReceivedOf(type)
  <2>1. PICK s \in Find(Local(n), m) : Local(n).trans[s].state = ReceivedOf(type)
    BY DEF SendAnswer, Accepts, ReceivedOf
  <2>2. \A t \in Find(Local(n), m) : t = s
    BY <1>2 DEF Kept, One, Find
  <2> QED
    BY <2>1, <2>2
<1>5. type = "CONFIRMATION" => \A s \in Find(Local(n), m) : ThreeStep(Local(n).trans[s])
  BY <1>2 DEF SendAnswer
<1>6. Idles(Local(n), st) \/ Answers(n, Local(n), st, m, type)
  BY <1>2, <1>3, <1>4, <1>5, AnswerMoves
<1>7. Assign(n, st) /\ queue' = [queue EXCEPT ![n] = st.queue] /\ overtaken' = overtaken
  BY <1>1 DEF SendAnswer
<1> HIDE DEF st
<1>8. Backed(n, st.trans, st.queue, overtaken[n])
  BY <1>2, <1>6, AnswersBacked DEF Idles, Type
<1> QED
  BY <1>7, <1>8, QuietStep

LEMMA RestartSound ==
  ASSUME SInv, Sound, NEW n \in Node, Restart(n)
  PROVE  Sound'
<1> DEFINE st == Booted(n)
           O == {}
<1>1. Assign(n, st) /\ queue' = [queue EXCEPT ![n] = st.queue] /\ overtaken' = [overtaken EXCEPT ![n] = O]
  BY DEF Restart
<1>2. \A m \in Node \ {n} : st.queue[m] = <<>>
  BY DEF Booted
<1>3. Backed(n, st.trans, st.queue, O)
  BY <1>2 DEF Backed
<1> HIDE DEF st, O
<1> QED
  BY <1>1, <1>3, OwnStep

LEMMA DoneSound ==
  ASSUME SInv, Sound, NEW n \in Node, NEW m \in Node \ {n}, NEW ok \in BOOLEAN, Done(n, m, ok)
  PROVE  Sound'
<1> DEFINE pkt == Head(queue[n][m])
           st == IF pkt.slot = 0 THEN Local(n) ELSE mac_callback(Local(n), pkt.slot, ok)
           Q == [queue[n] EXCEPT ![m] = Tail(@)]
           X == Mistaken(n, pkt)
           P == overtaken[n] \cup X
           O == (InMac(Q) \cup {0}) \cap P
<1>1. /\ Kept(n, Local(n)) /\ Local(n).trans = trans[n] /\ DOMAIN trans[n] = Slot
      /\ Backed(n, trans[n], queue[n], overtaken[n])
  BY LocalBacked
<1>2. Queued /\ queue[n] \in [Node \ {n} -> Fifo] /\ queue[n][m] # <<>>
  BY QueuedIs DEF Queued, Done
<1>3. pkt.slot \in Slot \cup {0}
  <2>1. queue[n][m] \in Seq(Frame)
    BY <1>2 DEF Fifo
  <2>2. pkt \in Frame
    BY <1>2, <2>1
  <2> QED
    BY <2>2 DEF Frame
<1>4. Assign(n, st) /\ queue' = [queue EXCEPT ![n] = Q]
  BY DEF Done
<1>5. queue'[n] = Q
  BY <1>2, <1>4 DEF Queued
<1>6. overtaken' = [overtaken EXCEPT ![n] = O]
  BY <1>5 DEF Done, Sound
<1>7. Backed(n, trans[n], Q, overtaken[n]) /\ DOMAIN Q = Node \ {n}
  BY <1>1, <1>2, TailBacked
<1>8. pkt.slot # 0 => Unsent(n, Q, P, pkt.slot)
  <2>1. CASE pkt.slot # 0 /\ pkt.id = trans[n][pkt.slot].id
    <3>1. Unsent(n, Q, overtaken[n], pkt.slot)
      BY <1>1, <1>2, <2>1, TailBacked
    <3> QED
      BY <3>1 DEF Unsent
  <2>2. CASE pkt.slot # 0 /\ pkt.id # trans[n][pkt.slot].id
    <3>1. pkt.slot \in Slot /\ overtaken[n] \cup Overtaken(n, pkt.slot) \subseteq P
      BY <1>3, <2>2 DEF Mistaken
    <3>2. Unsent(n, queue[n], P, pkt.slot)
      BY <3>1, OvertakenUnsent
    <3>3. Q = [queue[n] EXCEPT ![m] = Tail(@)]
      OBVIOUS
    <3> HIDE DEF P, pkt, Q
    <3>4. ASSUME NEW p \in Node \ {n}, NEW i \in DOMAIN Q[p]
          PROVE  \E j \in DOMAIN queue[n][p] : Q[p][i] = queue[n][p][j]
      <4> DEFINE F == queue[n]
      <4>1. F \in [Node \ {n} -> Fifo] /\ F[m] # <<>> /\ Q = [F EXCEPT ![m] = Tail(@)]
        BY <1>2, <3>3
      <4> HIDE DEF F
      <4>2. \E j \in DOMAIN F[p] : Q[p][i] = F[p][j]
        BY <4>1, TailFrom
      <4> QED
        BY <4>2 DEF F
    <3> QED
      BY <3>2, <3>4 DEF Unsent
  <2> QED
    BY <2>1, <2>2
<1> HIDE DEF pkt, Q, X
<1>9. overtaken[n] \subseteq P
  OBVIOUS
<1> HIDE DEF P
<1>10. \/ Idles(Local(n), st)
       \/ pkt.slot # 0 /\ \E tq \in Good(n) : Settles(n, Local(n), st, pkt.slot, tq)
  <2>1. CASE pkt.slot = 0
    BY <2>1 DEF Idles
  <2>2. CASE pkt.slot # 0
    BY <1>1, <1>3, <2>2, mac_callbackMoves
  <2> QED
    BY <2>1, <2>2
<1> HIDE DEF st
<1>11. Backed(n, st.trans, Q, P)
  <2>1. CASE Idles(Local(n), st)
    BY <1>1, <1>7, <1>9, <2>1, MoreBacked DEF Idles
  <2>2. ASSUME NEW tq \in Good(n), pkt.slot # 0, Settles(n, Local(n), st, pkt.slot, tq)
        PROVE  Backed(n, st.trans, Q, P)
    <3>1. st.trans = [trans[n] EXCEPT ![pkt.slot] = tq] /\ Unsent(n, Q, P, pkt.slot)
      BY <1>1, <1>8, <2>2 DEF Settles, Sets
    <3> QED
      BY <1>1, <1>7, <1>9, <3>1, BlockBacked
  <2> QED
    BY <1>10, <2>1, <2>2
<1>12. Backed(n, st.trans, Q, O)
  <2>1. Backed(n, st.trans, Q, InMac(Q) \cap P)
    BY <1>7, <1>11, LessBacked
  <2> QED
    BY <2>1, MoreBacked
<1> QED
  BY <1>4, <1>6, <1>12, OwnStep

LEMMA InputSound ==
  ASSUME SInv, Sound, NEW n \in Node, NEW m \in Node \ {n}, Input(n, m)
  PROVE  Sound'
<1> DEFINE pkt == Head(queue[m][n])
<1>1. /\ Kept(n, Local(n)) /\ Local(n) \in Places(n) /\ Local(n).made = made /\ Local(n).trans = trans[n]
      /\ DOMAIN trans[n] = Slot /\ Local(n).queue = queue[n]
      /\ Backed(n, Local(n).trans, Local(n).queue, overtaken[n])
  BY LocalBacked
<1>2. Queued /\ n \in Node \ {m} /\ queue[m][n] # <<>>
  BY QueuedIs DEF Input
<1>3. pkt \in Frame
  <2>1. queue[m] \in [Node \ {m} -> Fifo]
    BY <1>2 DEF Queued
  <2>2. queue[m][n] \in Seq(Frame)
    BY <1>2, <2>1 DEF Fifo
  <2> QED
    BY <1>2, <2>2
<1>4. PICK outcome \in Outcomes(n, m) :
         LET st == IF pkt.type = "REQUEST" THEN InputRequest(Local(n), m, pkt, outcome)
                   ELSE InputAnswer(Local(n), m, pkt)
         IN /\ Assign(n, st)
            /\ queue' = [queue EXCEPT ![n] = st.queue, ![m][n][1].heard = TRUE]
  BY InputIs
<1> DEFINE st == IF pkt.type = "REQUEST" THEN InputRequest(Local(n), m, pkt, outcome)
                 ELSE InputAnswer(Local(n), m, pkt)
           X == UNION {Overtaken(n, s) : s \in Taker(Local(n), m, pkt)}
           O == IF pkt.type = "REQUEST" THEN overtaken[n] ELSE overtaken[n] \cup X
<1>5. Assign(n, st) /\ queue' = [queue EXCEPT ![n] = st.queue, ![m][n][1].heard = TRUE]
  BY <1>4
<1>6. pkt.type = "REQUEST" => made < MaxRequests
  BY DEF Input
<1>7. overtaken' = [overtaken EXCEPT ![n] = O]
  BY DEF Input, Sound
<1>8. Room(Local(n), m, outcome)
  BY RoomIs
<1> HIDE DEF pkt
<1>9. Backed(n, st.trans, st.queue, O)
  <2>1. CASE pkt.type = "REQUEST"
    <3>1. \/ Idles(Local(n), st) \/ Refuses(Local(n), st, m, pkt)
          \/ Answers(n, Local(n), st, m, "RESPONSE") \/ Opens(n, Local(n), st, m, pkt)
      BY <1>1, <1>3, <1>6, <1>8, <2>1, InputRequestMoves
    <3> HIDE DEF st
    <3>2. Backed(n, st.trans, st.queue, overtaken[n])
      BY <1>1, <1>3, <3>1, RefusesBacked, AnswersBacked, OpensBacked DEF Idles, Type
    <3> QED
      BY <2>1, <3>2
  <2>2. CASE pkt.type # "REQUEST"
    <3>1. \/ Idles(Local(n), st)
          \/ \E s \in Taker(Local(n), m, pkt), tq \in Good(n) : Settles(n, Local(n), st, s, tq)
      BY <1>1, <2>2, InputAnswerMoves
    <3>2. overtaken[n] \subseteq O /\ \A s \in Taker(Local(n), m, pkt) : overtaken[n] \cup Overtaken(n, s) \subseteq O
      BY <2>2
    <3> HIDE DEF st, O
    <3>3. CASE Idles(Local(n), st)
      BY <1>1, <3>2, <3>3, MoreBacked DEF Idles
    <3>4. ASSUME NEW s \in Taker(Local(n), m, pkt), NEW tq \in Good(n), Settles(n, Local(n), st, s, tq)
          PROVE  Backed(n, st.trans, st.queue, O)
      <4>1. s \in Slot /\ st.trans = [Local(n).trans EXCEPT ![s] = tq] /\ st.queue = Local(n).queue
        BY <3>4 DEF Settles, Sets
      <4>2. Unsent(n, Local(n).queue, O, s)
        BY <1>1, <3>2, <4>1, OvertakenUnsent
      <4> QED
        BY <1>1, <3>2, <4>1, <4>2, BlockBacked
    <3> QED
      BY <3>1, <3>3, <3>4
  <2> QED
    BY <2>1, <2>2
<1> HIDE DEF st, O
<1>10. Marks(n, m, st.queue, queue')
  BY <1>2, <1>5, InputMarks
<1>11. trans'[n] = st.trans /\ queue'[n] = st.queue /\ overtaken'[n] = O
  BY <1>5, <1>7, <1>10 DEF Assign, SInv, Sound, Marks
<1>12. ASSUME NEW a \in Node \ {n}
       PROVE  Backed(a, trans'[a], queue'[a], overtaken'[a])
  <2>1. trans'[a] = trans[a] /\ overtaken'[a] = overtaken[a]
    BY <1>5, <1>7 DEF Assign, SInv, Sound
  <2>2. Backed(a, trans[a], queue'[a], overtaken[a])
    BY <1>10, MarkedBacked
  <2> QED
    BY <2>1, <2>2
<1>13. overtaken' = [a \in Node |-> overtaken'[a]]
  BY <1>7 DEF Sound
<1>14. \A a \in Node : Backed(a, trans'[a], queue'[a], overtaken'[a])
  BY <1>9, <1>11, <1>12
<1> QED
  BY <1>13, <1>14 DEF Sound

LEMMA InitSound ==
  ASSUME Init
  PROVE  Sound
<1>1. \A a \in Node : \A b \in Node \ {a} : queue[a][b] = <<>>
  BY DEF Init
<1>2. \A a \in Node : Backed(a, trans[a], queue[a], overtaken[a])
  BY <1>1 DEF Backed
<1> QED
  BY <1>2 DEF Sound, Init

LEMMA SoundKept ==
  ASSUME SInv, Sound, Next
  PROVE  Sound'
<1>1. PICK n \in Node :
        \/ Restart(n)
        \/ \E s \in Slot : ProcessTimer(n, s) \/ Timeout(n, s)
        \/ \E m \in Node \ {n} :
             \/ \E cmd \in Command : SendRequest(n, m, cmd)
             \/ \E type \in {"RESPONSE", "CONFIRMATION"} : SendAnswer(n, m, type)
             \/ Input(n, m)
             \/ \E ok \in BOOLEAN : Done(n, m, ok)
  BY DEF Next
<1>2. CASE Restart(n)
  BY <1>2, RestartSound
<1>3. ASSUME NEW s \in Slot, ProcessTimer(n, s)
      PROVE  Sound'
  BY <1>3, ProcessTimerSound
<1>4. ASSUME NEW s \in Slot, Timeout(n, s)
      PROVE  Sound'
  BY <1>4, TimeoutSound
<1>5. ASSUME NEW m \in Node \ {n}, NEW cmd \in Command, SendRequest(n, m, cmd)
      PROVE  Sound'
  BY <1>5, SendRequestSound
<1>6. ASSUME NEW m \in Node \ {n}, NEW type \in {"RESPONSE", "CONFIRMATION"}, SendAnswer(n, m, type)
      PROVE  Sound'
  BY <1>6, SendAnswerSound
<1>7. ASSUME NEW m \in Node \ {n}, Input(n, m)
      PROVE  Sound'
  BY <1>7, InputSound
<1>8. ASSUME NEW m \in Node \ {n}, NEW ok \in BOOLEAN, Done(n, m, ok)
      PROVE  Sound'
  BY <1>8, DoneSound
<1> QED
  BY <1>1, <1>2, <1>3, <1>4, <1>5, <1>6, <1>7, <1>8

(* mac_callback gets the transaction that its frame was sent for, except   *)
(* in three cases, whatever the MAC, the timers, the peers and reboots do: *)
(* the transaction took an answer, timed out or was given the report of    *)
(* another's frame while the MAC had the frame.  Otherwise it waits for    *)
(* this frame, and no other of its own, in a state of sending, which only  *)
(* these and the report of the frame itself end.                           *)
THEOREM CallbacksAreBound == Spec => []NoDanglingCallback
<1>1. Init => Sound
  BY InitSound
<1>2. SInv /\ Sound /\ [Next]_vars => Sound'
  <2>1. ASSUME SInv, Sound, Next
        PROVE  Sound'
    BY <2>1, SoundKept
  <2>2. ASSUME Sound, UNCHANGED vars
        PROVE  Sound'
    BY <2>2 DEF vars, Sound
  <2> QED
    BY <2>1, <2>2
<1>3. Sound => NoDanglingCallback
  <2> SUFFICES ASSUME Sound, NEW n \in Node, NEW m \in Node \ {n}, NEW i \in DOMAIN queue[n][m],
                      queue[n][m][i].slot # 0, queue[n][m][i].id \notin overtaken[n]
               PROVE  trans[n][queue[n][m][i].slot].id = queue[n][m][i].id
    BY DEF NoDanglingCallback
  <2>1. Backed(n, trans[n], queue[n], overtaken[n])
    BY DEF Sound
  <2> QED
    BY <2>1 DEF Backed, Exempt, Waits
<1> QED
  BY <1>1, <1>2, <1>3, SInvAlways, PTL DEF Spec
================================================================================
