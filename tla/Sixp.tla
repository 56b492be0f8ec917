--------------------------------- MODULE Sixp ----------------------------------
(***************************************************************************)
(* The 6top protocol of os/net/mac/tsch/sixtop: sixp.c, sixp-trans.c and   *)
(* sixp-nbr.c on every node of a small network.  A node has a pool of      *)
(* transactions, at most one per peer, and keeps for each peer the SeqNum  *)
(* of its next request.  A transaction has one ctimer: "process" stands    *)
(* for the immediate one that runs process_trans after every transition,   *)
(* "timeout" for the interval of the scheduling function.                  *)
(*                                                                         *)
(* The MAC below is external: a FIFO per peer.  The frame at its head may  *)
(* reach the peer, and is reported to mac_callback later, as sent (only if *)
(* it was heard) or as failed (also if every acknowledgement of a frame    *)
(* that was heard was lost).  The scheduling function above is external    *)
(* too: it calls sixp_output whenever it likes and its handlers do not     *)
(* change the state of 6P; neither does the sent callback it passes.       *)
(* Packet bodies are left out, except that a request with an empty cell    *)
(* list makes a 3-step transaction.                                        *)
(***************************************************************************)
EXTENDS Naturals, Sequences, FiniteSets, FiniteSetsExt, Functions

CONSTANTS
  Node,
  NULL,
  SIXTOP_MAX_TRANSACTIONS,
  SeqnoMax,     (* the largest SeqNum, 255                                  *)
  QueueSize,    (* of the MAC, per peer                                     *)
  Initiator,    (* the nodes whose scheduling function makes requests       *)
  Command,      (* what it asks for                                         *)
  MaxRequests,  (* bound: transactions made, on all nodes                   *)
  MaxResets     (* bound: nodes rebooted and CLEARs asked for               *)

ASSUME SixpAssumption ==
  /\ NULL \notin Node \cup 0..SeqnoMax /\ Initiator \subseteq Node
  /\ SIXTOP_MAX_TRANSACTIONS \in Nat \ {0} /\ SeqnoMax \in Nat \ {0, 1} /\ QueueSize \in Nat \ {0}
  /\ Command \subseteq {"ADD", "ADD_ANY", "CLEAR"}   (* ADD_ANY: no cell list *)
  /\ MaxRequests \in Nat /\ MaxResets \in Nat

Slot == 1..SIXTOP_MAX_TRANSACTIONS

VARIABLES
  trans,        (* trans_memb of each node; its list is the slots in Listed  *)
  next_seqno,   (* sixp_nbr of each node and peer, NULL if there is none     *)
  queue,        (* the MAC's frames from a node to a peer                    *)
  made,         (* history: transactions allocated                           *)
  resets,       (* history: reboots and CLEARs                               *)
  receded,      (* history: was a next_seqno ever set to a smaller one?      *)
  strayed,      (* history: was an answer ever taken for one to another      *)
                (* request?                                                  *)
  overtaken     (* history: the ids of each node's transactions that were    *)
                (* answered, timed out or got the report of another's frame  *)
                (* while the MAC still had a frame of theirs; and 0 once any *)
                (* transaction got the report of another's frame             *)

vars == <<trans, next_seqno, queue, made, resets, receded, strayed, overtaken>>

Sending == {"REQUEST_SENDING", "RESPONSE_SENDING", "CONFIRMATION_SENDING"}
State == Sending \cup
  {"UNAVAILABLE", "INIT", "REQUEST_SENT", "REQUEST_RECEIVED", "RESPONSE_SENT", "RESPONSE_RECEIVED",
   "CONFIRMATION_SENT", "CONFIRMATION_RECEIVED", "TERMINATING", "WAIT_FREE"}
Type == {"REQUEST", "RESPONSE", "CONFIRMATION"}

(* history of a transaction: id numbers it, request is the id of the        *)
(* transaction whose request it is about                                    *)
NoTrans == [state |-> "UNAVAILABLE", peer |-> NULL, cmd |-> NULL, seqno |-> 0, timer |-> "off",
            id |-> 0, request |-> 0]

(* a frame of the MAC queue; slot is the argument of mac_callback, 0 if no  *)
(* callback was given                                                       *)
Frame == [type : Type, cmd : Command \cup {NULL}, seqno : 0..SeqnoMax, slot : Slot \cup {0},
          id : 0..MaxRequests, request : 1..MaxRequests, heard : BOOLEAN]

Init ==
  /\ trans = [n \in Node |-> [s \in Slot |-> NoTrans]]
  /\ next_seqno = [n \in Node |-> [m \in Node \ {n} |-> NULL]]
  /\ queue = [n \in Node |-> [m \in Node \ {n} |-> <<>>]]
  /\ made = 0
  /\ resets = 0
  /\ receded = FALSE
  /\ strayed = FALSE
  /\ overtaken = [n \in Node |-> {}]

(* What the handlers of a node work on                                      *)
Local(n) == [trans |-> trans[n], next |-> next_seqno[n], queue |-> queue[n], made |-> made]

(* trans_list                                                               *)
Listed(st) == {s \in Slot : st.trans[s].state \notin {"UNAVAILABLE", "WAIT_FREE"}}
Unused(st) == {s \in Slot : st.trans[s].state = "UNAVAILABLE"}

\* mutant of Find
FindGoingOn(st, m) ==
  {s \in Listed(st) : st.trans[s].peer = m /\ st.trans[s].state # "TERMINATING"}
(* sixp_trans_find: the set of the transaction with the peer, or empty      *)
Find(st, m) == {s \in Listed(st) : st.trans[s].peer = m}
The(S) == CHOOSE s \in S : TRUE

(* determine_trans_mode                                                     *)
ThreeStep(tr) == tr.cmd = "ADD_ANY"

(* sixp_nbr_increment_next_seqno                                            *)
Increment(k) == IF k = SeqnoMax THEN 1 ELSE k + 1
--------------------------------------------------------------------------------
(* The transition rules of sixp_trans_transit_state                         *)
Permitted(tr, new) ==
  \/ new = "TERMINATING"
  \/ <<tr.state, new>> \in {
       <<"INIT", "REQUEST_SENDING">>, <<"REQUEST_SENDING", "REQUEST_SENT">>,
       <<"INIT", "REQUEST_RECEIVED">>, <<"REQUEST_RECEIVED", "RESPONSE_SENDING">>,
       <<"RESPONSE_SENDING", "RESPONSE_SENT">>,
       <<"REQUEST_SENDING", "RESPONSE_RECEIVED">>, <<"REQUEST_SENT", "RESPONSE_RECEIVED">>}
  \/ /\ ThreeStep(tr)
     /\ <<tr.state, new>> \in {
          <<"RESPONSE_SENT", "CONFIRMATION_RECEIVED">>, <<"RESPONSE_SENDING", "CONFIRMATION_RECEIVED">>,
          <<"RESPONSE_RECEIVED", "CONFIRMATION_SENDING">>, <<"CONFIRMATION_SENDING", "CONFIRMATION_SENT">>}

\* mutant of Counts
CountsEvery(tr, new) == new = "RESPONSE_SENT"
(* A response that was sent settles the SeqNum of the peer, except that it  *)
(* stays 0 after a CLEAR                                                    *)
Counts(tr, new) == new = "RESPONSE_SENT" /\ tr.cmd # "CLEAR"

(* sixp_trans_transit_state                                                 *)
Transit(st, s, new) ==
  LET tr == st.trans[s]
      counts == Counts(tr, new) /\ st.next[tr.peer] # NULL
  IN IF ~Permitted(tr, new) THEN st
     ELSE [st EXCEPT !.trans[s].state = new, !.trans[s].timer = "process",
                     !.next[tr.peer] = IF counts THEN Increment(tr.seqno) ELSE @]

(* sixp_trans_free                                                          *)
Freed(st, s) ==
  [st EXCEPT !.trans[s] = IF @.state \in Sending
                          THEN [@ EXCEPT !.state = "WAIT_FREE", !.timer = "off"]
                          ELSE NoTrans]

(* sixp_trans_alloc: start_trans_timer sets the timeout                     *)
Alloc(st, m, cmd, seqno, request) ==
  [st EXCEPT !.made = @ + 1,
             !.trans[Min(Unused(st))] =
               [NoTrans EXCEPT !.state = "INIT", !.peer = m, !.cmd = cmd, !.seqno = seqno,
                               !.timer = "timeout", !.id = made + 1, !.request = request]]

(* What may become of a packet given to sixtop_output: it joins the queue   *)
(* of the MAC, the MAC refuses it and calls mac_callback at once, which     *)
(* changes nothing in the states it can find, or sixtop_output has no room  *)
(* for its headers and fails.                                               *)
Outcomes(n, m) == {"refused", "no_room"} \cup (IF Len(queue[n][m]) < QueueSize THEN {"queued"} ELSE {})

sixtop_output(st, m, frame, outcome) ==
  IF outcome = "queued" THEN [st EXCEPT !.queue[m] = Append(@, frame)] ELSE st

FrameOf(type, tr, s) ==
  [type |-> type, cmd |-> IF type = "REQUEST" THEN tr.cmd ELSE NULL, seqno |-> tr.seqno,
   slot |-> s, id |-> tr.id, request |-> tr.request, heard |-> FALSE]
--------------------------------------------------------------------------------
(* sixp_output: the state of the transaction it asks for                    *)
Accepts(st, m, type) ==
  CASE type = "REQUEST"      -> Find(st, m) = {}
    [] type = "RESPONSE"     -> \E s \in Find(st, m) : st.trans[s].state = "REQUEST_RECEIVED"
    [] type = "CONFIRMATION" -> \E s \in Find(st, m) : st.trans[s].state = "RESPONSE_RECEIVED"

(* A neighbor is kept for a request and for the response to one             *)
WithNbr(st, m, cmd, type) ==
  [st EXCEPT !.next[m] = IF @ = NULL /\ (type = "REQUEST" \/ (type = "RESPONSE" /\ cmd # "CLEAR"))
                         THEN 0 ELSE @]

Request(st, m, cmd, outcome) ==
  LET st1 == WithNbr(st, m, cmd, "REQUEST")
      st2 == Alloc(st1, m, cmd, st1.next[m], made + 1)
      s == The(Find(st2, m))
      st3 == sixtop_output(st2, m, FrameOf("REQUEST", st2.trans[s], s), outcome)
      st4 == [st3 EXCEPT !.next[m] = IF cmd = "CLEAR" THEN 0 ELSE Increment(@)]
  IN IF Unused(st) = {} THEN st1
     ELSE IF outcome = "no_room" THEN [st1 EXCEPT !.made = @ + 1]  (* sixp_trans_abort frees it *)
     ELSE Transit(st4, s, "REQUEST_SENDING")

Answer(st, m, type, outcome) ==
  LET s == The(Find(st, m))
      st1 == WithNbr(st, m, st.trans[s].cmd, type)
      st2 == sixtop_output(st1, m, FrameOf(type, st.trans[s], s), outcome)
  IN IF outcome = "no_room" THEN st1
     ELSE Transit(st2, s, IF type = "RESPONSE" THEN "RESPONSE_SENDING" ELSE "CONFIRMATION_SENDING")

Recedes(old, new) == old # NULL /\ (new = NULL \/ new < old)

Assign(n, st) ==
  /\ trans' = [trans EXCEPT ![n] = st.trans]
  /\ next_seqno' = [next_seqno EXCEPT ![n] = st.next]
  /\ made' = st.made
  /\ receded' = (receded \/ \E m \in Node \ {n} : Recedes(next_seqno[n][m], st.next[m]))

(* sixp_output called by the scheduling function, which confirms the        *)
(* response of a 3-step transaction only; a CLEAR resets the SeqNums        *)
SendRequest(n, m, cmd) ==
  /\ n \in Initiator
  /\ Accepts(Local(n), m, "REQUEST")
  /\ made < MaxRequests
  /\ cmd = "CLEAR" => resets < MaxResets
  /\ resets' = IF cmd = "CLEAR" THEN resets + 1 ELSE resets
  /\ \E outcome \in Outcomes(n, m) :
       LET st == Request(Local(n), m, cmd, outcome)
       IN Assign(n, st) /\ queue' = [queue EXCEPT ![n] = st.queue]
  /\ UNCHANGED <<strayed, overtaken>>

SendAnswer(n, m, type) ==
  /\ Accepts(Local(n), m, type)
  /\ type = "CONFIRMATION" => \A s \in Find(Local(n), m) : ThreeStep(trans[n][s])
  /\ \E outcome \in Outcomes(n, m) :
       LET st == Answer(Local(n), m, type, outcome)
       IN Assign(n, st) /\ queue' = [queue EXCEPT ![n] = st.queue]
  /\ UNCHANGED <<resets, strayed, overtaken>>
--------------------------------------------------------------------------------
(* send_back_error: an error response without a transaction of its own ...  *)
Rejected(st, m, pkt, outcome) ==
  sixtop_output(st, m, [pkt EXCEPT !.type = "RESPONSE", !.cmd = NULL, !.slot = 0, !.id = 0,
                                   !.heard = FALSE], outcome)

(* ... or, for RC_ERR_SEQNUM, as the response of the one that waits for it  *)
Inconsistent(st, m, pkt, outcome) ==
  IF Accepts(st, m, "RESPONSE") THEN Answer(st, m, "RESPONSE", outcome) ELSE Rejected(st, m, pkt, outcome)

(* sixp_input, for a request                                                *)
InputRequest(st, m, pkt, outcome) ==
  LET st1 == [st EXCEPT !.next[m] = IF pkt.cmd = "CLEAR" /\ @ # NULL THEN 0 ELSE @]
      st2 == Alloc(st1, m, pkt.cmd, pkt.seqno, pkt.request)
      st3 == Transit(st2, The(Find(st2, m)), "REQUEST_RECEIVED")
      rebooted == \E s \in Find(st, m) : (pkt.seqno = 0) # (st.trans[s].seqno = 0)
      unexpected == IF st.next[m] = NULL THEN pkt.seqno # 0 ELSE st.next[m] # 0 /\ pkt.seqno = 0
  IN CASE Find(st, m) # {} ->
            IF pkt.cmd # "CLEAR" /\ rebooted THEN Inconsistent(st, m, pkt, outcome)
            ELSE Rejected(st, m, pkt, outcome)
       [] Find(st, m) = {} /\ Unused(st) = {} -> Rejected(st1, m, pkt, outcome)
       [] OTHER -> IF pkt.cmd # "CLEAR" /\ unexpected THEN Inconsistent(st3, m, pkt, outcome) ELSE st3

\* mutant of Matches
MatchesAny(tr, pkt) == TRUE
(* sixp_input: the transaction an answer is for                             *)
Matches(tr, pkt) == tr.seqno = pkt.seqno

(* sixp_input, for a response or a confirmation: what it makes of the      *)
(* transaction with the peer if the SeqNum and the state are right          *)
Answered(pkt) == IF pkt.type = "RESPONSE" THEN "RESPONSE_RECEIVED" ELSE "CONFIRMATION_RECEIVED"
Taker(st, m, pkt) ==
  {s \in Find(st, m) : Matches(st.trans[s], pkt) /\ Permitted(st.trans[s], Answered(pkt))}
InputAnswer(st, m, pkt) ==
  IF Taker(st, m, pkt) = {} THEN st ELSE Transit(st, The(Taker(st, m, pkt)), Answered(pkt))

Strays(n, m, pkt) ==
  pkt.type # "REQUEST" /\ \E s \in Taker(Local(n), m, pkt) : trans[n][s].request # pkt.request

(* The transactions of a node that its MAC, with the queues Q, has a frame of*)
InMac(Q) == {f.id : f \in {g \in UNION {Range(Q[m]) : m \in DOMAIN Q} : g.slot # 0}}
Overtaken(n, s) == {trans[n][s].id} \cap InMac(queue[n])

(* The frame at the head of m's queue for n reaches n.  The answer to a     *)
(* frame may come before mac_callback reports that frame: the process of    *)
(* TSCH passes on what was received before it reports what was sent.        *)
Input(n, m) ==
  /\ queue[m][n] # <<>>
  /\ LET pkt == Head(queue[m][n])
     IN /\ ~pkt.heard
        /\ pkt.type = "REQUEST" => made < MaxRequests
        /\ \E st \in IF pkt.type = "REQUEST"
                   THEN {InputRequest(Local(n), m, pkt, outcome) : outcome \in Outcomes(n, m)}
                   ELSE {InputAnswer(Local(n), m, pkt)} :
             /\ Assign(n, st)
             /\ queue' = [queue EXCEPT ![n] = st.queue, ![m][n][1].heard = TRUE]
        /\ strayed' = (strayed \/ Strays(n, m, pkt))
        /\ overtaken' = IF pkt.type = "REQUEST" THEN overtaken
                        ELSE [overtaken EXCEPT ![n] =
                                @ \cup UNION {Overtaken(n, s) : s \in Taker(Local(n), m, pkt)}]
  /\ UNCHANGED resets
--------------------------------------------------------------------------------
(* mac_callback: the state that the outcome of a transmission leads to      *)
Reported(state, ok) ==
  CASE ok /\ state = "REQUEST_SENDING"      -> "REQUEST_SENT"
    [] ok /\ state = "RESPONSE_SENDING"     -> "RESPONSE_SENT"
    [] ok /\ state = "CONFIRMATION_SENDING" -> "CONFIRMATION_SENT"
    [] ~ok /\ state = "REQUEST_SENDING"     -> "TERMINATING"
    [] OTHER                                -> state

mac_callback(st, s, ok) ==
  LET state == st.trans[s].state
      new == Reported(state, ok)
  IN IF state = "WAIT_FREE" THEN Freed(st, s)
     ELSE IF new = state THEN st
     ELSE Transit(st, s, IF Permitted(st.trans[s], new) THEN new ELSE "TERMINATING")

(* The transaction that gets the report of pkt, another's frame             *)
Mistaken(n, pkt) ==
  IF pkt.slot = 0 \/ pkt.id = trans[n][pkt.slot].id THEN {}
  ELSE Overtaken(n, pkt.slot) \cup (IF trans[n][pkt.slot].id = 0 THEN {} ELSE {0})

(* The MAC is done with the frame at the head of a queue                    *)
Done(n, m, ok) ==
  /\ queue[n][m] # <<>>
  /\ LET pkt == Head(queue[n][m])
     IN /\ ok => pkt.heard
        /\ Assign(n, IF pkt.slot = 0 THEN Local(n) ELSE mac_callback(Local(n), pkt.slot, ok))
        /\ queue' = [queue EXCEPT ![n][m] = Tail(@)]
        /\ overtaken' = [overtaken EXCEPT ![n] =
                           (InMac(queue'[n]) \cup {0}) \cap (@ \cup Mistaken(n, pkt))]
  /\ UNCHANGED <<resets, strayed>>
--------------------------------------------------------------------------------
\* mutant of Finished
FinishedEarly(tr) == ~ThreeStep(tr)
(* process_trans                                                            *)
Finished(tr) ==
  \/ tr.state \in {"RESPONSE_SENT", "RESPONSE_RECEIVED"} /\ ~ThreeStep(tr)
  \/ tr.state \in {"CONFIRMATION_SENT", "CONFIRMATION_RECEIVED"}

\* mutant of process_trans
process_transOnce(st, s) ==
  CASE st.trans[s].state = "TERMINATING" -> Freed(st, s)
    [] Finished(st.trans[s])             -> Transit(st, s, "TERMINATING")
    [] OTHER                             -> [st EXCEPT !.trans[s].timer = "off"]
process_trans(st, s) ==
  CASE st.trans[s].state = "TERMINATING" -> Freed(st, s)
    [] Finished(st.trans[s])             -> Transit(st, s, "TERMINATING")
    [] OTHER                             -> [st EXCEPT !.trans[s].timer = "timeout"]

ProcessTimer(n, s) ==
  /\ trans[n][s].timer = "process"
  /\ Assign(n, process_trans(Local(n), s))
  /\ UNCHANGED <<queue, resets, strayed, overtaken>>

(* handle_trans_timeout, whatever the MAC still has                         *)
Timeout(n, s) ==
  /\ trans[n][s].timer = "timeout"
  /\ Assign(n, Transit(Local(n), s, "TERMINATING"))
  /\ overtaken' = [overtaken EXCEPT ![n] = @ \cup Overtaken(n, s)]
  /\ UNCHANGED <<queue, resets, strayed>>

(* A node reboots: sixp_init, and the queues of its MAC are gone            *)
Booted(n) ==
  [trans |-> [s \in Slot |-> NoTrans], next |-> [m \in Node \ {n} |-> NULL],
   queue |-> [m \in Node \ {n} |-> <<>>], made |-> made]

Restart(n) ==
  /\ resets < MaxResets
  /\ resets' = resets + 1
  /\ Assign(n, Booted(n))
  /\ queue' = [queue EXCEPT ![n] = Booted(n).queue]
  /\ overtaken' = [overtaken EXCEPT ![n] = {}]
  /\ UNCHANGED strayed
--------------------------------------------------------------------------------
Next ==
  \E n \in Node :
    \/ Restart(n)
    \/ \E s \in Slot : ProcessTimer(n, s) \/ Timeout(n, s)
    \/ \E m \in Node \ {n} :
         \/ \E cmd \in Command : SendRequest(n, m, cmd)
         \/ \E type \in {"RESPONSE", "CONFIRMATION"} : SendAnswer(n, m, type)
         \/ Input(n, m)
         \/ \E ok \in BOOLEAN : Done(n, m, ok)

Spec == Init /\ [][Next]_vars

(* The system does not stop while a ctimer is to fire or the MAC has a      *)
(* frame: that much both promise, and in runs of this length, which come to *)
(* an end, it is all that is needed.                                        *)
Progress ==
  \E n \in Node :
    \/ \E s \in Slot : ProcessTimer(n, s) \/ Timeout(n, s)
    \/ \E m \in Node \ {n}, ok \in BOOLEAN : Done(n, m, ok)

FairSpec == Spec /\ WF_vars(Progress)
--------------------------------------------------------------------------------
Transaction ==
  [state : State, peer : Node \cup {NULL}, cmd : Command \cup {NULL}, seqno : 0..SeqnoMax,
   timer : {"off", "process", "timeout"}, id : 0..MaxRequests, request : 0..MaxRequests]

(* Types; a SeqNum stays a byte, and only a free block has no peer          *)
TypeOK ==
  /\ trans \in [Node -> [Slot -> Transaction]]
  /\ \A n \in Node : DOMAIN next_seqno[n] = Node \ {n} /\ DOMAIN queue[n] = Node \ {n}
  /\ \A n \in Node : \A m \in Node \ {n} :
       /\ next_seqno[n][m] \in 0..SeqnoMax \cup {NULL}
       /\ queue[n][m] \in Seq(Frame) /\ Len(queue[n][m]) <= QueueSize
  /\ \A n \in Node, s \in Slot : trans[n][s].state = "UNAVAILABLE" <=> trans[n][s].peer = NULL
  /\ made \in 0..MaxRequests /\ resets \in 0..MaxResets
  /\ receded \in BOOLEAN /\ strayed \in BOOLEAN
  /\ overtaken \in [Node -> SUBSET (0..MaxRequests)]

(* "memory is freed later, when mac_callback in sixp.c is called"           *)
(* (sixp-trans.c:126): that does not keep the block, for sixp_trans_free is *)
(* called in state TERMINATING only.  The block of a frame that the MAC     *)
(* still has is freed, or given to another transaction, and mac_callback    *)
(* gets a dangling pointer.  It does so in three cases and in no other,     *)
(* whatever is lost, late or refused and whoever reboots: the transaction   *)
(* took an answer before the report of its frame, it timed out, or it got   *)
(* the report of another's frame, whose block it had been given.            *)
NoDanglingCallback ==
  \A n \in Node : \A m \in Node \ {n} : \A i \in DOMAIN queue[n][m] :
    LET f == queue[n][m][i] IN f.slot # 0 => trans[n][f.slot].id = f.id \/ f.id \in overtaken[n]

(* A transaction never takes the answer to another request for the answer   *)
(* to its own, however late answers come and whatever is lost, as long as   *)
(* nobody starts again at SeqNum 0 and no SeqNum goes back: it comes round  *)
(* at the end of its range, and a response sets it to that of the request.  *)
AnswersMatch == resets = 0 /\ ~receded => ~strayed

(* "increment/update next_seqno immediately to prevent the next request     *)
(* from having the same seqno [...] a delayed response [...] may be handled *)
(* mistakenly for the next request" (sixp.c:497): it never is, though       *)
(* nobody rebooted or asked for a CLEAR, the SeqNums did not come round, and *)
(* no transaction got the report of another's frame.                        *)
NoLateAnswer ==
  resets = 0 /\ MaxRequests < SeqnoMax /\ (\A n \in Node : 0 \notin overtaken[n]) => ~strayed

(* sixp_trans_find looks for one transaction: no node ever has two with the *)
(* same peer, even when both ends start one at the same time                *)
OnePerPeer ==
  \A n \in Node : \A s, t \in Listed(Local(n)) : trans[n][s].peer = trans[n][t].peer => s = t

(* The assertion of sixp_trans_transit_state: while the response to a CLEAR *)
(* is on its way nothing gives the peer another SeqNum than 0               *)
ClearKeepsZero ==
  \A n \in Node : \A s \in Listed(Local(n)) :
    LET tr == trans[n][s]
    IN tr.cmd = "CLEAR" /\ tr.state \in {"REQUEST_RECEIVED", "RESPONSE_SENDING", "RESPONSE_SENT"}
       => next_seqno[n][tr.peer] \in {0, NULL}

(* Every block of the pool comes back, again and again, whatever is lost    *)
(* and whoever reboots: a transaction that has it ends.                     *)
TransEnds == \A n \in Node, s \in Slot : []<>(trans[n][s].state = "UNAVAILABLE")
================================================================================
