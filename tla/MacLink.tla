-------------------------------- MODULE MacLink --------------------------------
(***************************************************************************)
(* A CSMA link: the node of Csma sends to Receiver, whose                  *)
(* os/net/mac/csma/csma.c drops the frames that os/net/mac/mac-sequence.c  *)
(* finds to be duplicates.  The link loses frames and acknowledgments; a   *)
(* frame keeps the sequence number it got when it was queued, over all its *)
(* retransmissions.  Other nodes' frames reach the receiver in between.    *)
(*                                                                         *)
(* The receiver keeps one number per sender, that of the last new frame.   *)
(* Its age is compared modulo the clock's width: an entry gets too old     *)
(* (SEQNO_MAX_AGE), and young again a turn of the clock later.             *)
(***************************************************************************)
EXTENDS Csma

CONSTANTS
  Receiver,    (* the address of the receiving node                         *)
  Broadcast,   (* the broadcast address                                     *)
  Sender,      (* the address of the sending node                           *)
  Other,       (* other nodes the receiver hears                            *)
  DsnSize,     (* 2^8: sequence numbers have 8 bits                         *)
  OtherSeqnos, (* the sequence numbers the other nodes use                  *)
  MAX_SEQNOS

ASSUME LinkAssumption == DsnSize \in Nat \ {0} /\ MAX_SEQNOS \in Nat \ {0} /\ Sender \notin Other

VARIABLES
  mac_dsn,          (* of the sender                                        *)
  seqno,            (* a packet's PACKETBUF_ATTR_MAC_SEQNO                  *)
  received_seqnos,  (* of the receiver: [sender, seqno, old], newest first  *)
  delivered,        (* history: the packets that reached the network layer  *)
  latest,           (* history: the sender's packet registered last, and    *)
  since,            (* ... the other nodes registered since                 *)
  handed,           (* history: mac_dsn and seqno without the 8 bits        *)
  number

sending   == <<mac_dsn, seqno, handed, number>>
receiving == <<received_seqnos, delivered, latest, since>>
lvars     == <<vars, sending, receiving>>

\* mac_sequence_init; the table's unused entries hold no node's address
LInit ==
  /\ Init
  /\ mac_dsn \in 0 .. DsnSize - 1
  /\ seqno = [k \in Packet |-> 0]
  /\ received_seqnos = << >>
  /\ delivered = {}
  /\ latest = NULL /\ since = {}
  /\ handed = mac_dsn /\ number = [k \in Packet |-> 0]

--------------------------------------------------------------------------------
(* mac-sequence.c, as operators on the table.                              *)

Positions(s) == {i \in DOMAIN received_seqnos : received_seqnos[i].sender = s}

\* mutant of mac_sequence_is_duplicate
mac_sequence_is_duplicateAnySender(s, d) ==
  \E i \in DOMAIN received_seqnos : received_seqnos[i].seqno = d /\ ~received_seqnos[i].old
mac_sequence_is_duplicate(s, d) ==
  Positions(s) # {} /\ LET e == received_seqnos[Min(Positions(s))] IN e.seqno = d /\ ~e.old

\* mutant of Registered
RegisteredBehind(s, d) ==
  LET all == Append(received_seqnos, [sender |-> s, seqno |-> d, old |-> FALSE])
  IN  SubSeq(all, 1, Min({Len(all), MAX_SEQNOS}))
\* the entries before that of s move back by one; without one, the last goes
Registered(s, d) ==
  LET gone == IF Positions(s) # {} THEN Min(Positions(s))
              ELSE IF Len(received_seqnos) = MAX_SEQNOS THEN MAX_SEQNOS
              ELSE Len(received_seqnos) + 1
  IN  <<[sender |-> s, seqno |-> d, old |-> FALSE]>>
        \o SubSeq(received_seqnos, 1, gone - 1)
        \o SubSeq(received_seqnos, gone + 1, Len(received_seqnos))

--------------------------------------------------------------------------------
\* csma_output_packet takes the next sequence number, also for a packet it refuses
LSend(k) ==
  /\ Send(k)
  /\ seqno' = [seqno EXCEPT ![k] = mac_dsn]
  /\ mac_dsn' = (mac_dsn + 1) % DsnSize
  /\ number' = [number EXCEPT ![k] = handed] /\ handed' = handed + 1
  /\ UNCHANGED receiving

\* input_packet of the receiver, for packet k
Input(k) ==
  IF mac_sequence_is_duplicate(Sender, seqno[k])
  THEN UNCHANGED receiving
  ELSE /\ received_seqnos' = Registered(Sender, seqno[k])
       /\ delivered' = delivered \cup {k}
       /\ latest' = k /\ since' = {}

\* may a frame with outcome s have reached the receiver?  Any frame of three
\* bytes with its number passes for its acknowledgment, and without one it
\* may have been received nevertheless; a broadcast that collided was not sent
Reaches(n, s) ==
  IF addr[n] = Receiver \/ (addr[n] = Broadcast /\ s # "COLLISION") THEN BOOLEAN ELSE {FALSE}

\* a broadcast is not acknowledged
Possible(n, s) == addr[n] = Broadcast => s # "NOACK"

LTransmit(n, s) ==
  /\ Possible(n, s)
  /\ Transmit(n, s)
  /\ \E hit \in Reaches(n, s) :
       IF hit THEN Input(Head(packet_queue[n])) ELSE UNCHANGED receiving
  /\ UNCHANGED sending

\* a frame of another node reaches the receiver
Hears(o, d) ==
  /\ ~mac_sequence_is_duplicate(o, d)
  /\ received_seqnos' = Registered(o, d)
  /\ since' = since \cup {o}
  /\ UNCHANGED <<vars, sending, delivered, latest>>

Ages(i) ==
  /\ received_seqnos' = [received_seqnos EXCEPT ![i].old = ~@]
  /\ UNCHANGED <<vars, sending, delivered, latest, since>>

LNext ==
  \/ \E k \in Packet : LSend(k)
  \/ \E n \in Block, s \in Outcome : LTransmit(n, s)
  \/ \E o \in Other, d \in OtherSeqnos : Hears(o, d)
  \/ \E i \in DOMAIN received_seqnos : Ages(i)

LSpec == LInit /\ [][LNext]_lvars

LFairSpec == LSpec /\ \A n \in Block : WF_lvars(\E s \in Outcome : LTransmit(n, s))

--------------------------------------------------------------------------------
(* Properties.                                                             *)

\* is the receiver's number not k's any more: replaced, pushed off the table
\* by other senders, or too old?
Displaced(k) ==
  \/ latest # k
  \/ Cardinality(since) >= MAX_SEQNOS
  \/ \E i \in Positions(Sender) : received_seqnos[i].old

(* A frame that is transmitted again, as its acknowledgment was lost, is   *)
(* not delivered again, unless the receiver has since registered another   *)
(* frame of that sender (a broadcast in between is enough), or frames of   *)
(* as many other senders as its table has entries, or its entry is too     *)
(* old.  "The last few ones we saw" (mac-sequence.h:63) is one number per  *)
(* sender.                                                                 *)
NotAgain ==
  \A k \in delivered :
    report[k] = "queued" => mac_sequence_is_duplicate(Sender, seqno[k]) \/ Displaced(k)

(* A frame never delivered is taken for a duplicate only when the sender's *)
(* sequence number has come round: the last frame the receiver registered  *)
(* of that sender is another, a whole number of rounds away.  So neither a *)
(* refused packet, nor a retransmission, nor another sender makes a new    *)
(* frame a duplicate.                                                      *)
DroppedIsRound ==
  \A k \in Packet \ delivered :
    report[k] = "queued" /\ mac_sequence_is_duplicate(Sender, seqno[k]) =>
      /\ latest \in Packet /\ number[latest] # number[k]
      /\ number[latest] % DsnSize = number[k] % DsnSize
================================================================================
