------------------------------- MODULE Reassembly -------------------------------
(***************************************************************************)
(* 6LoWPAN fragmentation (os/net/ipv6/sicslowpan.c): output cuts a packet  *)
(* into fragments and hands them to the MAC one after the other; input of  *)
(* a receiver collects them in reassembly contexts and fragment buffers    *)
(* and gives uip_buf to the IP layer when their lengths add up.            *)
(*                                                                         *)
(* The MAC keeps the order of the frames of a sender to one address, and   *)
(* may lose a frame or deliver it again: a fragment leaves the queue it is *)
(* in when the MAC is done with it.  frag_tag, a counter of 16 bits, is a  *)
(* tag the sender has not in use.  A timer is expired or not.              *)
(*                                                                         *)
(* Left out: header compression but for the lengths it makes, packets in   *)
(* one frame, fragments longer than a fragment buffer, and sniffers.       *)
(***************************************************************************)
EXTENDS Naturals, Sequences, FiniteSets, FiniteSetsExt

CONSTANTS
  Packet,            (* what is sent, again and again                       *)
  Src, Dest,         (* a packet's sender and link-layer destination        *)
  uip_len,           (* its length, with the header uncompressed            *)
  uncomp_hdr_len,    (* the length of that header, and compressed           *)
  packetbuf_hdr_len,
  mac_max_payload,   (* NETSTACK_MAC.max_payload()                           *)
  Refused,           (* those whose first fragment input refuses after it   *)
                     (* took a context: its dispatch is unknown, its header *)
                     (* is not uncompressed or longer than the frame, or it *)
                     (* does not fit first_frag                             *)
  Tag,
  NULL,
  SICSLOWPAN_REASS_CONTEXTS,
  SICSLOWPAN_FRAGMENT_BUFFERS,
  UIP_BUFSIZE,
  MaxLength          (* bound: no packet is longer, and the reassembled_len *)
                     (* of a cleared context, which is enough for any then, *)
                     (* counts no further                                   *)

ASSUME ReassemblyAssumption ==
  /\ Tag \subseteq Nat
  /\ NULL \notin Packet /\ Refused \subseteq Packet
  /\ MaxLength \in Nat /\ uip_len \in [Packet -> 0 .. MaxLength]
  /\ {uncomp_hdr_len, packetbuf_hdr_len} \subseteq Nat
  /\ mac_max_payload \in [Packet -> Nat]
  /\ \A p \in Packet :
       /\ 13 <= mac_max_payload[p] /\ packetbuf_hdr_len + 4 <= mac_max_payload[p]
       /\ uip_len[p] + packetbuf_hdr_len > mac_max_payload[p] + uncomp_hdr_len
  /\ SICSLOWPAN_REASS_CONTEXTS \in Nat \ {0} /\ SICSLOWPAN_FRAGMENT_BUFFERS \in Nat
  /\ UIP_BUFSIZE \in Nat

VARIABLES
  air,         (* [sender][destination]: the fragments the MAC has          *)
  frag_info,   (* the reassembly contexts; one is in use if its len > 0     *)
  frag_buf,    (* the fragment buffers; one is in use if its len > 0        *)
  uip          (* what this step gave to tcpip_input, or NULL               *)

vars == <<air, frag_info, frag_buf, uip>>

Context == 1 .. SICSLOWPAN_REASS_CONTEXTS
Buffer  == 1 .. SICSLOWPAN_FRAGMENT_BUFFERS
Sender  == {Src[p] : p \in Packet}
Address == {Dest[p] : p \in Packet}

(* A context keeps its lengths when it is cleared: they are those of the   *)
(* next packet if its first fragment is refused.  first_frag is NULL when  *)
(* it is not the first fragment of the context's packet but what earlier   *)
(* ones left there; of, a history variable, is the packet that took the    *)
(* context.  What else a free context or buffer had is never seen again.   *)
NoContext ==
  [len |-> 0, tag |-> 0, sender |-> NULL, reassembled_len |-> 0, expired |-> FALSE,
   first_frag |-> NULL, first_frag_len |-> 0, of |-> NULL]
ClearContext(info) ==
  [NoContext EXCEPT !.first_frag_len = info.first_frag_len,
     !.reassembled_len = IF info.reassembled_len > MaxLength THEN MaxLength ELSE info.reassembled_len]
NoBuffer == [len |-> 0, index |-> 1, offset |-> 0, data |-> NULL]

Init ==
  /\ air = [s \in Sender |-> [d \in Address |-> << >>]]
  /\ frag_info = [c \in Context |-> NoContext]
  /\ frag_buf = [i \in Buffer |-> NoBuffer]
  /\ uip = NULL

--------------------------------------------------------------------------------
(* output                                                                  *)

Eights(n) == (n \div 8) * 8
frag1_payload(p) == Eights(mac_max_payload[p] - packetbuf_hdr_len - 4)
fragn_max_payload(p) == Eights(mac_max_payload[p] - 5)
last_fragn_max_payload(p) == mac_max_payload[p] - 5

\* where the loop over the subsequent fragments is after j of them, and the
\* number of them that are not the last
processed(p, j) == uncomp_hdr_len + frag1_payload(p) + j * fragn_max_payload(p)
Middles == [p \in Packet |->
  Cardinality({j \in 0 .. uip_len[p] \div 8 :
    processed(p, j) + last_fragn_max_payload(p) < uip_len[p]})]

\* the fragments of a packet, with what they are when uncompressed
Fragment == [p \in Packet |->
  [i \in 0 .. Middles[p] + 1 |->
     IF i = 0 THEN [offset |-> 0, len |-> processed(p, 0)]
     ELSE [offset |-> processed(p, i - 1),
           len |-> IF i <= Middles[p] THEN fragn_max_payload(p)
                   ELSE uip_len[p] - processed(p, i - 1)]]]

InUse(s) ==
  {frag_info[c].tag : c \in {c \in Context : frag_info[c].len > 0 /\ frag_info[c].sender = s}}
    \cup {Head(air[s][d]).tag : d \in {d \in Address : air[s][d] # << >>}}

(* The first n fragments of p are accepted by the MAC; if those are not    *)
(* all, the next one found no queue buffer or was refused by the MAC.      *)
output(p, n) ==
  LET s   == Src[p]
      tag == Min(Tag \ InUse(s))
  IN  /\ air[s][Dest[p]] = << >> /\ Tag \ InUse(s) # {}
      /\ air' = [air EXCEPT ![s][Dest[p]] = [i \in 1 .. n |-> [pkt |-> p, tag |-> tag, i |-> i - 1]]]
      /\ uip' = NULL
      /\ UNCHANGED <<frag_info, frag_buf>>

(* The MAC is done with a fragment, whether it arrived or was lost.        *)
Leave(s, d) ==
  /\ air[s][d] # << >>
  /\ air' = [air EXCEPT ![s][d] = Tail(@)]
  /\ uip' = NULL
  /\ UNCHANGED <<frag_info, frag_buf>>

--------------------------------------------------------------------------------
(* input                                                                   *)

\* mutant of clear_fragments
clear_fragmentsNextOnly(C, bufs) ==
  LET mine == {i \in Buffer : bufs[i].len > 0 /\ bufs[i].index \in C}
  IN  [i \in Buffer |-> IF i \in mine /\ i = Min(mine) THEN NoBuffer ELSE bufs[i]]
\* clear_fragments, for the contexts of C: their buffers, and themselves
clear_fragments(C, bufs) ==
  [i \in Buffer |-> IF bufs[i].len > 0 /\ bufs[i].index \in C THEN NoBuffer ELSE bufs[i]]
Cleared(C) == [c \in Context |-> IF c \in C THEN ClearContext(frag_info[c]) ELSE frag_info[c]]

\* mutant of Expired
ExpiredNever == {}
Expired == {c \in Context : frag_info[c].len > 0 /\ frag_info[c].expired}
FreeBuffers(bufs) == {i \in Buffer : bufs[i].len = 0}

\* add_fragment: the first fragment f takes a context
Taken(info, f) ==
  [ClearContext(info) EXCEPT !.len = uip_len[f.pkt], !.tag = f.tag, !.sender = Src[f.pkt], !.of = f.pkt]

\* the rest of input for a first fragment: the context gets its header and payload
WithFirst(info, f) ==
  LET n == Fragment[f.pkt][0].len
  IN  [info EXCEPT !.reassembled_len = n, !.first_frag_len = n, !.first_frag = <<f.pkt, f.tag>>]

(* input of a first fragment                                               *)
FirstFragment(f) ==
  LET free == {c \in Context : frag_info[c].len = 0} \cup Expired
      found == Min(free)
      info == Taken(frag_info[found], f)
      large == Fragment[f.pkt][0].len > UIP_BUFSIZE
  IN  /\ f.i = 0
      /\ frag_buf' = clear_fragments(Expired, frag_buf)
      /\ frag_info' = IF free = {} THEN frag_info
                      ELSE [Cleared(Expired) EXCEPT
                             ![found] = IF f.pkt \in Refused THEN info
                                        ELSE IF large THEN ClearContext(info)
                                        ELSE WithFirst(info, f)]
      /\ uip' = NULL

\* copy_frags2uip: the contents of uip_buf, or NULL
copy_frags2uip(f, info, chunks) ==
  IF \/ info.len < info.first_frag_len \/ info.len > UIP_BUFSIZE
     \/ \E j \in DOMAIN chunks : chunks[j].offset + chunks[j].len > UIP_BUFSIZE
  THEN NULL
  ELSE [len |-> uip_len[f.pkt], first |-> info.first_frag, chunks |-> chunks,
        of |-> <<info.of, info.tag>>]

\* mutant of Session
SessionAnySender(f) == {c \in Context : frag_info[c].tag = f.tag /\ frag_info[c].len > 0}
\* add_fragment: the contexts of a subsequent fragment
Session(f) ==
  {c \in Context : /\ frag_info[c].tag = f.tag
                   /\ frag_info[c].len > 0
                   /\ frag_info[c].sender = Src[f.pkt]}

\* timeout_fragments, when there is no buffer for a fragment of context c
Late(c) == IF FreeBuffers(frag_buf) = {} THEN Expired \ {c} ELSE {}

(* input of a subsequent fragment                                          *)
NFragment(f) ==
  LET part == Fragment[f.pkt][f.i]
      c    == Min(Session(f))
      bufs == clear_fragments(Late(c), frag_buf)
      i    == Min(FreeBuffers(bufs))
      kept == [bufs EXCEPT ![i] = [len |-> part.len, index |-> c, offset |-> part.offset,
                                   data |-> <<f.pkt, f.tag, f.i>>]]
      more == [frag_info[c] EXCEPT !.reassembled_len = @ + part.len]
      full == more.reassembled_len >= uip_len[f.pkt]
      large == part.offset + part.len > UIP_BUFSIZE
      chunks == [j \in {j \in Buffer : kept[j].len > 0 /\ kept[j].index = c} |-> kept[j]]
  IN  /\ f.i > 0
      /\ IF Session(f) = {}
         THEN UNCHANGED <<frag_info, frag_buf>> /\ uip' = NULL
         ELSE IF FreeBuffers(bufs) = {}
         THEN frag_info' = Cleared(Late(c)) /\ UNCHANGED frag_buf /\ uip' = NULL
         ELSE /\ frag_buf' = IF full \/ large THEN clear_fragments({c}, kept) ELSE kept
              /\ frag_info' = [Cleared(Late(c)) EXCEPT
                   ![c] = IF large THEN ClearContext(more)
                          ELSE IF full THEN ClearContext([more EXCEPT !.reassembled_len = uip_len[f.pkt]])
                          ELSE more]
              /\ uip' = IF full /\ ~large THEN copy_frags2uip(f, frag_info[c], chunks) ELSE NULL

(* The receiver gets a fragment, perhaps once more; the sender may still   *)
(* have to transmit it again.                                              *)
Input(s, d) ==
  /\ air[s][d] # << >>
  /\ LET f == Head(air[s][d])
     IN  FirstFragment(f) \/ NFragment(f)
  /\ UNCHANGED air

Expire(c) ==
  /\ frag_info[c].len > 0 /\ ~frag_info[c].expired
  /\ frag_info' = [frag_info EXCEPT ![c].expired = TRUE]
  /\ uip' = NULL
  /\ UNCHANGED <<air, frag_buf>>

--------------------------------------------------------------------------------
Next ==
  \/ \E p \in Packet : \E n \in DOMAIN Fragment[p] : output(p, n + 1)
  \/ \E s \in Sender, d \in Address : Leave(s, d) \/ Input(s, d)
  \/ \E c \in Context : Expire(c)

Spec == Init /\ [][Next]_vars

(* Packets are sent again and again, the MAC gets done with fragments, and *)
(* of the first fragments that are sent some arrive.                       *)
Sends == \E p \in Packet : \E n \in DOMAIN Fragment[p] : output(p, n + 1)
Leaves == \E s \in Sender, d \in Address : Leave(s, d)
FirstArrives ==
  \E s \in Sender, d \in Address : air[s][d] # << >> /\ Head(air[s][d]).i = 0 /\ Input(s, d)
FairSpec == Spec /\ WF_vars(Sends) /\ WF_vars(Leaves) /\ SF_vars(FirstArrives)

--------------------------------------------------------------------------------
(* Properties.                                                             *)

\* the numbers of the fragments in the buffers that were copied
Copied(u) == {u.chunks[j].data[3] : j \in DOMAIN u.chunks}

(* What input gives to the IP layer fits uip_buf and has the length of the *)
(* packet that took the context, and no fragment of another.  If that      *)
(* packet's first fragment was not refused it begins with it and, unless   *)
(* the MAC delivered one of the others twice, it has all of them: the      *)
(* lengths add up to nothing else.                                         *)
DeliveredWhole ==
  uip # NULL =>
    LET p == uip.of[1]
    IN  /\ uip.len = uip_len[p] /\ uip.len <= UIP_BUFSIZE
        /\ \A j \in DOMAIN uip.chunks : <<uip.chunks[j].data[1], uip.chunks[j].data[2]>> = uip.of
        /\ uip.first # NULL =>
             /\ uip.first = uip.of
             /\ Cardinality(Copied(uip)) = Cardinality(DOMAIN uip.chunks)
                  => Copied(uip) = 1 .. Middles[p] + 1

\* the sum of the lengths of some buffers
Lengths(bufs, S) == MapThenSumSet(LAMBDA i : bufs[i].len, S)

(* A buffer in use belongs to a context in use and holds a fragment of the *)
(* packet that took it.  A context that got its first fragment has counted *)
(* that and its buffers, which are not yet enough: nothing leaks through   *)
(* time-outs, failures and lack of room, and nothing complete waits.  (One *)
(* whose first fragment was refused counts from what it had before.)       *)
Accounted ==
  /\ \A i \in Buffer : frag_buf[i].len > 0 =>
       LET info == frag_info[frag_buf[i].index]
       IN  info.len > 0 /\ <<frag_buf[i].data[1], frag_buf[i].data[2]>> = <<info.of, info.tag>>
  /\ \A c \in Context : frag_info[c].len > 0 /\ frag_info[c].first_frag # NULL =>
       LET kept == {i \in Buffer : frag_buf[i].len > 0 /\ frag_buf[i].index = c}
       IN  /\ frag_info[c].reassembled_len =
                frag_info[c].first_frag_len + Lengths(frag_buf, kept)
           /\ frag_info[c].reassembled_len < frag_info[c].len

(* No timer of a context is ever served: yet a packet that will not become *)
(* complete does not keep its context while others have something to send. *)
ExpiredIsFreed ==
  \A c \in Context : frag_info[c].len > 0 /\ frag_info[c].expired
                     ~> frag_info[c].len = 0 \/ ~frag_info[c].expired

(* "Ensure that no previous data is used for reassembly in case of missing *)
(* fragments" (sicslowpan.c:429), which is not so for one whose first      *)
(* fragment was refused: the packet begins with its own first fragment.    *)
NoPreviousData == uip # NULL => uip.first = uip.of
================================================================================
