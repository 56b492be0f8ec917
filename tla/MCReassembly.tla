------------------------------ MODULE MCReassembly ------------------------------
(* A node sends packets of three fragments and of two, whose first one is  *)
(* refused; another sends packets of two fragments.                        *)
EXTENDS Reassembly, TLC

CONSTANTS p1, p2, p3, s1, s2, r

MCSrc == p1 :> s1 @@ p2 :> s1 @@ p3 :> s2
MCDest == [p \in Packet |-> r]
MCLen == p1 :> 80 @@ p2 :> 64 @@ p3 :> 64
MCPayload == [p \in Packet |-> 23]
================================================================================
