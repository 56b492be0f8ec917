------------------------------- MODULE MCMacLink -------------------------------
(* Two frames for the receiver, one of which may be transmitted twice, a    *)
(* broadcast, and one for another node; two blocks for three destinations.  *)
EXTENDS MacLink, TLC

CONSTANTS k1, k2, k3, k4, r, s, b

MCLimit == k1 :> 2 @@ k2 :> 1 @@ k3 :> 1 @@ k4 :> 1
MCDest == k1 :> r @@ k2 :> r @@ k3 :> b @@ k4 :> s
================================================================================
