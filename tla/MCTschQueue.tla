------------------------------ MODULE MCTschQueue ------------------------------
(* Two packets to a neighbor on the shared link, of which one may be       *)
(* transmitted twice, one to a neighbor with a link, and a broadcast.      *)
EXTENDS TschQueue, TLC

CONSTANTS k1, k2, k3, k4, b, u, v

MCDest == k1 :> u @@ k2 :> u @@ k3 :> v @@ k4 :> b
MCLimit == k1 :> 2 @@ k2 :> 1 @@ k3 :> 1 @@ k4 :> 1
================================================================================
