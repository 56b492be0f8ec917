------------------------------- MODULE MCEtimer --------------------------------
(* Two processes with a timer each; either may exit while the other's timer *)
(* runs.                                                                    *)
EXTENDS Etimer, TLC

CONSTANTS e1, e2, a, b

MCUser == e1 :> {a} @@ e2 :> {b}
================================================================================
