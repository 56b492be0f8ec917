------------------------------- MODULE MCCtimer --------------------------------
(* The runs of Ctimer: an etimer is due at most MaxTime ticks ago, if it    *)
(* was reset long after it expired, and at most the longest interval ahead. *)
EXTENDS Ctimer, TLC

MCDelay == -MaxTime .. 2

Symmetry == Permutations(Timer)
================================================================================
