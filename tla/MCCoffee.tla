------------------------------- MODULE MCCoffee -------------------------------
(* A file that is written, and one that is only reserved and removed; or   *)
(* two that are only made, opened, reserved and removed.                   *)
EXTENDS Coffee, TLC

CONSTANTS f1, f2, d1, d2

Both == {{"CFS_WRITE", "CFS_APPEND"}}
MCFlags == f1 :> Both @@ f2 :> {}
MCMaxUnits == f1 :> 2 @@ f2 :> 0
MCReserve == f1 :> {4} @@ f2 :> {4}
ScanFlags == f1 :> Both @@ f2 :> Both
ScanMaxUnits == f1 :> 0 @@ f2 :> 0
ScanReserve == f1 :> {2} @@ f2 :> {2}
Symmetry == Permutations(Data)

=============================================================================
