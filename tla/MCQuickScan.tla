------------------------------ MODULE MCQuickScan ------------------------------
(***************************************************************************)
(* Instances of QuickScan for TLC.  No property tells the clients apart,   *)
(* and none is temporal.                                                   *)
(***************************************************************************)
EXTENDS QuickScan, TLC

ClientSymmetry == Permutations(Clients)
=============================================================================
