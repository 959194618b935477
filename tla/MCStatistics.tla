----------------------------- MODULE MCStatistics -----------------------------
(***************************************************************************)
(* Instances of Statistics for TLC.                                        *)
(***************************************************************************)
EXTENDS Statistics, TLC

CONSTANTS i1, i2, i3

(* One critical incident; the others are HIGH.                             *)
MCSeverity == [i \in Incidents |-> IF i = i1 THEN "CRITICAL" ELSE "HIGH"]
=============================================================================
