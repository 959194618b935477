--------------------------- MODULE MCScanPipeline ---------------------------
(***************************************************************************)
(* Instances of ScanPipeline for TLC.                                      *)
(***************************************************************************)
EXTENDS ScanPipeline, TLC

CONSTANTS RetryLimit   \* the same max_retries for every task

MCMaxRetries == [t \in Tasks |-> RetryLimit]

(* Workers are interchangeable; no property names one.                     *)
WorkerSymmetry == Permutations(Workers)
=============================================================================
