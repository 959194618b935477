----------------------------- MODULE MCEgressProxy -----------------------------
(***************************************************************************)
(* Instances of EgressProxy for TLC.                                       *)
(***************************************************************************)
EXTENDS EgressProxy

MCAnswers == {{}, {"public"}, {"public", "blocked"}}
=============================================================================
