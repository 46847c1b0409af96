---------------------------- MODULE MCDurableTeam ----------------------------
(***************************************************************************)
(* DurableTeam for TLC: the workers share the owner name of the HTTP resume  *)
(* route, and an artifact is a handoff digest with a role attempt.           *)
(***************************************************************************)
EXTENDS DurableTeam

SharedNames == [w \in Workers |-> "task-api-resume"]

TeamArtifacts == [digest : Handoffs \cup {NoHandoff}, attempt : Attempts]
=============================================================================
