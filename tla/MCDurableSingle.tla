--------------------------- MODULE MCDurableSingle ---------------------------
(***************************************************************************)
(* DurableSingle for TLC: the workers share the owner name of the HTTP      *)
(* resume route.                                                            *)
(***************************************************************************)
EXTENDS DurableSingle

SharedNames == [w \in Workers |-> "task-api-resume"]
=============================================================================
