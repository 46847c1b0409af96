--------------------------- MODULE MCDurableStore ---------------------------
(***************************************************************************)
(* DurableStore with two workers that share the owner name of the HTTP      *)
(* resume route (the case only the epoch can tell apart) and two reconcilers. *)
(***************************************************************************)
EXTENDS DurableStore

CONSTANTS api1, api2

SharedNames == [w \in Workers |-> "task-api-resume"]
=============================================================================
