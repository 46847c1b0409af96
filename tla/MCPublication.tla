---------------------------- MODULE MCPublication ----------------------------
(***************************************************************************)
(* Publication for TLC: two callers repeat one request, a third sends another. *)
(***************************************************************************)
EXTENDS Publication

Requests == [c \in Callers |-> IF c = "c3" THEN "d2" ELSE "d1"]
=============================================================================
