--------------------------- MODULE MCWindowBudget ---------------------------
(***************************************************************************)
(* WindowBudget for TLC: token units are enforced, cost units only observed.*)
(* Coordinators and messages are interchangeable.                           *)
(***************************************************************************)
EXTENDS WindowBudget, TLC

Limits       == [token |-> 2, cost |-> 0]
Reservations == [token |-> 1, cost |-> 0]
TaskUsages   == {[token |-> 1, cost |-> 1]}
Alike        == Permutations(Coordinators) \cup Permutations(Messages)
=============================================================================
