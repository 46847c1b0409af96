-------------------------- MODULE MCGoalLifecycle --------------------------
(***************************************************************************)
(* GoalLifecycle for TLC: a plan of one task and one whose first task        *)
(* depends on the second, or a plan of two independent tasks and a third.    *)
(* Callers are interchangeable.                                              *)
(***************************************************************************)
EXTENDS GoalLifecycle, TLC

Item(i, d) == [id |-> i, deps |-> d]

OutOfOrder == <<Item("T2", {"T1"}), Item("T1", {})>>
Short      == <<Item("T1", {})>>

MixedPlans   == {Short, OutOfOrder}
Forked       == <<Item("T1", {}), Item("T2", {}), Item("T3", {"T1"})>>
ForkedPlans  == {Forked}
FullPolicy   == {Operations}
BothPolicies == {{"execute_task"}, Operations}
Alike        == Permutations(Callers)
=============================================================================
