---------------------------- MODULE MCCoordinator ----------------------------
(***************************************************************************)
(* Coordinator for TLC: two hosts, or one host and its restart.  Usage is   *)
(* observed but not limited.                                                *)
(***************************************************************************)
EXTENDS Coordinator, TLC

NoLimits == [d \in Dims |-> 0]
Hosts    == Permutations(Coordinators)

OneGoal    == [t \in Tasks |-> "g1"]
TwoGoals   == [t \in Tasks |-> IF t < Cardinality(Tasks) THEN "g1" ELSE "g2"]
NoDeps     == [t \in Tasks |-> {}]
Chain      == [t \in Tasks |-> {u \in Tasks : u = t - 1 /\ GoalOf[u] = GoalOf[t]}]
FullPolicy == {Operations}
BothPolicies == {{"execute_task"}, Operations}
=============================================================================
