---------------------------- MODULE MCDelegation ----------------------------
(* Model checking of Delegation: two delegations of the one task of a plan. *)
EXTENDS Delegation

MCTasks == {PlanTask}
=============================================================================
