--------------------------- MODULE MCTaskRuntime ---------------------------
(* Model checking of TaskRuntime.  Task ids are interchangeable.  No action *)
(* reads a revision or the events of an earlier transaction, so states that *)
(* differ only in them are one state of the search; the action properties  *)
(* about them are checked on every step.                                   *)
EXTENDS TaskRuntime, TLC

Symmetry == Permutations(Tasks)

View == <<goal.status, goal.plan, [p \in Plans |-> plan[p].status],
          [t \in Tasks |-> [task[t] EXCEPT !.revision = 0]], deps>>
=============================================================================
