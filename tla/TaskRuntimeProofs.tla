------------------------- MODULE TaskRuntimeProofs -------------------------
(* Proofs about TaskRuntime, for every set of tasks and every bound, and   *)
(* about the loops of SpecValidation, for every graph.                     *)
EXTENDS TaskRuntime, SpecValidation, FiniteSetTheorems, WellFoundedInduction, TLAPS

\* What the rows keep to besides the properties: the active plan is a plan
\* that was created, and only tasks of a plan have a status.
RowsOK ==
    /\ goal.status # "none" => goal.plan \in Plans
    /\ goal.status = "none" => /\ goal.plan = 0
                               /\ \A p \in Plans : plan[p].status = "none"
                               /\ \A t \in Tasks : task[t].plan = 0
    /\ \A t \in Tasks : task[t].plan = 0 <=> task[t].status = "none"

\* The inductive invariant.
IInv ==
    /\ TypeOK
    /\ RowsOK
    /\ DepsComplete
    /\ OpenGoalHasOpenTask
    /\ OnePlanActive
    /\ CompletedPlanIsDone
    /\ OwnerRuns
    /\ RetryWithinBudget

-----------------------------------------------------------------------------
(* Lemmas about the operators of the model.                                *)

\* The table of transitions, spelled out: what may lead where.
LEMMA Table ==
    ASSUME NEW s \in TaskStatus, NEW target \in TaskTransitions[s]
    PROVE  /\ target \in TaskStatus
           /\ s \notin {"completed", "cancelled"}
           /\ target = "running" => s = "ready"
           /\ target = "waiting_retry" => s = "running"
           /\ target = "completed" => s \in {"ready", "running"}
BY DEF TaskStatus, TaskTransitions

\* What each write to a row of plan_tasks sets and leaves.
LEMMA BumpRow ==
    ASSUME NEW row \in TaskType
    PROVE  /\ Bump(row) \in TaskType
           /\ Bump(row).revision = row.revision + 1
           /\ Bump(row).plan = row.plan /\ Bump(row).status = row.status
           /\ Bump(row).mode = row.mode /\ Bump(row).owner = row.owner
           /\ Bump(row).attempt = row.attempt
           /\ Bump(row).max_attempts = row.max_attempts
BY DEF Bump, TaskType

LEMMA MoveRow ==
    ASSUME NEW row \in TaskType, NEW s \in TaskStatus
    PROVE  /\ Move(row, s) \in TaskType
           /\ Move(row, s).revision = row.revision + 1
           /\ Move(row, s).plan = row.plan /\ Move(row, s).status = s
           /\ Move(row, s).mode = row.mode /\ Move(row, s).owner = row.owner
           /\ Move(row, s).attempt = row.attempt
           /\ Move(row, s).max_attempts = row.max_attempts
<1> DEFINE moved == [row EXCEPT !.status = s]
<1>1. /\ moved \in TaskType
      /\ moved.revision = row.revision /\ moved.plan = row.plan /\ moved.status = s
      /\ moved.mode = row.mode /\ moved.owner = row.owner
      /\ moved.attempt = row.attempt /\ moved.max_attempts = row.max_attempts
  BY DEF TaskType
<1> HIDE DEF moved
<1>2. QED BY <1>1, BumpRow DEF Move, moved

LEMMA StartRow ==
    ASSUME NEW row \in TaskType, NEW actor \in Actors
    PROVE  /\ Start(row, actor) \in TaskType
           /\ Start(row, actor).revision = row.revision + 1
           /\ Start(row, actor).plan = row.plan
           /\ Start(row, actor).status = "running"
           /\ Start(row, actor).mode = row.mode
<1> DEFINE tried == [row EXCEPT !.attempt = @ + 1]
           owned == [tried EXCEPT !.owner = actor]
<1>1. /\ tried \in TaskType
      /\ tried.plan = row.plan /\ tried.mode = row.mode
      /\ tried.revision = row.revision
  BY DEF TaskType
<1> HIDE DEF tried
<1>2. /\ owned \in TaskType
      /\ owned.plan = row.plan /\ owned.mode = row.mode
      /\ owned.revision = row.revision
  BY <1>1 DEF TaskType
<1> HIDE DEF owned
<1>3. Start(row, actor) = Move(owned, "running")
  BY DEF Start, owned, tried
<1>4. "running" \in TaskStatus
  BY DEF TaskStatus
<1>5. QED BY <1>2, <1>3, <1>4, MoveRow

LEMMA LeaveRow ==
    ASSUME NEW row \in TaskType, NEW s \in TaskStatus
    PROVE  /\ Leave(row, s) \in TaskType
           /\ Leave(row, s).revision = row.revision + 1
           /\ Leave(row, s).plan = row.plan /\ Leave(row, s).status = s
           /\ Leave(row, s).owner = NULL
           /\ Leave(row, s).attempt = row.attempt
           /\ Leave(row, s).max_attempts = row.max_attempts
<1> DEFINE left == [row EXCEPT !.owner = NULL]
<1>1. /\ left \in TaskType
      /\ left.plan = row.plan /\ left.revision = row.revision /\ left.owner = NULL
      /\ left.attempt = row.attempt /\ left.max_attempts = row.max_attempts
  BY DEF TaskType
<1> HIDE DEF left
<1>2. Leave(row, s) = Move(left, s)
  BY DEF Leave, left
<1>3. QED BY <1>1, <1>2, MoveRow

LEMMA AssignRow ==
    ASSUME NEW row \in TaskType, NEW mode \in {"agent", "human"}
    PROVE  /\ Assign(row, mode) \in TaskType
           /\ Assign(row, mode).revision = row.revision + 1
           /\ Assign(row, mode).plan = row.plan
           /\ Assign(row, mode).status = row.status
           /\ Assign(row, mode).owner = NULL
           /\ Assign(row, mode).attempt = row.attempt
           /\ Assign(row, mode).max_attempts = row.max_attempts
<1> DEFINE left == [row EXCEPT !.owner = NULL]
           assigned == [left EXCEPT !.mode = mode]
<1>1. /\ left \in TaskType
      /\ left.plan = row.plan /\ left.revision = row.revision
      /\ left.owner = NULL /\ left.status = row.status
      /\ left.attempt = row.attempt /\ left.max_attempts = row.max_attempts
  BY DEF TaskType
<1> HIDE DEF left
<1>2. /\ assigned \in TaskType
      /\ assigned.plan = row.plan /\ assigned.revision = row.revision
      /\ assigned.owner = NULL /\ assigned.status = row.status
      /\ assigned.attempt = row.attempt /\ assigned.max_attempts = row.max_attempts
  BY <1>1 DEF TaskType
<1> HIDE DEF assigned
<1>3. Assign(row, mode) = Bump(assigned)
  BY DEF Assign, assigned, left
<1>4. QED BY <1>2, <1>3, BumpRow

\* The same writes on the rows of plans and of the goal.
LEMMA MovePlanAndGoal ==
    ASSUME TypeOK
    PROVE  /\ \A p \in Plans, s \in {"superseded", "completed", "failed"} :
                 /\ Move(plan[p], s) \in PlanType
                 /\ Move(plan[p], s).status = s
                 /\ Move(plan[p], s).revision = plan[p].revision + 1
           /\ \A p \in Plans : /\ Bump(plan[p]) \in PlanType
                               /\ Bump(plan[p]).status = plan[p].status
                               /\ Bump(plan[p]).revision = plan[p].revision + 1
           /\ \A s \in {"active", "paused", "completed", "failed"} :
                 /\ Move(goal, s) \in GoalType
                 /\ Move(goal, s).status = s /\ Move(goal, s).plan = goal.plan
                 /\ Move(goal, s).revision = goal.revision + 1
           /\ \A p \in Plans :
                 /\ Bump([goal EXCEPT !.plan = p]) \in GoalType
                 /\ Bump([goal EXCEPT !.plan = p]).status = goal.status
                 /\ Bump([goal EXCEPT !.plan = p]).plan = p
                 /\ Bump([goal EXCEPT !.plan = p]).revision = goal.revision + 1
<1>1. goal \in GoalType /\ \A p \in Plans : plan[p] \in PlanType
  BY DEF TypeOK
<1>2. ASSUME NEW row \in PlanType
      PROVE  /\ Bump(row) \in PlanType
             /\ Bump(row).status = row.status /\ Bump(row).revision = row.revision + 1
  BY DEF Bump, PlanType
<1>3. ASSUME NEW row \in GoalType
      PROVE  /\ Bump(row) \in GoalType
             /\ Bump(row).status = row.status /\ Bump(row).plan = row.plan
             /\ Bump(row).revision = row.revision + 1
  BY DEF Bump, GoalType
<1>4. ASSUME NEW p \in Plans, NEW s \in {"superseded", "completed", "failed"}
      PROVE  /\ [plan[p] EXCEPT !.status = s] \in PlanType
             /\ [plan[p] EXCEPT !.status = s].status = s
             /\ [plan[p] EXCEPT !.status = s].revision = plan[p].revision
  BY <1>1 DEF PlanType
<1>5. ASSUME NEW s \in {"active", "paused", "completed", "failed"}
      PROVE  /\ [goal EXCEPT !.status = s] \in GoalType
             /\ [goal EXCEPT !.status = s].status = s
             /\ [goal EXCEPT !.status = s].plan = goal.plan
             /\ [goal EXCEPT !.status = s].revision = goal.revision
  BY <1>1 DEF GoalType
<1>6. ASSUME NEW p \in Plans
      PROVE  /\ [goal EXCEPT !.plan = p] \in GoalType
             /\ [goal EXCEPT !.plan = p].plan = p
             /\ [goal EXCEPT !.plan = p].status = goal.status
             /\ [goal EXCEPT !.plan = p].revision = goal.revision
  BY <1>1 DEF GoalType, Plans
<1>7. \A p \in Plans, s \in {"superseded", "completed", "failed"} :
         /\ Move(plan[p], s) \in PlanType
         /\ Move(plan[p], s).status = s
         /\ Move(plan[p], s).revision = plan[p].revision + 1
  <2> TAKE p \in Plans, s \in {"superseded", "completed", "failed"}
  <2> DEFINE moved == [plan[p] EXCEPT !.status = s]
  <2>1. moved \in PlanType /\ moved.status = s /\ moved.revision = plan[p].revision
    BY <1>4
  <2>2. Move(plan[p], s) = Bump(moved)
    BY DEF Move
  <2> HIDE DEF moved
  <2>3. QED BY <2>1, <2>2, <1>2
<1>8. \A s \in {"active", "paused", "completed", "failed"} :
         /\ Move(goal, s) \in GoalType
         /\ Move(goal, s).status = s /\ Move(goal, s).plan = goal.plan
         /\ Move(goal, s).revision = goal.revision + 1
  <2> TAKE s \in {"active", "paused", "completed", "failed"}
  <2> DEFINE moved == [goal EXCEPT !.status = s]
  <2>1. /\ moved \in GoalType /\ moved.status = s
        /\ moved.plan = goal.plan /\ moved.revision = goal.revision
    BY <1>5
  <2>2. Move(goal, s) = Bump(moved)
    BY DEF Move
  <2> HIDE DEF moved
  <2>3. QED BY <2>1, <2>2, <1>3
<1>9. \A p \in Plans :
         /\ Bump([goal EXCEPT !.plan = p]) \in GoalType
         /\ Bump([goal EXCEPT !.plan = p]).status = goal.status
         /\ Bump([goal EXCEPT !.plan = p]).plan = p
         /\ Bump([goal EXCEPT !.plan = p]).revision = goal.revision + 1
  <2> TAKE p \in Plans
  <2> DEFINE moved == [goal EXCEPT !.plan = p]
  <2>1. /\ moved \in GoalType /\ moved.status = goal.status
        /\ moved.plan = p /\ moved.revision = goal.revision
    BY <1>6
  <2> HIDE DEF moved
  <2>2. /\ Bump(moved) \in GoalType /\ Bump(moved).status = goal.status
        /\ Bump(moved).plan = p /\ Bump(moved).revision = goal.revision + 1
    BY <2>1, <1>3
  <2>3. QED BY <2>2 DEF moved
<1>10. QED BY <1>1, <1>2, <1>7, <1>8, <1>9

-----------------------------------------------------------------------------
(* The lemmas that say what transition_task does to the rows.              *)

\* The task it is called for, and every other one.
LEMMA RowsAfterTransition ==
    ASSUME IInv, NEW t \in Tasks, NEW target \in TaskStatus, NEW actor \in Actors,
           TransitionTask(t, target, actor)
    PROVE  \E result \in TaskStatus, p \in Plans :
           /\ result = Outcome(t, target) /\ p = task[t].plan
           /\ task[t].status \in TaskStatus \ {"completed", "cancelled"}
           /\ result = "running" => task[t].mode = "agent"
           /\ result = "waiting_retry" => task[t].attempt < task[t].max_attempts
           /\ result \in {"running", "waiting_retry", "completed", "ready"} => DepsDone(t)
           /\ task'[t] = IF result = "running" THEN Start(task[t], actor)
                                               ELSE Leave(task[t], result)
           /\ \A c \in Tasks \ {t} :
                 \/ task'[c] = task[c]
                 \/ /\ result = "completed" /\ c \in Unlocked(t)
                    /\ task'[c] = Move(task[c], "ready")
                 \/ /\ result \in {"failed", "cancelled"} /\ c \in Doomed(t)
                    /\ task'[c] = Move(task[c], "failed")
<1> DEFINE result == Outcome(t, target)
<1>1. task[t].status \in TaskStatus /\ target \in TaskTransitions[task[t].status]
  BY DEF TransitionTask, TransitionAllowed
<1>2. result \in TaskStatus /\ task[t].status \notin {"completed", "cancelled"}
  BY <1>1, Table DEF Outcome, TaskStatus
<1>3. task[t].plan \in Plans
  BY <1>1, TaskRuntimeAssumption DEF IInv, RowsOK, TypeOK, TaskType, Plans, TaskStatus
<1>4. result \in {"running", "waiting_retry", "completed", "ready"} => DepsDone(t)
  BY <1>1, Table DEF IInv, DepsComplete, TransitionTask, TransitionAllowed, Outcome
<1>5. /\ result = "running" => task[t].mode = "agent"
      /\ result = "waiting_retry" => task[t].attempt < task[t].max_attempts
  <2>1. task[t].attempt \in Nat /\ task[t].max_attempts \in Nat
    BY DEF IInv, TypeOK, TaskType
  <2>2. QED BY <2>1 DEF TransitionTask, TransitionAllowed, Outcome
<1>6. \A c \in Tasks : task'[c] =
        IF c = t
        THEN IF result = "running" THEN Start(task[t], actor) ELSE Leave(task[t], result)
        ELSE IF c \in (IF result = "completed" THEN Unlocked(t) ELSE {})
        THEN Move(task[c], "ready")
        ELSE IF c \in (IF result \in {"failed", "cancelled"} THEN Doomed(t) ELSE {})
        THEN Move(task[c], "failed")
        ELSE task[c]
  BY Zenon DEF TransitionTask
<1> HIDE DEF result
<1>7. \A c \in Tasks \ {t} :
         \/ task'[c] = task[c]
         \/ /\ result = "completed" /\ c \in Unlocked(t)
            /\ task'[c] = Move(task[c], "ready")
         \/ /\ result \in {"failed", "cancelled"} /\ c \in Doomed(t)
            /\ task'[c] = Move(task[c], "failed")
  <2> TAKE c \in Tasks \ {t}
  <2>1. QED BY <1>6, Zenon
<1>8. task'[t] = IF result = "running" THEN Start(task[t], actor)
                                       ELSE Leave(task[t], result)
  BY <1>6
<1>9. result = Outcome(t, target)
  BY DEF result
<1>10. QED BY <1>1, <1>2, <1>3, <1>4, <1>5, <1>7, <1>8, <1>9, Zenon

\* The same, field by field: what a transition may do to any task's row.
LEMMA FieldsAfterTransition ==
    ASSUME IInv, NEW t \in Tasks, NEW target \in TaskStatus, NEW actor \in Actors,
           TransitionTask(t, target, actor)
    PROVE  \A c \in Tasks :
           /\ task'[c] \in TaskType
           /\ task'[c].plan = task[c].plan
           /\ task[c].plan = 0 => task'[c] = task[c]
           /\ task'[c] = task[c] \/ task'[c].revision = task[c].revision + 1
           /\ task[c].status \in {"completed", "cancelled"} => task'[c] = task[c]
           /\ task'[c].status \in TaskStatus \/ task'[c] = task[c]
           /\ task'[c].owner # NULL => task'[c].status = "running" /\ task'[c].mode = "agent"
           /\ task'[c].status = "waiting_retry" => task'[c].attempt < task'[c].max_attempts
<1>1. PICK result \in TaskStatus, p \in Plans :
         /\ result = Outcome(t, target) /\ p = task[t].plan
         /\ task[t].status \in TaskStatus \ {"completed", "cancelled"}
         /\ result = "running" => task[t].mode = "agent"
         /\ result = "waiting_retry" => task[t].attempt < task[t].max_attempts
         /\ task'[t] = IF result = "running" THEN Start(task[t], actor)
                                             ELSE Leave(task[t], result)
         /\ \A c \in Tasks \ {t} :
               \/ task'[c] = task[c]
               \/ /\ result = "completed" /\ c \in Unlocked(t)
                  /\ task'[c] = Move(task[c], "ready")
               \/ /\ result \in {"failed", "cancelled"} /\ c \in Doomed(t)
                  /\ task'[c] = Move(task[c], "failed")
  BY RowsAfterTransition, Zenon
<1>2. \A c \in Tasks : task[c] \in TaskType
  BY DEF IInv, TypeOK
<1>3. p # 0
  BY DEF Plans
<1> TAKE c \in Tasks
<1>4. /\ task[c].owner # NULL => task[c].status = "running" /\ task[c].mode = "agent"
      /\ task[c].status = "waiting_retry" => task[c].attempt < task[c].max_attempts
      /\ task[c].plan = 0 <=> task[c].status = "none"
  BY DEF IInv, OwnerRuns, RetryWithinBudget, RowsOK
<1>5. CASE c = t /\ result = "running"
  <2>1. task'[c] = Start(task[c], actor)
    BY <1>1, <1>5
  <2>2. "running" \in TaskStatus
    BY DEF TaskStatus
  <2>3. /\ task[c] \in TaskType /\ task[c].mode = "agent" /\ task[c].plan # 0
        /\ task[c].status \notin {"completed", "cancelled"}
    BY <1>1, <1>2, <1>3, <1>5
  <2>4. QED BY <2>1, <2>2, <2>3, StartRow
<1>6. CASE c = t /\ result # "running"
  <2>1. task'[c] = Leave(task[c], result)
    BY <1>1, <1>6
  <2>2. /\ task[c] \in TaskType /\ task[c].plan # 0
        /\ task[c].status \notin {"completed", "cancelled"}
        /\ result = "waiting_retry" => task[c].attempt < task[c].max_attempts
    BY <1>1, <1>2, <1>3, <1>6
  <2>3. QED BY <2>1, <2>2, LeaveRow
<1>7. CASE c # t /\ task'[c] = task[c]
  BY <1>2, <1>4, <1>7
<1>8. CASE task[c].status \in {"pending", "ready"} /\
           (task'[c] = Move(task[c], "ready") \/ task'[c] = Move(task[c], "failed"))
  <2>1. "ready" \in TaskStatus /\ "failed" \in TaskStatus
    BY DEF TaskStatus
  <2>2. /\ task[c] \in TaskType /\ task[c].owner = NULL /\ task[c].plan # 0
        /\ task[c].status \notin {"completed", "cancelled"}
    BY <1>2, <1>4, <1>8
  <2>3. PICK s \in TaskStatus : s \in {"ready", "failed"} /\ task'[c] = Move(task[c], s)
    BY <2>1, <1>8
  <2>4. /\ Move(task[c], s) \in TaskType
        /\ Move(task[c], s).revision = task[c].revision + 1
        /\ Move(task[c], s).plan = task[c].plan /\ Move(task[c], s).status = s
        /\ Move(task[c], s).owner = task[c].owner
    BY <2>2, MoveRow, Zenon
  <2>5. /\ task'[c] \in TaskType /\ task'[c].revision = task[c].revision + 1
        /\ task'[c].plan = task[c].plan /\ task'[c].status \in {"ready", "failed"}
        /\ task'[c].owner = NULL
    BY <2>2, <2>3, <2>4
  <2>6. QED BY <2>1, <2>2, <2>5
<1>9. /\ c \in Unlocked(t) => task[c].status = "pending"
      /\ c \in Doomed(t) => task[c].status \in {"pending", "ready"}
  BY Zenon DEF Unlocked, Doomed
<1>10. QED BY <1>1, <1>5, <1>6, <1>7, <1>8, <1>9

\* Which open task a transition leaves open, and what its status becomes.
LEMMA StatusAfterTransition ==
    ASSUME IInv, NEW t \in Tasks, NEW target \in TaskStatus, NEW actor \in Actors,
           TransitionTask(t, target, actor)
    PROVE  /\ task[t].plan \in Plans
           /\ task'[t].status = Outcome(t, target)
           /\ task'[t].status \in {"running", "waiting_retry", "completed", "ready"}
                  => DepsDone(t)
           /\ task[t].status \in TaskStatus \ {"completed", "cancelled"}
           /\ \A c \in Tasks \ {t} :
                 \/ task'[c].status = task[c].status
                 \/ /\ task'[c].status = "ready" /\ task[c].status = "pending"
                    /\ Outcome(t, target) = "completed"
                    /\ \A d \in deps[c] \ {t} : task[d].status = "completed"
                 \/ /\ task'[c].status = "failed" /\ task[c].plan = task[t].plan
                    /\ Outcome(t, target) \in Terminal
                    /\ task[c].status \in {"pending", "ready"}
<1>1. PICK result \in TaskStatus, p \in Plans :
         /\ result = Outcome(t, target) /\ p = task[t].plan
         /\ task[t].status \in TaskStatus \ {"completed", "cancelled"}
         /\ result \in {"running", "waiting_retry", "completed", "ready"} => DepsDone(t)
         /\ task'[t] = IF result = "running" THEN Start(task[t], actor)
                                             ELSE Leave(task[t], result)
         /\ \A c \in Tasks \ {t} :
               \/ task'[c] = task[c]
               \/ /\ result = "completed" /\ c \in Unlocked(t)
                  /\ task'[c] = Move(task[c], "ready")
               \/ /\ result \in {"failed", "cancelled"} /\ c \in Doomed(t)
                  /\ task'[c] = Move(task[c], "failed")
  BY RowsAfterTransition, Zenon
<1>2. \A c \in Tasks : task[c] \in TaskType
  BY DEF IInv, TypeOK
<1>3. \A c \in Tasks : /\ Move(task[c], "ready").status = "ready"
                       /\ Move(task[c], "failed").status = "failed"
  <2>1. "ready" \in TaskStatus /\ "failed" \in TaskStatus
    BY DEF TaskStatus
  <2>2. QED BY <2>1, <1>2, MoveRow, Zenon
<1>4. task'[t].status = result
  <2>1. Start(task[t], actor).status = "running" /\ Leave(task[t], result).status = result
    BY <1>2, StartRow, LeaveRow, Zenon
  <2>2. QED BY <2>1, <1>1
<1>5. ASSUME NEW c \in Tasks \ {t}
      PROVE  \/ task'[c].status = task[c].status
             \/ /\ task'[c].status = "ready" /\ task[c].status = "pending"
                /\ result = "completed"
                /\ \A d \in deps[c] \ {t} : task[d].status = "completed"
             \/ /\ task'[c].status = "failed" /\ task[c].plan = p
                /\ result \in Terminal
                /\ task[c].status \in {"pending", "ready"}
  <2>1. c \in Unlocked(t) => /\ task[c].status = "pending"
                             /\ \A d \in deps[c] \ {t} : task[d].status = "completed"
    BY Zenon DEF Unlocked
  <2>2. c \in Doomed(t) => task[c].plan = p /\ task[c].status \in {"pending", "ready"}
    BY <1>1, Zenon DEF Doomed
  <2>3. QED BY <2>1, <2>2, <1>1, <1>3 DEF Terminal
<1>6. QED BY <1>1, <1>4, <1>5

\* CloseIfTerminal, by its two outcomes.
LEMMA Closing ==
    ASSUME NEW p \in Plans, TypeOK, CloseIfTerminal(p)
    PROVE  \/ /\ \A c \in TasksOf(p) : task'[c].status \in Terminal
              /\ \E final \in {"completed", "failed"} :
                    /\ plan' = [plan EXCEPT ![p] = Move(@, final)]
                    /\ goal' = Move(goal, final)
                    /\ final = "completed" =>
                          \A c \in TasksOf(p) : task'[c].status # "failed"
           \/ /\ \E c \in TasksOf(p) : task'[c].status \notin Terminal
              /\ UNCHANGED <<plan, goal>>
<1> DEFINE statuses == {task'[c].status : c \in TasksOf(p)}
           final == IF "failed" \in statuses THEN "failed" ELSE "completed"
<1>1. CASE statuses \subseteq Terminal
  <2>1. plan' = [plan EXCEPT ![p] = Move(@, final)] /\ goal' = Move(goal, final)
    BY <1>1, Zenon DEF CloseIfTerminal, StatusesAfter
  <2>2. final \in {"completed", "failed"}
    OBVIOUS
  <2>3. final = "completed" => \A c \in TasksOf(p) : task'[c].status # "failed"
    OBVIOUS
  <2>4. \A c \in TasksOf(p) : task'[c].status \in Terminal
    BY <1>1
  <2> HIDE DEF final
  <2>5. QED BY <2>1, <2>2, <2>3, <2>4
<1>2. CASE ~(statuses \subseteq Terminal)
  <2>1. UNCHANGED <<plan, goal>>
    BY <1>2, Zenon DEF CloseIfTerminal, StatusesAfter
  <2>2. QED BY <1>2, <2>1
<1>3. QED BY <1>1, <1>2

\* What a transition makes of the plan and of the goal.
LEMMA ClosingAfterTransition ==
    ASSUME IInv, NEW t \in Tasks, NEW target \in TaskStatus, NEW actor \in Actors,
           TransitionTask(t, target, actor)
    PROVE  \E p \in Plans :
           /\ p = task[t].plan
           /\ goal.status # "none" /\ goal.plan \in Plans
           /\ \/ /\ \A c \in TasksOf(p) : task'[c].status \in Terminal
                 /\ \E final \in {"completed", "failed"} :
                       /\ plan' = [plan EXCEPT ![p] = Move(@, final)]
                       /\ goal' = Move(goal, final)
                       /\ final = "completed" =>
                             \A c \in TasksOf(p) : task'[c].status # "failed"
              \/ /\ \E c \in TasksOf(p) : task'[c].status \notin Terminal
                 /\ UNCHANGED <<plan, goal>>
<1>1. PICK p \in Plans : p = task[t].plan
  BY StatusAfterTransition
<1>2. goal.status # "none" /\ goal.plan \in Plans
  BY <1>1 DEF IInv, RowsOK, Plans
<1>3. CASE Outcome(t, target) \in Terminal
  <2>1. CloseIfTerminal(p)
    BY <1>1, <1>3 DEF TransitionTask
  <2>2. QED BY <2>1, <1>1, <1>2, Closing DEF IInv
<1>4. CASE Outcome(t, target) \notin Terminal
  <2>1. UNCHANGED <<plan, goal>>
    BY <1>4 DEF TransitionTask
  <2>2. t \in TasksOf(p) /\ task'[t].status = Outcome(t, target)
    BY <1>1, StatusAfterTransition DEF TasksOf
  <2>3. QED BY <2>1, <2>2, <1>1, <1>2, <1>4
<1>5. QED BY <1>3, <1>4

-----------------------------------------------------------------------------
(* Every action keeps the invariant.                                       *)

LEMMA TransitionKeepsIInv ==
    ASSUME IInv, NEW t \in Tasks, NEW target \in TaskStatus, NEW actor \in Actors,
           TransitionTask(t, target, actor)
    PROVE  IInv'
<1> DEFINE closes(p, final) == /\ plan' = [plan EXCEPT ![p] = Move(@, final)]
                               /\ goal' = Move(goal, final)
<1>1. PICK p \in Plans :
         /\ p = task[t].plan
         /\ goal.status # "none" /\ goal.plan \in Plans
         /\ \/ /\ \A c \in TasksOf(p) : task'[c].status \in Terminal
               /\ \E final \in {"completed", "failed"} :
                     /\ closes(p, final)
                     /\ final = "completed" =>
                           \A c \in TasksOf(p) : task'[c].status # "failed"
            \/ /\ \E c \in TasksOf(p) : task'[c].status \notin Terminal
               /\ UNCHANGED <<plan, goal>>
  BY ClosingAfterTransition
<1>2. /\ goal \in GoalType /\ plan \in [Plans -> PlanType]
      /\ \A c \in Tasks : task[c] \in TaskType
  BY DEF IInv, TypeOK
<1>3. deps' = deps /\ task' = [c \in Tasks |-> task'[c]]
  BY Zenon DEF TransitionTask
<1>4. \A c \in Tasks :
         /\ task'[c] \in TaskType
         /\ task'[c].plan = task[c].plan
         /\ task[c].plan = 0 => task'[c] = task[c]
         /\ task[c].status \in {"completed", "cancelled"} => task'[c] = task[c]
         /\ task'[c].status \in TaskStatus \/ task'[c] = task[c]
         /\ task'[c].owner # NULL => task'[c].status = "running" /\ task'[c].mode = "agent"
         /\ task'[c].status = "waiting_retry" => task'[c].attempt < task'[c].max_attempts
  BY FieldsAfterTransition
<1>5. \A q \in Plans : TasksOf(q)' = TasksOf(q)
  BY <1>4 DEF TasksOf
<1>6. TypeOK'
  <2>1. goal' \in GoalType /\ plan' \in [Plans -> PlanType]
    BY <1>1, <1>2, MovePlanAndGoal DEF IInv
  <2>2. QED BY <2>1, <1>3, <1>4 DEF IInv, TypeOK
<1>7. RowsOK'
  <2>1. goal'.plan = goal.plan /\ goal'.status # "none"
    BY <1>1, MovePlanAndGoal DEF IInv
  <2>2. \A c \in Tasks : task'[c].plan = 0 <=> task'[c].status = "none"
    BY <1>4 DEF IInv, RowsOK, TaskStatus
  <2>3. QED BY <2>1, <2>2, <1>1 DEF RowsOK
<1>8. DepsComplete'
  <2>1. \A d \in Tasks : task[d].status = "completed" => task'[d].status = "completed"
    BY <1>4
  <2>2. \A c \in Tasks : deps[c] \subseteq Tasks
    BY DEF IInv, TypeOK
  <2>3. \A c \in Tasks : DepsDone(c) => DepsDone(c)'
    BY <2>1, <2>2, <1>3 DEF DepsDone
  <2>4. ASSUME NEW c \in Tasks \ {t},
               task'[c].status \in {"ready", "running", "waiting_retry", "completed"}
        PROVE  DepsDone(c)'
    <3>1. CASE task'[c].status = task[c].status
      BY <2>3, <2>4, <3>1 DEF IInv, DepsComplete
    <3>2. CASE /\ Outcome(t, target) = "completed"
               /\ \A d \in deps[c] \ {t} : task[d].status = "completed"
      <4>1. task'[t].status = "completed"
        BY <3>2, StatusAfterTransition
      <4>2. QED BY <4>1, <3>2, <2>1, <2>2, <1>3 DEF DepsDone
    <3>3. QED BY <2>4, <3>1, <3>2, StatusAfterTransition
  <2>5. QED BY <2>3, <2>4, StatusAfterTransition DEF DepsComplete
<1>9. OpenGoalHasOpenTask'
  <2> SUFFICES ASSUME goal'.status \in {"active", "paused"}
               PROVE  \E c \in TasksOf(goal.plan)' : task'[c].status \notin Terminal
    BY DEF OpenGoalHasOpenTask
  <2>1. /\ goal' = goal
        /\ \E c \in TasksOf(p) : task'[c].status \notin Terminal
    <3>1. ASSUME NEW final \in {"completed", "failed"}, closes(p, final)
          PROVE  FALSE
      BY <3>1, MovePlanAndGoal DEF IInv
    <3>2. QED BY <3>1, <1>1
  <2>2. PICK w \in TasksOf(goal.plan) : task[w].status \notin Terminal
    BY <2>1 DEF IInv, OpenGoalHasOpenTask
  <2>3. CASE goal.plan = p
    <3>1. TasksOf(goal.plan)' = TasksOf(p)
      BY <2>1, <2>3, <1>5
    <3>2. QED BY <2>1, <3>1
  <2>4. CASE goal.plan # p
    <3>1. w \in Tasks \ {t} /\ task[w].plan # p
      BY <2>2, <2>4, <1>1 DEF TasksOf
    <3>2. \/ task'[w].status = task[w].status \/ task'[w].status = "ready"
      BY <3>1, <1>1, StatusAfterTransition
    <3>3. task'[w].status \notin Terminal
      BY <3>2, <2>2 DEF Terminal
    <3>4. TasksOf(goal.plan)' = TasksOf(goal.plan)
      BY <2>1, <1>1, <1>5
    <3>5. QED BY <3>3, <3>4, <2>2
  <2>5. QED BY <2>3, <2>4
<1>10. OnePlanActive'
  <2>1. CASE UNCHANGED <<plan, goal>>
    BY <2>1 DEF IInv, OnePlanActive
  <2>2. CASE \E final \in {"completed", "failed"} : closes(p, final)
    <3> PICK final \in {"completed", "failed"} : closes(p, final)
      BY <2>2
    <3>1. goal'.plan = goal.plan /\ goal'.status = final
      BY MovePlanAndGoal DEF IInv
    <3>2. \A q \in Plans : plan'[q].status = "active" => plan[q].status = "active"
      <4>1. plan'[p] = Move(plan[p], final) /\ \A q \in Plans \ {p} : plan'[q] = plan[q]
        BY <1>2
      <4>2. Move(plan[p], final).status = final
        BY MovePlanAndGoal DEF IInv
      <4>3. QED BY <4>1, <4>2
    <3>3. QED BY <3>1, <3>2 DEF IInv, OnePlanActive
  <2>3. QED BY <2>1, <2>2, <1>1
<1>11. CompletedPlanIsDone'
  <2> SUFFICES ASSUME NEW q \in Plans, plan'[q].status = "completed",
                      NEW c \in TasksOf(q)
               PROVE  task'[c].status \in {"completed", "cancelled"}
    BY <1>5 DEF CompletedPlanIsDone
  <2>1. c \in Tasks
    BY DEF TasksOf
  <2>2. CASE plan[q].status = "completed"
    <3>1. task[c].status \in {"completed", "cancelled"}
      BY <2>2 DEF IInv, CompletedPlanIsDone
    <3>2. QED BY <3>1, <2>1, <1>4
  <2>3. CASE plan[q].status # "completed"
    <3>1. PICK final \in {"completed", "failed"} :
             /\ closes(p, final)
             /\ \A d \in TasksOf(p) : task'[d].status \in Terminal
             /\ final = "completed" => \A d \in TasksOf(p) : task'[d].status # "failed"
      BY <2>3, <1>1
    <3>2. q = p /\ final = "completed"
      <4>1. plan'[p] = Move(plan[p], final) /\ \A r \in Plans \ {p} : plan'[r] = plan[r]
        BY <3>1, <1>2
      <4>2. Move(plan[p], final).status = final
        BY MovePlanAndGoal DEF IInv
      <4>3. QED BY <4>1, <4>2, <2>3
    <3>3. QED BY <3>1, <3>2 DEF Terminal
  <2>4. QED BY <2>2, <2>3
<1>12. OwnerRuns' /\ RetryWithinBudget'
  BY <1>4 DEF OwnerRuns, RetryWithinBudget
<1>13. QED BY <1>6, <1>7, <1>8, <1>9, <1>10, <1>11, <1>12 DEF IInv

\* create_goal and create_plan on the rows: the new tasks, and the old ones.
LEMMA RowsAfterInsert ==
    ASSUME IInv, NEW p \in Plans, NEW S \in SUBSET Tasks, NEW d \in [S -> SUBSET S],
           NEW max \in [S -> 1 .. MaxAttempts], InsertTasks(p, S, d, max)
    PROVE  /\ task' \in [Tasks -> TaskType] /\ deps' \in [Tasks -> SUBSET Tasks]
           /\ S # {}
           /\ \A t \in S :
                 /\ task[t].plan = 0 /\ task'[t].plan = p
                 /\ task'[t].owner = NULL
                 /\ task'[t].status \in {"ready", "pending"}
                 /\ task'[t].status = "ready" => deps'[t] = {}
           /\ \A t \in Tasks \ S : task'[t] = task[t] /\ deps'[t] = deps[t]
<1>1. /\ S # {} /\ \A t \in S : task[t].plan = 0
      /\ deps' = [t \in Tasks |-> IF t \in S THEN d[t] ELSE deps[t]]
      /\ task' = [t \in Tasks |->
                    IF t \in S
                    THEN NewTask(p, IF d[t] = {} THEN "ready" ELSE "pending", max[t])
                    ELSE task[t]]
  BY DEF InsertTasks, ValidSpecs
<1>2. ASSUME NEW s \in {"ready", "pending"}, NEW m \in 1 .. MaxAttempts
      PROVE  /\ NewTask(p, s, m) \in TaskType
             /\ NewTask(p, s, m).plan = p /\ NewTask(p, s, m).status = s
             /\ NewTask(p, s, m).owner = NULL
  BY DEF NewTask, TaskType, TaskStatus, Plans
<1>3. ASSUME NEW t \in S
      PROVE  /\ task'[t] \in TaskType /\ task'[t].plan = p /\ task'[t].owner = NULL
             /\ task'[t].status = IF d[t] = {} THEN "ready" ELSE "pending"
             /\ deps'[t] = d[t]
  <2> DEFINE s == IF d[t] = {} THEN "ready" ELSE "pending"
  <2>1. task'[t] = NewTask(p, s, max[t]) /\ deps'[t] = d[t]
    BY <1>1
  <2>2. s \in {"ready", "pending"} /\ max[t] \in 1 .. MaxAttempts
    OBVIOUS
  <2> HIDE DEF s
  <2>3. /\ task'[t] \in TaskType /\ task'[t].plan = p
        /\ task'[t].status = s /\ task'[t].owner = NULL
    BY <2>1, <2>2, <1>2
  <2>4. QED BY <2>1, <2>3 DEF s
<1>4. \A t \in Tasks \ S : task'[t] = task[t] /\ deps'[t] = deps[t]
  BY <1>1
<1>5. /\ \A t \in Tasks : task[t] \in TaskType /\ deps[t] \subseteq Tasks
      /\ \A t \in S : d[t] \subseteq Tasks
  BY DEF IInv, TypeOK
<1>6. task' \in [Tasks -> TaskType] /\ deps' \in [Tasks -> SUBSET Tasks]
  <2>1. \A t \in Tasks : task'[t] \in TaskType /\ deps'[t] \subseteq Tasks
    BY <1>3, <1>4, <1>5
  <2>2. task' = [t \in Tasks |-> task'[t]] /\ deps' = [t \in Tasks |-> deps'[t]]
    BY <1>1
  <2>3. QED BY <2>1, <2>2
<1>7. QED BY <1>1, <1>3, <1>4, <1>6

\* Both creations keep the parts of the invariant that are about tasks only.
LEMMA InsertKeepsTasks ==
    ASSUME IInv, NEW p \in Plans, NEW S \in SUBSET Tasks, NEW d \in [S -> SUBSET S],
           NEW max \in [S -> 1 .. MaxAttempts], InsertTasks(p, S, d, max)
    PROVE  /\ DepsComplete' /\ OwnerRuns' /\ RetryWithinBudget'
           /\ \A t \in Tasks : task'[t].plan = 0 <=> task'[t].status = "none"
           /\ \E t \in Tasks : task'[t].plan = p /\ task'[t].status \notin Terminal
           /\ \A t \in Tasks : task[t].status = "completed" => task'[t] = task[t]
<1>1. /\ S # {}
      /\ \A t \in S :
            /\ task[t].plan = 0 /\ task'[t].plan = p
            /\ task'[t].owner = NULL
            /\ task'[t].status \in {"ready", "pending"}
            /\ task'[t].status = "ready" => deps'[t] = {}
      /\ \A t \in Tasks \ S : task'[t] = task[t] /\ deps'[t] = deps[t]
  BY RowsAfterInsert
<1>2. /\ \A t \in Tasks : task[t].plan = 0 <=> task[t].status = "none"
      /\ \A t \in Tasks : deps[t] \subseteq Tasks
      /\ p # 0
  BY DEF IInv, RowsOK, TypeOK, Plans
<1>3. \A t \in Tasks : task[t].status = "completed" => task'[t] = task[t]
  BY <1>1, <1>2
<1>4. DepsComplete'
  <2> SUFFICES ASSUME NEW t \in Tasks,
                      task'[t].status \in {"ready", "running", "waiting_retry", "completed"}
               PROVE  DepsDone(t)'
    BY DEF DepsComplete
  <2>1. CASE t \in S
    BY <2>1, <1>1 DEF DepsDone
  <2>2. CASE t \notin S
    <3>1. DepsDone(t) /\ deps'[t] = deps[t]
      BY <2>2, <1>1 DEF IInv, DepsComplete
    <3>2. QED BY <3>1, <1>2, <1>3 DEF DepsDone
  <2>3. QED BY <2>1, <2>2
<1>5. OwnerRuns' /\ RetryWithinBudget'
  BY <1>1 DEF IInv, OwnerRuns, RetryWithinBudget
<1>6. \A t \in Tasks : task'[t].plan = 0 <=> task'[t].status = "none"
  BY <1>1, <1>2
<1>7. \E t \in Tasks : task'[t].plan = p /\ task'[t].status \notin Terminal
  BY <1>1 DEF Terminal
<1>8. QED BY <1>3, <1>4, <1>5, <1>6, <1>7

LEMMA CreateGoalKeepsIInv ==
    ASSUME IInv, NEW S \in SUBSET Tasks, NEW d \in [S -> SUBSET S],
           NEW max \in [S -> 1 .. MaxAttempts], CreateGoal(S, d, max)
    PROVE  IInv'
<1>1. /\ 1 \in Plans /\ goal.status = "none" /\ InsertTasks(1, S, d, max)
      /\ plan' = [plan EXCEPT ![1].status = "active"]
      /\ goal' = [status |-> "active", plan |-> 1, revision |-> 0]
  <2>1. 1 \in Plans
    BY TaskRuntimeAssumption DEF Plans
  <2>2. QED BY <2>1, Zenon DEF CreateGoal
<1>2. /\ \A t \in Tasks : task[t].plan = 0
      /\ \A q \in Plans : plan[q].status = "none"
      /\ plan \in [Plans -> PlanType]
  BY <1>1 DEF IInv, RowsOK, TypeOK
<1>3. TypeOK'
  <2>1. goal' \in GoalType
    BY <1>1 DEF GoalType, Plans
  <2>2. plan' \in [Plans -> PlanType]
    BY <1>1, <1>2 DEF PlanType
  <2>3. QED BY <2>1, <2>2, <1>1, RowsAfterInsert DEF TypeOK
<1>4. /\ plan'[1].status = "active"
      /\ \A q \in Plans \ {1} : plan'[q].status = "none"
  BY <1>1, <1>2 DEF PlanType
<1>5. RowsOK'
  <2>1. \A t \in Tasks : task'[t].plan = 0 <=> task'[t].status = "none"
    BY <1>1, InsertKeepsTasks
  <2>2. QED BY <1>1, <2>1 DEF RowsOK
<1>6. OnePlanActive' /\ CompletedPlanIsDone'
  BY <1>1, <1>4 DEF OnePlanActive, CompletedPlanIsDone
<1>7. OpenGoalHasOpenTask'
  BY <1>1, InsertKeepsTasks DEF OpenGoalHasOpenTask, TasksOf
<1>8. QED BY <1>1, <1>3, <1>5, <1>6, <1>7, InsertKeepsTasks DEF IInv

LEMMA CreatePlanKeepsIInv ==
    ASSUME IInv, NEW p \in Plans, NEW S \in SUBSET Tasks, NEW d \in [S -> SUBSET S],
           NEW max \in [S -> 1 .. MaxAttempts], CreatePlan(p, S, d, max)
    PROVE  IInv'
<1> DEFINE replanned == Bump([goal EXCEPT !.plan = p])
<1>1. /\ goal.status \in {"active", "paused", "failed"}
      /\ InsertTasks(p, S, d, max)
      /\ goal' = replanned
      /\ plan' = [q \in Plans |->
                    IF q = p THEN [status |-> "active", revision |-> 0]
                    ELSE IF q = goal.plan THEN Move(plan[q], "superseded")
                    ELSE plan[q]]
  BY DEF CreatePlan
<1>2. /\ goal' \in GoalType /\ goal'.status = goal.status /\ goal'.plan = p
  BY <1>1, MovePlanAndGoal DEF IInv
<1>3. /\ plan'[p] = [status |-> "active", revision |-> 0]
      /\ \A q \in Plans \ {p} :
            /\ plan'[q] \in PlanType
            /\ IF q = goal.plan THEN plan'[q].status = "superseded"
                                ELSE plan'[q] = plan[q]
  BY <1>1, MovePlanAndGoal DEF IInv, TypeOK
<1>4. plan'[p] \in PlanType /\ plan'[p].status = "active"
  BY <1>3 DEF PlanType
<1>5. plan' \in [Plans -> PlanType]
  BY <1>1, <1>3, <1>4
<1>6. TypeOK'
  BY <1>1, <1>2, <1>5, RowsAfterInsert DEF TypeOK
<1>7. RowsOK' /\ OnePlanActive'
  BY <1>1, <1>2, <1>3, <1>4, InsertKeepsTasks DEF IInv, RowsOK, OnePlanActive
<1>8. OpenGoalHasOpenTask'
  BY <1>1, <1>2, InsertKeepsTasks DEF OpenGoalHasOpenTask, TasksOf
<1>9. /\ \A u \in S : task'[u].plan = p
      /\ \A u \in Tasks \ S : task'[u] = task[u]
  <2>1. /\ \A u \in S : /\ task[u].plan = 0 /\ task'[u].plan = p
                        /\ task'[u].owner = NULL
                        /\ task'[u].status \in {"ready", "pending"}
                        /\ task'[u].status = "ready" => deps'[u] = {}
        /\ \A u \in Tasks \ S : task'[u] = task[u] /\ deps'[u] = deps[u]
    BY <1>1, RowsAfterInsert, Zenon
  <2>2. QED BY <2>1
<1>10. CompletedPlanIsDone'
  <2> SUFFICES ASSUME NEW q \in Plans, plan'[q].status = "completed",
                      NEW t \in Tasks, task'[t].plan = q
               PROVE  task'[t].status \in {"completed", "cancelled"}
    BY DEF CompletedPlanIsDone, TasksOf
  <2>1. q # p /\ plan[q].status = "completed"
    BY <1>3, <1>4
  <2>2. task'[t] = task[t]
    BY <2>1, <1>9
  <2>3. QED BY <2>1, <2>2 DEF IInv, CompletedPlanIsDone, TasksOf
<1>11. QED BY <1>1, <1>6, <1>7, <1>8, <1>10, InsertKeepsTasks DEF IInv

\* The other operations change at most the status of a task that waits for a
\* retry, to ready: what they have in common keeps the invariant.
LEMMA QuietStepKeepsIInv ==
    ASSUME IInv, deps' = deps,
           goal' \in GoalType, plan' \in [Plans -> PlanType], task' \in [Tasks -> TaskType],
           goal'.plan = goal.plan,
           \/ goal'.status = goal.status
           \/ goal.status \in {"active", "paused"} /\ goal'.status \in {"active", "paused"},
           \A p \in Plans : plan'[p].status = plan[p].status,
           \A t \in Tasks :
              /\ task'[t].plan = task[t].plan
              /\ \/ task'[t].status = task[t].status
                 \/ task[t].status = "waiting_retry" /\ task'[t].status = "ready"
              /\ task'[t].owner = NULL \/ (/\ task'[t].owner = task[t].owner
                                           /\ task'[t].status = task[t].status
                                           /\ task'[t].mode = task[t].mode)
              /\ task'[t].attempt = task[t].attempt
              /\ task'[t].max_attempts = task[t].max_attempts
    PROVE  IInv'
<1>1. \A p \in 0 .. MaxPlans : TasksOf(p)' = TasksOf(p)
  BY DEF TasksOf
<1>2. TypeOK'
  BY DEF IInv, TypeOK
<1>3. RowsOK'
  BY DEF IInv, RowsOK
<1>4. DepsComplete'
  <2>1. \A t \in Tasks : DepsDone(t) => DepsDone(t)'
    BY DEF DepsDone, IInv, TypeOK
  <2>2. QED BY <2>1 DEF IInv, DepsComplete
<1>5. OpenGoalHasOpenTask'
  <2> SUFFICES ASSUME goal'.status \in {"active", "paused"}
               PROVE  \E t \in TasksOf(goal.plan)' : task'[t].status \notin Terminal
    BY DEF OpenGoalHasOpenTask
  <2>1. PICK t \in TasksOf(goal.plan) : task[t].status \notin Terminal
    BY DEF IInv, OpenGoalHasOpenTask
  <2>2. t \in TasksOf(goal.plan)'
    BY DEF TasksOf
  <2>3. task'[t].status \notin Terminal
    BY <2>1 DEF Terminal, TasksOf
  <2>4. QED BY <2>2, <2>3
<1>6. OnePlanActive'
  <2>1. goal'.status \in {"active", "paused"} => goal.plan \in Plans
    BY DEF IInv, RowsOK
  <2>2. QED BY <2>1 DEF IInv, OnePlanActive
<1>7. CompletedPlanIsDone'
  BY DEF IInv, CompletedPlanIsDone, TasksOf
<1>8. OwnerRuns' /\ RetryWithinBudget'
  BY DEF IInv, OwnerRuns, RetryWithinBudget
<1>9. QED BY <1>2, <1>3, <1>4, <1>5, <1>6, <1>7, <1>8 DEF IInv

LEMMA SetGoalPausedKeepsIInv ==
    ASSUME IInv, NEW paused \in BOOLEAN, SetGoalPaused(paused)
    PROVE  IInv'
<1>1. PICK s \in {"active", "paused"} :
         goal.status \in {"active", "paused"} /\ goal' = Move(goal, s)
  BY DEF SetGoalPaused
<1>2. goal' \in GoalType /\ goal'.status \in {"active", "paused"} /\ goal'.plan = goal.plan
  BY <1>1, MovePlanAndGoal DEF IInv
<1>3. /\ UNCHANGED <<plan, task, deps>>
      /\ plan \in [Plans -> PlanType] /\ task \in [Tasks -> TaskType]
  BY DEF SetGoalPaused, IInv, TypeOK
<1>4. QED BY <1>1, <1>2, <1>3, QuietStepKeepsIInv

LEMMA ReorderPlanKeepsIInv ==
    ASSUME IInv, NEW p \in Plans, ReorderPlan(p)
    PROVE  IInv'
<1>1. /\ plan' = [plan EXCEPT ![p] = Bump(@)] /\ UNCHANGED <<goal, deps>>
      /\ task' = [t \in Tasks |-> IF task[t].plan = p THEN Bump(task[t]) ELSE task[t]]
  BY DEF ReorderPlan
<1>2. /\ goal \in GoalType /\ plan \in [Plans -> PlanType]
      /\ \A t \in Tasks : task[t] \in TaskType
  BY DEF IInv, TypeOK
<1>3. plan' \in [Plans -> PlanType] /\ \A q \in Plans : plan'[q].status = plan[q].status
  BY <1>1, <1>2, MovePlanAndGoal DEF IInv
<1>4. ASSUME NEW t \in Tasks
      PROVE  /\ task'[t] \in TaskType
             /\ task'[t].plan = task[t].plan /\ task'[t].status = task[t].status
             /\ task'[t].owner = task[t].owner /\ task'[t].mode = task[t].mode
             /\ task'[t].attempt = task[t].attempt
             /\ task'[t].max_attempts = task[t].max_attempts
  <2>1. task'[t] = task[t] \/ task'[t] = Bump(task[t])
    BY <1>1
  <2>2. QED BY <2>1, <1>2, BumpRow
<1>5. task' \in [Tasks -> TaskType]
  BY <1>1, <1>4
<1>6. QED BY <1>1, <1>2, <1>3, <1>4, <1>5, QuietStepKeepsIInv

LEMMA ReadyTasksKeepsIInv ==
    ASSUME IInv, NEW p \in Plans, NEW due \in SUBSET Tasks, ReadyTasks(p, due)
    PROVE  IInv'
<1> DEFINE Promoted == {t \in due : DepsDone(t)}
<1>1. /\ UNCHANGED <<goal, plan, deps>>
      /\ \A t \in due : task[t].status = "waiting_retry"
      /\ task' = [t \in Tasks |->
                    IF t \in Promoted THEN Move(task[t], "ready") ELSE task[t]]
  BY DEF ReadyTasks
<1>2. /\ goal \in GoalType /\ plan \in [Plans -> PlanType]
      /\ \A t \in Tasks : task[t] \in TaskType
  BY DEF IInv, TypeOK
<1>3. ASSUME NEW t \in Tasks
      PROVE  /\ task'[t] \in TaskType
             /\ task'[t].plan = task[t].plan
             /\ \/ task'[t].status = task[t].status
                \/ task[t].status = "waiting_retry" /\ task'[t].status = "ready"
             /\ task'[t].owner = NULL \/ (/\ task'[t].owner = task[t].owner
                                          /\ task'[t].status = task[t].status
                                          /\ task'[t].mode = task[t].mode)
             /\ task'[t].attempt = task[t].attempt
             /\ task'[t].max_attempts = task[t].max_attempts
  <2>1. CASE task'[t] = task[t]
    BY <2>1, <1>2
  <2>2. CASE t \in Promoted /\ task'[t] = Move(task[t], "ready")
    <3>1. /\ "ready" \in TaskStatus /\ task[t].status = "waiting_retry"
          /\ task[t].owner = NULL
      BY <2>2, <1>1 DEF TaskStatus, IInv, OwnerRuns
    <3>2. QED BY <3>1, <2>2, <1>2, MoveRow
  <2>3. QED BY <2>1, <2>2, <1>1
<1>4. task' \in [Tasks -> TaskType]
  BY <1>1, <1>3
<1>5. QED BY <1>1, <1>2, <1>3, <1>4, QuietStepKeepsIInv

LEMMA TakeoverTaskKeepsIInv ==
    ASSUME IInv, NEW t \in Tasks, NEW human \in BOOLEAN, TakeoverTask(t, human)
    PROVE  IInv'
<1>1. PICK mode \in {"agent", "human"} : task' = [task EXCEPT ![t] = Assign(@, mode)]
  BY DEF TakeoverTask
<1>2. /\ UNCHANGED <<goal, plan, deps>>
      /\ goal \in GoalType /\ plan \in [Plans -> PlanType] /\ task \in [Tasks -> TaskType]
  BY DEF TakeoverTask, IInv, TypeOK
<1>3. task'[t] = Assign(task[t], mode) /\ \A c \in Tasks \ {t} : task'[c] = task[c]
  BY <1>1, <1>2
<1>4. /\ task'[t] \in TaskType
      /\ task'[t].plan = task[t].plan /\ task'[t].status = task[t].status
      /\ task'[t].owner = NULL
      /\ task'[t].attempt = task[t].attempt /\ task'[t].max_attempts = task[t].max_attempts
  BY <1>2, <1>3, AssignRow
<1>5. task' \in [Tasks -> TaskType]
  BY <1>1, <1>2, <1>4
<1>6. QED BY <1>2, <1>3, <1>4, <1>5, QuietStepKeepsIInv

-----------------------------------------------------------------------------
(* What every action does to revisions and to the audit trail.             *)

\* The three parts of RevisionStep.
TaskRevisions == \A t \in Tasks : task[t].plan # 0 /\ task'[t] # task[t] =>
                     task'[t].revision = task[t].revision + 1
PlanRevisions == \A p \in Plans : plan[p].status # "none" /\ plan'[p] # plan[p] =>
                     plan'[p].revision = plan[p].revision + 1
GoalRevisions == goal.status # "none" /\ goal' # goal => goal'.revision = goal.revision + 1

\* One task's part of AuditStep, from one event.
Told(t) == task'[t].status # task[t].status =>
               Event(t, task[t].status, task'[t].status) \in events'
TrueOf(e) == \A t \in Tasks : e.entity = t /\ e.to # "none" =>
                 e.from = task[t].status /\ e.to = task'[t].status

\* The two halves of an audit step: every change is told, every event is true.
LEMMA AuditByParts ==
    ASSUME \A t \in Tasks : Told(t), \A e \in events' : TrueOf(e)
    PROVE  AuditStep
<1>1. \A t, from, to : /\ Event(t, from, to).entity = t
                       /\ Event(t, from, to).from = from
                       /\ Event(t, from, to).to = to
  BY DEF Event
<1>2. ASSUME NEW t \in Tasks, task'[t].status # task[t].status
      PROVE  \E e \in events' : e.entity = t /\ e.from = task[t].status
                                             /\ e.to = task'[t].status
  <2>1. Event(t, task[t].status, task'[t].status) \in events'
    BY <1>2 DEF Told
  <2> QED BY <1>1, <2>1
<1> QED BY <1>2, Zenon DEF AuditStep, TrueOf

\* Events about the goal and the plans are about no task, and so are those that
\* name no status.
LEMMA QuietEvents ==
    ASSUME NEW from, NEW to
    PROVE  /\ TrueOf(Event("goal", from, to))
           /\ TrueOf(Event("plan", from, to))
           /\ \A t \in Tasks : TrueOf(Event(t, "none", "none"))
BY TaskRuntimeAssumption DEF TrueOf, Event

LEMMA TrueEvent ==
    ASSUME NEW t \in Tasks
    PROVE  TrueOf(Event(t, task[t].status, task'[t].status))
BY DEF TrueOf, Event

\* create_goal and create_plan: the new tasks are told, with the status they have.
LEMMA InsertTells ==
    ASSUME IInv, NEW p \in Plans, NEW S \in SUBSET Tasks, NEW d \in [S -> SUBSET S],
           NEW max \in [S -> 1 .. MaxAttempts], InsertTasks(p, S, d, max)
    PROVE  /\ TaskRevisions
           /\ \A t \in Tasks \ S : task'[t] = task[t]
           /\ \A t \in S : Created(t) = Event(t, task[t].status, task'[t].status)
<1>1. /\ \A t \in S : task[t].plan = 0
      /\ deps' = [t \in Tasks |-> IF t \in S THEN d[t] ELSE deps[t]]
      /\ task' = [t \in Tasks |->
                    IF t \in S
                    THEN NewTask(p, IF d[t] = {} THEN "ready" ELSE "pending", max[t])
                    ELSE task[t]]
  BY DEF InsertTasks
<1>2. \A t \in Tasks \ S : task'[t] = task[t]
  BY <1>1
<1>3. TaskRevisions
  BY <1>1, <1>2 DEF TaskRevisions
<1>4. ASSUME NEW t \in S
      PROVE  Created(t) = Event(t, task[t].status, task'[t].status)
  <2>1. task[t].status = "none"
    BY <1>1 DEF IInv, RowsOK
  <2>2. deps'[t] = d[t] /\ task'[t] = NewTask(p, IF d[t] = {} THEN "ready" ELSE "pending", max[t])
    BY <1>1
  <2>3. task'[t].status = IF d[t] = {} THEN "ready" ELSE "pending"
    BY <2>2 DEF NewTask
  <2> QED BY <2>1, <2>2, <2>3 DEF Created
<1> QED BY <1>2, <1>3, <1>4

\* The audit of an insertion, with the event of the row it is for.
LEMMA InsertIsAudited ==
    ASSUME IInv, NEW p \in Plans, NEW S \in SUBSET Tasks, NEW d \in [S -> SUBSET S],
           NEW max \in [S -> 1 .. MaxAttempts], InsertTasks(p, S, d, max),
           NEW entity \in {"goal", "plan"},
           events' = {Event(entity, "none", "none")} \cup {Created(t) : t \in S}
    PROVE  AuditStep
<1>1. /\ \A t \in Tasks \ S : task'[t] = task[t]
      /\ \A t \in S : Created(t) = Event(t, task[t].status, task'[t].status)
  BY InsertTells, Zenon
<1>2. \A t \in S : Event(t, task[t].status, task'[t].status) \in events'
  BY <1>1
<1>3. \A t \in Tasks : Told(t)
  BY <1>1, <1>2, Zenon DEF Told
<1>4. ASSUME NEW e \in events' PROVE TrueOf(e)
  <2>1. CASE e = Event(entity, "none", "none")
    BY <2>1, QuietEvents
  <2>2. CASE \E t \in S : e = Created(t)
    <3>1. PICK t \in S : e = Event(t, task[t].status, task'[t].status)
      BY <1>1, <2>2, Zenon
    <3> QED BY <3>1, TrueEvent
  <2> QED BY <2>1, <2>2
<1> QED BY <1>3, <1>4, AuditByParts

LEMMA CreateGoalTells ==
    ASSUME IInv, NEW S \in SUBSET Tasks, NEW d \in [S -> SUBSET S],
           NEW max \in [S -> 1 .. MaxAttempts], CreateGoal(S, d, max)
    PROVE  RevisionStep /\ AuditStep
<1>1. /\ 1 \in Plans /\ goal.status = "none" /\ InsertTasks(1, S, d, max)
      /\ plan' = [plan EXCEPT ![1].status = "active"]
      /\ events' = {Event("goal", "none", "none")} \cup {Created(t) : t \in S}
  <2>1. 1 \in Plans
    BY TaskRuntimeAssumption DEF Plans
  <2> QED BY <2>1, Zenon DEF CreateGoal
<1>2. TaskRevisions /\ AuditStep
  BY <1>1, InsertTells, InsertIsAudited
<1>3. \A p \in Plans : plan[p].status = "none"
  BY <1>1 DEF IInv, RowsOK
<1> QED BY <1>1, <1>2, <1>3 DEF RevisionStep, TaskRevisions

LEMMA CreatePlanTells ==
    ASSUME IInv, NEW p \in Plans, NEW S \in SUBSET Tasks, NEW d \in [S -> SUBSET S],
           NEW max \in [S -> 1 .. MaxAttempts], CreatePlan(p, S, d, max)
    PROVE  RevisionStep /\ AuditStep
<1>1. /\ NextVersion(p) /\ InsertTasks(p, S, d, max)
      /\ goal' = Bump([goal EXCEPT !.plan = p])
      /\ plan' = [q \in Plans |->
                    IF q = p THEN [status |-> "active", revision |-> 0]
                    ELSE IF q = goal.plan THEN Move(plan[q], "superseded")
                    ELSE plan[q]]
      /\ events' = {Event("plan", "none", "none")} \cup {Created(t) : t \in S}
  BY Zenon DEF CreatePlan
<1>2. TaskRevisions /\ AuditStep
  BY <1>1, InsertTells, InsertIsAudited
<1>3. plan[p].status = "none"
  BY <1>1 DEF NextVersion, Plans
<1>4. \A q \in Plans \ {p} :
         plan'[q] = plan[q] \/ plan'[q].revision = plan[q].revision + 1
  BY <1>1, MovePlanAndGoal DEF IInv
<1>5. PlanRevisions
  BY <1>3, <1>4 DEF PlanRevisions
<1>6. GoalRevisions
  BY <1>1, MovePlanAndGoal DEF IInv, GoalRevisions
<1> QED BY <1>2, <1>5, <1>6 DEF RevisionStep, TaskRevisions, PlanRevisions, GoalRevisions

LEMMA SetGoalPausedTells ==
    ASSUME IInv, NEW paused \in BOOLEAN, SetGoalPaused(paused)
    PROVE  RevisionStep /\ AuditStep
<1>1. PICK s \in {"active", "paused"} : goal' = Move(goal, s)
  BY DEF SetGoalPaused
<1>2. UNCHANGED <<plan, task>> /\ events' = {Event("goal", goal.status, goal'.status)}
  BY DEF SetGoalPaused
<1>3. goal'.revision = goal.revision + 1
  BY <1>1, MovePlanAndGoal DEF IInv
<1>4. AuditStep
  BY <1>2, QuietEvents, AuditByParts DEF Told
<1> QED BY <1>2, <1>3, <1>4 DEF RevisionStep

LEMMA ReorderPlanTells ==
    ASSUME IInv, NEW p \in Plans, ReorderPlan(p)
    PROVE  RevisionStep /\ AuditStep
<1>1. /\ plan' = [plan EXCEPT ![p] = Bump(@)] /\ UNCHANGED goal
      /\ task' = [t \in Tasks |-> IF task[t].plan = p THEN Bump(task[t]) ELSE task[t]]
      /\ events' = {Event("plan", "none", "none")}
  BY DEF ReorderPlan
<1>2. \A t \in Tasks : task[t] \in TaskType
  BY DEF IInv, TypeOK
<1>3. ASSUME NEW t \in Tasks
      PROVE  /\ task'[t].status = task[t].status
             /\ task'[t] = task[t] \/ task'[t].revision = task[t].revision + 1
  <2>1. task'[t] = task[t] \/ task'[t] = Bump(task[t])
    BY <1>1
  <2> QED BY <2>1, <1>2, BumpRow
<1>4. \A q \in Plans : plan'[q] = plan[q] \/ plan'[q].revision = plan[q].revision + 1
  BY <1>1, MovePlanAndGoal DEF IInv, TypeOK
<1>5. AuditStep
  BY <1>1, <1>3, QuietEvents, AuditByParts DEF Told
<1> QED BY <1>1, <1>3, <1>4, <1>5 DEF RevisionStep

LEMMA ReadyTasksTells ==
    ASSUME IInv, NEW p \in Plans, NEW due \in SUBSET Tasks, ReadyTasks(p, due)
    PROVE  RevisionStep /\ AuditStep
<1> DEFINE Promoted == {t \in due : DepsDone(t)}
<1>1. /\ UNCHANGED <<goal, plan>>
      /\ \A t \in due : task[t].status = "waiting_retry"
      /\ task' = [t \in Tasks |->
                    IF t \in Promoted THEN Move(task[t], "ready") ELSE task[t]]
      /\ events' = {Event(t, "waiting_retry", "ready") : t \in Promoted}
  BY DEF ReadyTasks
<1>2. \A t \in Tasks : task[t] \in TaskType
  BY DEF IInv, TypeOK
<1>3. ASSUME NEW t \in Promoted
      PROVE  /\ task[t].status = "waiting_retry" /\ task'[t].status = "ready"
             /\ task'[t].revision = task[t].revision + 1
  <2>1. task'[t] = Move(task[t], "ready") /\ "ready" \in TaskStatus /\ t \in Tasks
    BY <1>1 DEF TaskStatus
  <2> QED BY <1>1, <1>2, <2>1, MoveRow
<1>4. \A t \in Tasks \ Promoted : task'[t] = task[t]
  BY <1>1
<1>5. \A t \in Promoted : Event(t, task[t].status, task'[t].status) \in events'
  BY <1>1, <1>3
<1>6. \A t \in Tasks : Told(t)
  BY <1>4, <1>5, Zenon DEF Told
<1>7. ASSUME NEW e \in events' PROVE TrueOf(e)
  <2>1. PICK t \in Promoted : e = Event(t, "waiting_retry", "ready")
    BY <1>1
  <2>2. e = Event(t, task[t].status, task'[t].status) /\ t \in Tasks
    BY <1>3, <2>1
  <2> QED BY <2>2, TrueEvent
<1>8. AuditStep
  BY <1>6, <1>7, AuditByParts
<1> HIDE DEF Promoted
<1> QED BY <1>1, <1>3, <1>4, <1>8 DEF RevisionStep

LEMMA TakeoverTaskTells ==
    ASSUME IInv, NEW t \in Tasks, NEW human \in BOOLEAN, TakeoverTask(t, human)
    PROVE  RevisionStep /\ AuditStep
<1>1. PICK mode \in {"agent", "human"} : task' = [task EXCEPT ![t] = Assign(@, mode)]
  BY DEF TakeoverTask
<1>2. /\ UNCHANGED <<goal, plan>> /\ events' = {Event(t, "none", "none")}
      /\ task \in [Tasks -> TaskType]
  BY DEF TakeoverTask, IInv, TypeOK
<1>3. task'[t] = Assign(task[t], mode) /\ \A c \in Tasks \ {t} : task'[c] = task[c]
  BY <1>1, <1>2
<1>4. task'[t].status = task[t].status /\ task'[t].revision = task[t].revision + 1
  BY <1>2, <1>3, AssignRow
<1>5. AuditStep
  BY <1>2, <1>3, <1>4, QuietEvents, AuditByParts DEF Told
<1> QED BY <1>2, <1>3, <1>4, <1>5 DEF RevisionStep

\* transition_task: the task it is called for, those it frees or fails with it,
\* and the rows it closes.
LEMMA TransitionTells ==
    ASSUME IInv, NEW t \in Tasks, NEW target \in TaskStatus, NEW actor \in Actors,
           TransitionTask(t, target, actor)
    PROVE  RevisionStep /\ AuditStep
<1> DEFINE result   == Outcome(t, target)
           unlocked == IF result = "completed" THEN Unlocked(t) ELSE {}
           doomed   == IF result \in {"failed", "cancelled"} THEN Doomed(t) ELSE {}
<1>1. events' = {Event(t, task[t].status, result)}
                    \cup {Event(c, "pending", "ready") : c \in unlocked}
                    \cup {Event(c, task[c].status, "failed") : c \in doomed}
                    \cup ClosingEvents
  BY Zenon DEF TransitionTask
<1>2. \A c \in Tasks : task'[c] =
        IF c = t
        THEN IF result = "running" THEN Start(task[t], actor) ELSE Leave(task[t], result)
        ELSE IF c \in unlocked THEN Move(task[c], "ready")
        ELSE IF c \in doomed THEN Move(task[c], "failed")
        ELSE task[c]
  BY Zenon DEF TransitionTask
<1>3. task'[t].status = result
  BY StatusAfterTransition
<1>4. t \notin unlocked /\ t \notin doomed
  <2>1. result = "completed" => task[t].status # "pending"
    BY Table DEF TransitionTask, TransitionAllowed, Outcome
  <2>2. t \notin Doomed(t)
    BY DEF Doomed, Below
  <2> QED BY <2>1, <2>2 DEF Unlocked
<1>5. /\ \A c \in Tasks : task[c] \in TaskType
      /\ "ready" \in TaskStatus /\ "failed" \in TaskStatus
  BY DEF IInv, TypeOK, TaskStatus
<1>6. ASSUME NEW c \in unlocked
      PROVE  c \in Tasks /\ task[c].status = "pending" /\ task'[c].status = "ready"
  <2>1. c \in Tasks /\ task[c].status = "pending" /\ c # t
    BY <1>4 DEF Unlocked
  <2>2. task'[c] = Move(task[c], "ready")
    BY <1>2, <2>1, Zenon
  <2> QED BY <1>5, <2>1, <2>2, MoveRow
<1>7. ASSUME NEW c \in doomed, c \in Tasks
      PROVE  task'[c].status = "failed"
  <2>1. c # t /\ c \notin unlocked
    BY <1>4, <1>7
  <2>2. task'[c] = Move(task[c], "failed")
    BY <1>2, <1>7, <2>1, Zenon
  <2> QED BY <1>5, <1>7, <2>2, MoveRow
<1>8. \A c \in Tasks : c # t /\ c \notin unlocked /\ c \notin doomed => task'[c] = task[c]
  BY <1>2, Zenon
<1> HIDE DEF result, unlocked, doomed
<1>9. /\ Event(t, task[t].status, task'[t].status) \in events'
      /\ \A c \in unlocked : Event(c, task[c].status, task'[c].status) \in events'
      /\ \A c \in doomed : c \in Tasks => Event(c, task[c].status, task'[c].status) \in events'
  BY <1>1, <1>3, <1>6, <1>7
<1>10. \A c \in Tasks : Told(c)
  BY <1>8, <1>9, Zenon DEF Told
<1>11. ASSUME NEW e \in events' PROVE TrueOf(e)
  <2>1. CASE \E c \in Tasks : e = Event(c, task[c].status, task'[c].status)
    BY <2>1, TrueEvent
  <2>2. CASE e \in ClosingEvents
    <3>1. e = Event("plan", "active", goal'.status) \/ e = Event("goal", "active", goal'.status)
      BY <2>2 DEF ClosingEvents
    <3> QED BY <3>1, QuietEvents
  <2>3. CASE \E c \in doomed : e = Event(c, task[c].status, "failed")
    <3>1. PICK c \in doomed : e = Event(c, task[c].status, "failed")
      BY <2>3
    <3>2. CASE c \in Tasks
      BY <1>7, <2>1, <3>1, <3>2
    <3>3. CASE c \notin Tasks
      BY <3>1, <3>3 DEF TrueOf, Event
    <3> QED BY <3>2, <3>3
  <2> QED BY <1>1, <1>3, <1>6, <2>1, <2>2, <2>3
<1>12. AuditStep
  BY <1>10, <1>11, AuditByParts
<1>13. TaskRevisions
  BY FieldsAfterTransition DEF TaskRevisions
<1>14. PlanRevisions /\ GoalRevisions
  <2>1. plan \in [Plans -> PlanType]
    BY DEF IInv, TypeOK
  <2>2. PICK p \in Plans :
           \/ \E final \in {"completed", "failed"} :
                 plan' = [plan EXCEPT ![p] = Move(@, final)] /\ goal' = Move(goal, final)
           \/ UNCHANGED <<plan, goal>>
    BY ClosingAfterTransition
  <2> QED BY <2>1, <2>2, MovePlanAndGoal DEF PlanRevisions, GoalRevisions, IInv
<1> QED BY <1>12, <1>13, <1>14 DEF RevisionStep, TaskRevisions, PlanRevisions, GoalRevisions

LEMMA NextTells == IInv /\ Next => RevisionStep /\ AuditStep
<1> SUFFICES ASSUME IInv, Next PROVE RevisionStep /\ AuditStep
  OBVIOUS
<1>1. ASSUME NEW S \in SUBSET Tasks, NEW d \in [S -> SUBSET S],
             NEW max \in [S -> 1 .. MaxAttempts], CreateGoal(S, d, max)
      PROVE  RevisionStep /\ AuditStep
  BY <1>1, CreateGoalTells
<1>2. ASSUME NEW p \in Plans, NEW S \in SUBSET TasksOf(0), NEW d \in [S -> SUBSET S],
             NEW max \in [S -> 1 .. MaxAttempts], CreatePlan(p, S, d, max)
      PROVE  RevisionStep /\ AuditStep
  <2>1. S \in SUBSET Tasks
    BY DEF TasksOf
  <2> QED BY <1>2, <2>1, CreatePlanTells
<1>3. ASSUME NEW paused \in BOOLEAN, SetGoalPaused(paused)
      PROVE  RevisionStep /\ AuditStep
  BY <1>3, SetGoalPausedTells
<1>4. ASSUME NEW p \in Plans, ReorderPlan(p)
      PROVE  RevisionStep /\ AuditStep
  BY <1>4, ReorderPlanTells
<1>5. ASSUME NEW p \in Plans, NEW due \in SUBSET TasksOf(p), ReadyTasks(p, due)
      PROVE  RevisionStep /\ AuditStep
  <2>1. due \in SUBSET Tasks
    BY DEF TasksOf
  <2> QED BY <1>5, <2>1, ReadyTasksTells
<1>6. ASSUME NEW t \in Tasks, NEW human \in BOOLEAN, TakeoverTask(t, human)
      PROVE  RevisionStep /\ AuditStep
  BY <1>6, TakeoverTaskTells
<1>7. ASSUME NEW t \in Tasks, NEW target \in TaskStatus, NEW actor \in Actors,
             TransitionTask(t, target, actor)
      PROVE  RevisionStep /\ AuditStep
  BY <1>7, TransitionTells
<1> QED
  BY <1>1, <1>2, <1>3, <1>4, <1>5, <1>6, <1>7 DEF Next

-----------------------------------------------------------------------------
(* The theorems.                                                           *)

LEMMA InitIInv == Init => IInv
<1> SUFFICES ASSUME Init PROVE IInv
  OBVIOUS
<1>1. TypeOK
  BY TaskRuntimeAssumption
     DEF Init, TypeOK, GoalType, PlanType, TaskType, NewTask, TaskStatus, Plans
<1>2. \A t \in Tasks : /\ task[t].plan = 0 /\ task[t].status = "none"
                       /\ task[t].owner = NULL
  BY DEF Init, NewTask
<1>3. goal.status = "none" /\ goal.plan = 0 /\ \A p \in Plans : plan[p].status = "none"
  BY DEF Init
<1>4. QED
  BY <1>1, <1>2, <1>3 DEF IInv, RowsOK, DepsComplete, OpenGoalHasOpenTask, OnePlanActive,
     CompletedPlanIsDone, OwnerRuns, RetryWithinBudget, TasksOf

LEMMA NextIInv == IInv /\ [Next]_vars => IInv'
<1> SUFFICES ASSUME IInv, [Next]_vars PROVE IInv'
  OBVIOUS
<1>1. CASE UNCHANGED vars
  BY <1>1 DEF vars, IInv, TypeOK, RowsOK, DepsComplete, DepsDone, OpenGoalHasOpenTask,
     OnePlanActive, CompletedPlanIsDone, OwnerRuns, RetryWithinBudget, TasksOf
<1>2. ASSUME NEW S \in SUBSET Tasks, NEW d \in [S -> SUBSET S],
             NEW max \in [S -> 1 .. MaxAttempts], CreateGoal(S, d, max)
      PROVE  IInv'
  BY <1>2, CreateGoalKeepsIInv
<1>3. ASSUME NEW p \in Plans, NEW S \in SUBSET TasksOf(0), NEW d \in [S -> SUBSET S],
             NEW max \in [S -> 1 .. MaxAttempts], CreatePlan(p, S, d, max)
      PROVE  IInv'
  <2>1. S \in SUBSET Tasks
    BY DEF TasksOf
  <2>2. QED BY <2>1, <1>3, CreatePlanKeepsIInv
<1>4. ASSUME NEW paused \in BOOLEAN, SetGoalPaused(paused)
      PROVE  IInv'
  BY <1>4, SetGoalPausedKeepsIInv
<1>5. ASSUME NEW p \in Plans, ReorderPlan(p)
      PROVE  IInv'
  BY <1>5, ReorderPlanKeepsIInv
<1>6. ASSUME NEW p \in Plans, NEW due \in SUBSET TasksOf(p), ReadyTasks(p, due)
      PROVE  IInv'
  <2>1. due \in SUBSET Tasks
    BY DEF TasksOf
  <2>2. QED BY <2>1, <1>6, ReadyTasksKeepsIInv
<1>7. ASSUME NEW t \in Tasks, NEW human \in BOOLEAN, TakeoverTask(t, human)
      PROVE  IInv'
  BY <1>7, TakeoverTaskKeepsIInv
<1>8. ASSUME NEW t \in Tasks, NEW target \in TaskStatus, NEW actor \in Actors,
             TransitionTask(t, target, actor)
      PROVE  IInv'
  BY <1>8, TransitionKeepsIInv
<1>9. QED
  BY <1>1, <1>2, <1>3, <1>4, <1>5, <1>6, <1>7, <1>8 DEF Next

\* The inductive invariant holds in every state.
THEOREM InvariantHolds == Spec => []IInv
<1>1. QED BY InitIInv, NextIInv, PTL DEF Spec

\* TypeOK: the rows always have their types.
THEOREM TypeCorrect == Spec => []TypeOK
<1>1. IInv => TypeOK
  BY DEF IInv
<1>2. QED BY InvariantHolds, <1>1, PTL

\* DepsComplete: no task is ready, runs, waits for a retry or is completed
\* before all it depends on is completed (_insert_plan, transition_task,
\* ready_tasks).
THEOREM NoTaskBeforeItsDependencies == Spec => []DepsComplete
<1>1. IInv => DepsComplete
  BY DEF IInv
<1>2. QED BY InvariantHolds, <1>1, PTL

\* OpenGoalHasOpenTask: a goal is not left open with nothing to do
\* (the closing part of transition_task, create_plan).
THEOREM NoForgottenGoal == Spec => []OpenGoalHasOpenTask
<1>1. IInv => OpenGoalHasOpenTask
  BY DEF IInv
<1>2. QED BY InvariantHolds, <1>1, PTL

\* OnePlanActive: replanning leaves one active plan, the goal's.
THEOREM SingleActivePlan == Spec => []OnePlanActive
<1>1. IInv => OnePlanActive
  BY DEF IInv
<1>2. QED BY InvariantHolds, <1>1, PTL

\* CompletedPlanIsDone: a plan recorded as completed never has a failed or
\* open task.
THEOREM CompletionIsTruthful == Spec => []CompletedPlanIsDone
<1>1. IInv => CompletedPlanIsDone
  BY DEF IInv
<1>2. QED BY InvariantHolds, <1>1, PTL

\* OwnerRuns and RetryWithinBudget: who owns a task, and how often it is retried.
THEOREM OwnershipAndBudget == Spec => [](OwnerRuns /\ RetryWithinBudget)
<1>1. IInv => OwnerRuns /\ RetryWithinBudget
  BY DEF IInv
<1>2. QED BY InvariantHolds, <1>1, PTL

\* RevisionTellsChange: whoever read a row before a change sees that it changed
\* (expected_revision in every operation of the service).
THEOREM ConflictsAreSeen == Spec => RevisionTellsChange
<1>1. IInv /\ [Next]_vars => [RevisionStep]_vars
  BY NextTells
<1> QED BY <1>1, InvariantHolds, PTL DEF Spec, RevisionTellsChange

\* TaskAuditIsExact: the append-only trail tells every change of a task's status,
\* with the statuses before and after, and no other (_append_event).
THEOREM AuditIsExact == Spec => TaskAuditIsExact
<1>1. IInv /\ [Next]_vars => [AuditStep]_vars
  BY NextTells
<1> QED BY <1>1, InvariantHolds, PTL DEF Spec, TaskAuditIsExact

-----------------------------------------------------------------------------
(* Graphs: the rounds of TaskGraph are the least fixpoints they are meant  *)
(* to be, and these are the ways through the dependencies.                 *)

\* Induction, as a set of numbers that has them all.
LEMMA NatInduct ==
    ASSUME NEW P, 0 \in P, \A n \in Nat : n \in P => n + 1 \in P
    PROVE  Nat \subseteq P
<1> SUFFICES ASSUME Nat \ P # {} PROVE FALSE
  OBVIOUS
<1>1. PICK m \in Nat \ P : \A k \in Nat \ P : ~ (<<k, m>> \in OpToRel(<, Nat))
  BY NatLessThanWellFounded, WFMin
<1>2. m # 0 /\ m - 1 \in Nat /\ m - 1 \notin P
  BY DEF OpToRel
<1>3. m - 1 < m
  BY <1>2
<1>4. <<m-1, m>> \in OpToRel(<, Nat)
  BY <1>2, <1>3 DEF OpToRel
<1> QED BY <1>1, <1>2, <1>4

\* The first n + 1 values of what is iterated.
Iterate(g, n, S, first, step) ==
    /\ g \in [0 .. n -> S] /\ g[0] = first
    /\ \A i \in 0 .. n - 1 : g[i + 1] = step[g[i]]

\* A function can be iterated.
LEMMA Iterates ==
    ASSUME NEW S, NEW first \in S, NEW step \in [S -> S]
    PROVE  \E f \in [Nat -> S] : f[0] = first /\ \A n \in Nat : f[n + 1] = step[f[n]]
<1> DEFINE It(g, n) == Iterate(g, n, S, first, step)
           Some == {n \in Nat : \E g : It(g, n)}
<1>1. Nat \subseteq Some
  <2>1. 0 \in Some
    <3>1. It([i \in 0 .. 0 |-> first], 0)
      BY DEF Iterate
    <3> QED BY <3>1
  <2>2. ASSUME NEW n \in Nat, n \in Some PROVE n + 1 \in Some
    <3>1. PICK g : It(g, n)
      BY <2>2
    <3> DEFINE h == [i \in 0 .. n + 1 |-> IF i = n + 1 THEN step[g[n]] ELSE g[i]]
    <3>2. g \in [0 .. n -> S] /\ n \in 0 .. n /\ g[n] \in S /\ step[g[n]] \in S
      BY <3>1 DEF Iterate
    <3>3. h \in [0 .. n + 1 -> S] /\ h[0] = first
      BY <3>1, <3>2 DEF Iterate
    <3>4. ASSUME NEW i \in 0 .. (n + 1) - 1 PROVE h[i + 1] = step[h[i]]
      <4>1. i \in 0 .. n /\ i + 1 \in 0 .. n + 1 /\ i \in 0 .. n + 1
        OBVIOUS
      <4>2. h[i] = g[i]
        BY <4>1
      <4>3. CASE i = n
        BY <4>1, <4>2, <4>3
      <4>4. CASE i # n
        <5>1. i \in 0 .. n - 1
          BY <4>1, <4>4
        <5>2. h[i + 1] = g[i + 1]
          BY <4>1, <5>1
        <5> QED BY <3>1, <4>2, <5>1, <5>2 DEF Iterate
      <4> QED BY <4>3, <4>4
    <3> HIDE DEF h
    <3>5. It(h, n + 1)
      BY <3>3, <3>4 DEF Iterate
    <3> QED BY <3>5
  <2> HIDE DEF Some
  <2> QED BY <2>1, <2>2, NatInduct
<1>2. ASSUME NEW n \in Nat, NEW g, It(g, n), NEW m \in Nat, NEW h, It(h, m)
      PROVE  \A i \in Nat : i <= n /\ i <= m => g[i] = h[i]
  <2> DEFINE Same == {i \in Nat : i <= n /\ i <= m => g[i] = h[i]}
  <2>1. 0 \in Same
    BY <1>2 DEF Iterate
  <2>2. ASSUME NEW i \in Nat, i \in Same PROVE i + 1 \in Same
    <3> SUFFICES ASSUME i + 1 <= n, i + 1 <= m PROVE g[i + 1] = h[i + 1]
      OBVIOUS
    <3>1. i \in 0 .. n - 1 /\ i \in 0 .. m - 1
      OBVIOUS
    <3>2. g[i] = h[i]
      BY <2>2, <3>1
    <3> QED BY <1>2, <3>1, <3>2 DEF Iterate
  <2>3. Nat \subseteq Same
    <3> HIDE DEF Same
    <3> QED BY <2>1, <2>2, NatInduct
  <2> QED BY <2>3
<1> DEFINE First(n) == CHOOSE g : It(g, n)
           f == [n \in Nat |-> First(n)[n]]
<1>3. ASSUME NEW n \in Nat PROVE It(First(n), n)
  BY <1>1
<1>4. f \in [Nat -> S] /\ f[0] = first
  <2>1. ASSUME NEW n \in Nat PROVE First(n)[n] \in S /\ First(n)[0] = first
    <3>1. n \in 0 .. n
      OBVIOUS
    <3> QED BY <1>3, <3>1 DEF Iterate
  <2> HIDE DEF First
  <2> QED BY <2>1
<1>5. ASSUME NEW n \in Nat PROVE f[n + 1] = step[f[n]]
  <2>1. It(First(n + 1), n + 1) /\ It(First(n), n) /\ n + 1 \in Nat
    BY <1>3
  <2>2. First(n + 1)[n] = First(n)[n]
    BY <1>2, <2>1
  <2>3. First(n + 1)[n + 1] = step[First(n + 1)[n]]
    <3>1. n \in 0 .. (n + 1) - 1
      OBVIOUS
    <3> HIDE DEF First
    <3> QED BY <2>1, <3>1 DEF Iterate
  <2> QED BY <2>2, <2>3
<1> QED BY <1>4, <1>5

\* Sets that grow round by round, each from the one before, have stopped to grow when the
\* rounds are as many as their members can be.
LEMMA RoundsSettle ==
    ASSUME NEW S, IsFiniteSet(S), NEW D \in [Nat -> SUBSET S],
           \A n \in Nat : D[n] \subseteq D[n + 1],
           \A n \in Nat : D[n + 1] = D[n] => D[n + 2] = D[n + 1]
    PROVE  D[Cardinality(S) + 1] = D[Cardinality(S)]
<1> DEFINE P == {n \in Nat : D[n + 1] = D[n] \/ Cardinality(D[n]) >= n}
<1>1. ASSUME NEW n \in Nat
      PROVE  /\ IsFiniteSet(D[n]) /\ Cardinality(D[n]) \in Nat /\ D[n] \in SUBSET S
             /\ Cardinality(D[n]) <= Cardinality(S)
             /\ Cardinality(D[n]) = Cardinality(S) => D[n] = S
  BY FS_Subset, FS_CardinalityType
<1>2. 0 \in P
  BY <1>1
<1>3. ASSUME NEW n \in Nat, n \in P PROVE n + 1 \in P
  <2>1. CASE D[n + 1] = D[n]
    <3>1. D[n + 2] = D[n + 1] /\ (n + 1) + 1 = n + 2
      BY <2>1
    <3> QED BY <3>1
  <2>2. CASE D[n + 1] # D[n]
    <3>1. D[n] \in SUBSET D[n + 1] /\ n + 1 \in Nat
      OBVIOUS
    <3>2. /\ IsFiniteSet(D[n + 1]) /\ Cardinality(D[n + 1]) \in Nat /\ Cardinality(D[n]) \in Nat
      BY <1>1, <3>1
    <3>3. Cardinality(D[n]) <= Cardinality(D[n + 1]) /\ Cardinality(D[n]) # Cardinality(D[n + 1])
      BY <2>2, <3>1, <3>2, FS_Subset
    <3>4. Cardinality(D[n]) >= n
      BY <1>3, <2>2
    <3>5. Cardinality(D[n + 1]) >= n + 1
      BY <3>2, <3>3, <3>4
    <3> QED BY <3>1, <3>5
  <2> QED BY <2>1, <2>2
<1>4. Nat \subseteq P
  <2> HIDE DEF P
  <2> QED BY <1>2, <1>3, NatInduct
<1>5. Cardinality(S) \in Nat
  BY FS_CardinalityType
<1>6. CASE Cardinality(D[Cardinality(S)]) >= Cardinality(S)
  <2>1. D[Cardinality(S)] = S
    <3>1. Cardinality(D[Cardinality(S)]) = Cardinality(S)
      BY <1>1, <1>5, <1>6
    <3> QED BY <1>1, <1>5, <3>1
  <2>2. D[Cardinality(S)] \subseteq D[Cardinality(S) + 1] /\ D[Cardinality(S) + 1] \subseteq S
    BY <1>5
  <2> QED BY <2>1, <2>2
<1> QED BY <1>4, <1>5, <1>6

\* Visited, round by round.
LEMMA VisitedRounds ==
    ASSUME NEW S, NEW d
    PROVE  \E V \in [Nat -> SUBSET S] :
             /\ V[0] = {} /\ \A n \in Nat : V[n + 1] = V[n] \cup {k \in S : d[k] \subseteq V[n]}
             /\ Visited(S, d) = V[Cardinality(S)]
<1> DEFINE Round(V, n) == IF n = 0 THEN {} ELSE V[n - 1] \cup {k \in S : d[k] \subseteq V[n - 1]}
           V == CHOOSE V : V = [n \in Nat |-> Round(V, n)]
           T == SUBSET S
           step == [X \in T |-> X \cup {k \in S : d[k] \subseteq X}]
<1>1. step \in [T -> T] /\ {} \in T
  OBVIOUS
<1>2. PICK f \in [Nat -> T] : f[0] = {} /\ \A n \in Nat : f[n + 1] = step[f[n]]
  <2> DEFINE first == {}
  <2>1. first \in T /\ step \in [T -> T]
    BY <1>1
  <2> HIDE DEF step, T, first
  <2>2. \E f \in [Nat -> T] : f[0] = first /\ \A n \in Nat : f[n + 1] = step[f[n]]
    BY <2>1, Iterates, Z3
  <2> QED BY <2>2 DEF first
<1>3. f = [n \in Nat |-> Round(f, n)]
  <2>1. ASSUME NEW n \in Nat PROVE f[n] = Round(f, n)
    <3>1. CASE n # 0
      <4>1. n - 1 \in Nat /\ (n - 1) + 1 = n
        BY <3>1
      <4>2. f[n] = step[f[n - 1]] /\ f[n - 1] \in T
        BY <1>2, <4>1
      <4> QED BY <3>1, <4>2
    <3> QED BY <1>2, <3>1
  <2> HIDE DEF Round, T
  <2> QED BY <1>2, <2>1
<1>4. V = [n \in Nat |-> Round(V, n)]
  <2> HIDE DEF Round
  <2> QED BY <1>3
<1>5. Visited(S, d) = V[Cardinality(S)]
  BY DEF Visited
<1> HIDE DEF V
<1>6. V[0] = {} /\ \A n \in Nat : V[n + 1] = V[n] \cup {k \in S : d[k] \subseteq V[n]}
  <2>1. \A n \in Nat : V[n] = Round(V, n)
    <3> HIDE DEF Round
    <3> QED BY <1>4
  <2>2. V[0] = {}
    BY <2>1
  <2>3. ASSUME NEW n \in Nat PROVE V[n + 1] = V[n] \cup {k \in S : d[k] \subseteq V[n]}
    <3>1. n + 1 \in Nat /\ n + 1 # 0 /\ (n + 1) - 1 = n
      OBVIOUS
    <3>2. V[n + 1] = Round(V, n + 1)
      BY <2>1, <3>1
    <3> QED BY <3>1, <3>2
  <2> QED BY <2>2, <2>3
<1>7. V \in [Nat -> SUBSET S]
  <2> DEFINE P == {n \in Nat : V[n] \in SUBSET S}
  <2>1. 0 \in P /\ \A n \in Nat : n \in P => n + 1 \in P
    BY <1>6
  <2>2. Nat \subseteq P
    <3> HIDE DEF P
    <3> QED BY <2>1, NatInduct
  <2>3. V = [n \in Nat |-> V[n]]
    <3> HIDE DEF Round
    <3> QED BY <1>4
  <2> QED BY <2>2, <2>3
<1> QED BY <1>5, <1>6, <1>7

\* Visited is the least set that has every key whose dependencies it has.
LEMMA VisitedIsLeast ==
    ASSUME NEW S, NEW d, IsFiniteSet(S)
    PROVE  /\ Visited(S, d) \subseteq S
           /\ \A k \in S : d[k] \subseteq Visited(S, d) => k \in Visited(S, d)
           /\ \A Y \in SUBSET S : (\A k \in S : d[k] \subseteq Y => k \in Y) => Visited(S, d) \subseteq Y
<1>1. PICK V \in [Nat -> SUBSET S] :
          /\ V[0] = {} /\ \A n \in Nat : V[n + 1] = V[n] \cup {k \in S : d[k] \subseteq V[n]}
          /\ Visited(S, d) = V[Cardinality(S)]
  BY VisitedRounds
<1>2. Cardinality(S) \in Nat
  BY FS_CardinalityType
<1>3. V[Cardinality(S) + 1] = V[Cardinality(S)]
  <2>1. \A n \in Nat : V[n] \subseteq V[n + 1]
    BY <1>1
  <2>2. ASSUME NEW n \in Nat, V[n + 1] = V[n] PROVE V[n + 2] = V[n + 1]
    <3>1. (n + 1) + 1 = n + 2 /\ n + 1 \in Nat
      OBVIOUS
    <3>2. V[(n + 1) + 1] = V[n + 1] \cup {k \in S : d[k] \subseteq V[n + 1]}
      BY <1>1, <3>1
    <3>3. V[n + 1] = V[n] \cup {k \in S : d[k] \subseteq V[n]}
      BY <1>1
    <3> QED BY <2>2, <3>1, <3>2, <3>3
  <2> QED BY <2>1, <2>2, RoundsSettle
<1>4. V[Cardinality(S) + 1] = V[Cardinality(S)] \cup {k \in S : d[k] \subseteq V[Cardinality(S)]}
  BY <1>1, <1>2
<1>5. ASSUME NEW Y \in SUBSET S, \A k \in S : d[k] \subseteq Y => k \in Y
      PROVE  V[Cardinality(S)] \subseteq Y
  <2> DEFINE P == {n \in Nat : V[n] \subseteq Y}
  <2>1. 0 \in P
    BY <1>1
  <2>2. ASSUME NEW n \in Nat, n \in P PROVE n + 1 \in P
    <3>1. V[n + 1] = V[n] \cup {k \in S : d[k] \subseteq V[n]} /\ V[n] \subseteq Y
      BY <1>1, <2>2
    <3> QED BY <1>5, <3>1
  <2>3. Nat \subseteq P
    <3> HIDE DEF P
    <3> QED BY <2>1, <2>2, NatInduct
  <2> QED BY <1>2, <2>3
<1> QED BY <1>1, <1>2, <1>3, <1>4, <1>5

\* Tasks that wait for each other.
Knot(C, d) == C # {} /\ \A k \in C : d[k] \cap C # {}

\* The queue reaches everything unless there are tasks that wait for each other.
LEMMA VisitedUnlessKnot ==
    ASSUME NEW S, NEW d, IsFiniteSet(S), \A k \in S : d[k] \subseteq S
    PROVE  Visited(S, d) = S <=> \A C \in SUBSET S : ~Knot(C, d)
<1> DEFINE X == Visited(S, d)
<1>1. /\ X \subseteq S /\ \A k \in S : d[k] \subseteq X => k \in X
      /\ \A Y \in SUBSET S : (\A k \in S : d[k] \subseteq Y => k \in Y) => X \subseteq Y
  BY VisitedIsLeast
<1> HIDE DEF X
<1>2. ASSUME X # S PROVE Knot(S \ X, d)
  BY <1>1, <1>2 DEF Knot
<1>3. ASSUME NEW C \in SUBSET S, Knot(C, d) PROVE X # S
  <2>1. ASSUME NEW k \in S, d[k] \subseteq S \ C PROVE k \in S \ C
    BY <1>3, <2>1 DEF Knot
  <2>2. X \subseteq S \ C
    BY <1>1, <2>1
  <2> QED BY <1>3, <2>2 DEF Knot
<1> QED BY <1>2, <1>3 DEF X

\* Below, round by round.
LEMMA BelowRounds ==
    ASSUME NEW T, NEW t \in T, NEW d
    PROVE  \E B \in [Nat -> SUBSET T] :
             /\ B[0] = {t} /\ \A n \in Nat : B[n + 1] = B[n] \cup {c \in T : d[c] \cap B[n] # {}}
             /\ Below(t, T, d) = B[Cardinality(T)] \ {t}
<1> DEFINE Round(B, n) == IF n = 0 THEN {t} ELSE B[n - 1] \cup {c \in T : d[c] \cap B[n - 1] # {}}
           B == CHOOSE B : B = [n \in Nat |-> Round(B, n)]
           U == SUBSET T
           step == [X \in U |-> X \cup {c \in T : d[c] \cap X # {}}]
<1>1. step \in [U -> U] /\ {t} \in U
  OBVIOUS
<1>2. PICK f \in [Nat -> U] : f[0] = {t} /\ \A n \in Nat : f[n + 1] = step[f[n]]
  <2> DEFINE first == {t}
  <2>1. first \in U /\ step \in [U -> U]
    BY <1>1
  <2> HIDE DEF step, U, first
  <2>2. \E f \in [Nat -> U] : f[0] = first /\ \A n \in Nat : f[n + 1] = step[f[n]]
    BY <2>1, Iterates, Z3
  <2> QED BY <2>2 DEF first
<1>3. f = [n \in Nat |-> Round(f, n)]
  <2>1. ASSUME NEW n \in Nat PROVE f[n] = Round(f, n)
    <3>1. CASE n # 0
      <4>1. n - 1 \in Nat /\ (n - 1) + 1 = n
        BY <3>1
      <4>2. f[n] = step[f[n - 1]] /\ f[n - 1] \in U
        BY <1>2, <4>1
      <4> QED BY <3>1, <4>2
    <3> QED BY <1>2, <3>1
  <2> HIDE DEF Round, U
  <2> QED BY <1>2, <2>1
<1>4. B = [n \in Nat |-> Round(B, n)]
  <2> HIDE DEF Round
  <2> QED BY <1>3
<1>5. Below(t, T, d) = B[Cardinality(T)] \ {t}
  BY DEF Below
<1> HIDE DEF B
<1>6. B[0] = {t} /\ \A n \in Nat : B[n + 1] = B[n] \cup {c \in T : d[c] \cap B[n] # {}}
  <2>1. \A n \in Nat : B[n] = Round(B, n)
    <3> HIDE DEF Round
    <3> QED BY <1>4
  <2>2. B[0] = {t}
    BY <2>1
  <2>3. ASSUME NEW n \in Nat PROVE B[n + 1] = B[n] \cup {c \in T : d[c] \cap B[n] # {}}
    <3>1. n + 1 \in Nat /\ n + 1 # 0 /\ (n + 1) - 1 = n
      OBVIOUS
    <3>2. B[n + 1] = Round(B, n + 1)
      BY <2>1, <3>1
    <3> QED BY <3>1, <3>2
  <2> QED BY <2>2, <2>3
<1>7. B \in [Nat -> SUBSET T]
  <2> DEFINE P == {n \in Nat : B[n] \in SUBSET T}
  <2>1. 0 \in P /\ \A n \in Nat : n \in P => n + 1 \in P
    BY <1>6
  <2>2. Nat \subseteq P
    <3> HIDE DEF P
    <3> QED BY <2>1, NatInduct
  <2>3. B = [n \in Nat |-> B[n]]
    <3> HIDE DEF Round
    <3> QED BY <1>4
  <2> QED BY <2>2, <2>3
<1> QED BY <1>5, <1>6, <1>7

\* What waits for a task of X is in X.
Downward(X, T, d) == \A c \in T : d[c] \cap X # {} => c \in X

\* The tasks below t, with t, are the least such set that has t.
LEMMA BelowIsLeast ==
    ASSUME NEW T, NEW t \in T, NEW d, IsFiniteSet(T)
    PROVE  \E B \in SUBSET T :
             /\ Below(t, T, d) = B \ {t} /\ t \in B /\ Downward(B, T, d)
             /\ \A X \in SUBSET T : t \in X /\ Downward(X, T, d) => B \subseteq X
<1>1. PICK B \in [Nat -> SUBSET T] :
          /\ B[0] = {t} /\ \A n \in Nat : B[n + 1] = B[n] \cup {c \in T : d[c] \cap B[n] # {}}
          /\ Below(t, T, d) = B[Cardinality(T)] \ {t}
  BY BelowRounds
<1>2. Cardinality(T) \in Nat
  BY FS_CardinalityType
<1>3. B[Cardinality(T) + 1] = B[Cardinality(T)]
  <2>1. \A n \in Nat : B[n] \subseteq B[n + 1]
    BY <1>1
  <2>2. ASSUME NEW n \in Nat, B[n + 1] = B[n] PROVE B[n + 2] = B[n + 1]
    <3>1. (n + 1) + 1 = n + 2 /\ n + 1 \in Nat
      OBVIOUS
    <3>2. B[(n + 1) + 1] = B[n + 1] \cup {c \in T : d[c] \cap B[n + 1] # {}}
      BY <1>1, <3>1
    <3>3. B[n + 1] = B[n] \cup {c \in T : d[c] \cap B[n] # {}}
      BY <1>1
    <3> QED BY <2>2, <3>1, <3>2, <3>3
  <2> QED BY <2>1, <2>2, RoundsSettle
<1>4. B[Cardinality(T) + 1] = B[Cardinality(T)] \cup {c \in T : d[c] \cap B[Cardinality(T)] # {}}
  BY <1>1, <1>2
<1>5. t \in B[Cardinality(T)]
  <2> DEFINE P == {n \in Nat : t \in B[n]}
  <2>1. 0 \in P /\ \A n \in Nat : n \in P => n + 1 \in P
    BY <1>1
  <2>2. Nat \subseteq P
    <3> HIDE DEF P
    <3> QED BY <2>1, NatInduct
  <2> QED BY <1>2, <2>2
<1>6. ASSUME NEW X \in SUBSET T, t \in X, Downward(X, T, d)
      PROVE  B[Cardinality(T)] \subseteq X
  <2> DEFINE P == {n \in Nat : B[n] \subseteq X}
  <2>1. 0 \in P
    BY <1>1, <1>6
  <2>2. ASSUME NEW n \in Nat, n \in P PROVE n + 1 \in P
    <3>1. B[n + 1] = B[n] \cup {c \in T : d[c] \cap B[n] # {}} /\ B[n] \subseteq X
      BY <1>1, <2>2
    <3> QED BY <1>6, <3>1 DEF Downward
  <2>3. Nat \subseteq P
    <3> HIDE DEF P
    <3> QED BY <2>1, <2>2, NatInduct
  <2> QED BY <1>2, <2>3
<1>7. Downward(B[Cardinality(T)], T, d)
  BY <1>3, <1>4 DEF Downward
<1> QED BY <1>1, <1>2, <1>5, <1>6, <1>7

LEMMA WayGrows ==
    ASSUME NEW S, NEW d, NEW x \in S, NEW z \in S, NEW y \in S, z \in d[x], NEW n \in Nat,
           NEW p \in Ways(n, z, y, S, d)
    PROVE  Ways(n + 1, x, y, S, d) # {}
<1> DEFINE q == [i \in 0 .. n + 1 |-> IF i = 0 THEN x ELSE p[i - 1]]
<1>1. p \in [0 .. n -> S] /\ p[0] = z /\ p[n] = y
  BY DEF Ways
<1>2. q \in [0 .. n + 1 -> S] /\ q[0] = x /\ q[n + 1] = y
  BY <1>1
<1>3. ASSUME NEW i \in 1 .. n + 1 PROVE q[i] \in d[q[i - 1]]
  <2>1. i - 1 \in 0 .. n + 1 /\ i \in 0 .. n + 1 /\ q[i] = p[i - 1]
    OBVIOUS
  <2>2. CASE i = 1
    BY <1>1, <2>1, <2>2
  <2>3. CASE i # 1
    <3>1. i - 1 \in 1 .. n
      BY <2>3
    <3>2. q[i - 1] = p[(i - 1) - 1]
      BY <2>1, <2>3
    <3> QED BY <2>1, <3>1, <3>2 DEF Ways
  <2> QED BY <2>2, <2>3
<1> HIDE DEF q
<1> QED BY <1>2, <1>3 DEF Ways

LEMMA WayShrinks ==
    ASSUME NEW S, NEW d, NEW x, NEW y, NEW n \in Nat \ {0}, NEW p \in Ways(n, x, y, S, d)
    PROVE  /\ p[1] \in S /\ p[1] \in d[x]
           /\ n = 1 => p[1] = y
           /\ n # 1 => Ways(n - 1, p[1], y, S, d) # {}
<1> DEFINE q == [i \in 0 .. n - 1 |-> p[i + 1]]
<1>1. p \in [0 .. n -> S] /\ p[0] = x /\ p[n] = y /\ 1 \in 1 .. n /\ 1 \in 0 .. n
  BY DEF Ways
<1>2. p[1] \in d[p[1 - 1]]
  BY <1>1 DEF Ways
<1>3. q \in [0 .. n - 1 -> S] /\ q[0] = p[1] /\ q[n - 1] = y
  BY <1>1
<1>4. ASSUME NEW i \in 1 .. n - 1 PROVE q[i] \in d[q[i - 1]]
  <2>1. i + 1 \in 1 .. n /\ q[i] = p[i + 1] /\ q[i - 1] = p[(i + 1) - 1]
    OBVIOUS
  <2> HIDE DEF q
  <2> QED BY <2>1 DEF Ways
<1> HIDE DEF q
<1> QED BY <1>1, <1>2, <1>3, <1>4 DEF Ways

\* A way is longer by the step before it.
LEMMA LeadsStep ==
    ASSUME NEW S, NEW d, NEW y \in S, NEW n \in Nat, NEW x \in S
    PROVE  x \in Leads(y, n + 1, S, d) <=>
               y \in d[x] \/ \E z \in S : z \in d[x] /\ z \in Leads(y, n, S, d)
<1>1. ASSUME y \in d[x] PROVE x \in Leads(y, n + 1, S, d)
  <2> DEFINE p == [i \in 0 .. 0 |-> y]
  <2>1. p \in Ways(0, y, y, S, d)
    BY DEF Ways
  <2> HIDE DEF p
  <2>2. Ways(0 + 1, x, y, S, d) # {}
    BY <1>1, <2>1, WayGrows
  <2> QED BY <2>2 DEF Leads
<1>2. ASSUME NEW z \in S, z \in d[x], z \in Leads(y, n, S, d) PROVE x \in Leads(y, n + 1, S, d)
  <2>1. PICK m \in 1 .. n : Ways(m, z, y, S, d) # {}
    BY <1>2 DEF Leads
  <2>2. Ways(m + 1, x, y, S, d) # {}
    BY <1>2, <2>1, WayGrows
  <2>3. m + 1 \in 1 .. n + 1
    OBVIOUS
  <2> QED BY <2>2, <2>3 DEF Leads
<1>3. ASSUME x \in Leads(y, n + 1, S, d), y \notin d[x]
      PROVE  \E z \in S : z \in d[x] /\ z \in Leads(y, n, S, d)
  <2>1. PICK m \in 1 .. n + 1 : Ways(m, x, y, S, d) # {}
    BY <1>3 DEF Leads
  <2> PICK p \in Ways(m, x, y, S, d) : TRUE
    BY <2>1
  <2>2. m \in Nat \ {0}
    OBVIOUS
  <2>3. /\ p[1] \in S /\ p[1] \in d[x] /\ m # 1
        /\ Ways(m - 1, p[1], y, S, d) # {}
    BY <1>3, <2>1, <2>2, WayShrinks
  <2>4. m - 1 \in 1 .. n
    BY <2>3
  <2> QED BY <2>3, <2>4 DEF Leads
<1> QED BY <1>1, <1>2, <1>3

\* Those that wait for y: what depends on it, and what depends on one that waits for it.
\* The bound on the ways leaves none out.
LEMMA LeadsSettle ==
    ASSUME NEW S, NEW d, NEW y \in S, IsFiniteSet(S)
    PROVE  LET A == Leads(y, Cardinality(S), S, d)
           IN  \A x \in S : x \in A <=> y \in d[x] \/ \E z \in A : z \in d[x]
<1> DEFINE D == [n \in Nat |-> Leads(y, n, S, d)]
           N == Cardinality(S)
<1>1. N \in Nat
  BY FS_CardinalityType
<1>2. D \in [Nat -> SUBSET S] /\ \A n \in Nat : D[n] = Leads(y, n, S, d)
  BY DEF Leads
<1> HIDE DEF D, N
<1>3. ASSUME NEW n \in Nat PROVE D[n] \subseteq D[n + 1]
  <2>1. 1 .. n \subseteq 1 .. n + 1 /\ n + 1 \in Nat
    OBVIOUS
  <2>2. Leads(y, n, S, d) \subseteq Leads(y, n + 1, S, d)
    BY <2>1 DEF Leads
  <2> QED BY <1>2, <2>1, <2>2
<1>4. ASSUME NEW n \in Nat, D[n + 1] = D[n] PROVE D[n + 2] = D[n + 1]
  <2>1. n + 1 \in Nat /\ n + 2 \in Nat /\ (n + 1) + 1 = n + 2
    OBVIOUS
  <2>2. Leads(y, n + 1, S, d) = Leads(y, n, S, d)
    BY <1>2, <1>4, <2>1
  <2>3. ASSUME NEW x \in S
        PROVE  x \in Leads(y, n + 2, S, d) <=> x \in Leads(y, n + 1, S, d)
    <3>1. x \in Leads(y, n + 2, S, d) <=>
              y \in d[x] \/ \E z \in S : z \in d[x] /\ z \in Leads(y, n + 1, S, d)
      <4>1. x \in Leads(y, (n + 1) + 1, S, d) <=>
              y \in d[x] \/ \E z \in S : z \in d[x] /\ z \in Leads(y, n + 1, S, d)
        BY <2>1, LeadsStep
      <4> QED BY <2>1, <4>1
    <3>2. x \in Leads(y, n + 1, S, d) <=>
              y \in d[x] \/ \E z \in S : z \in d[x] /\ z \in Leads(y, n, S, d)
      BY LeadsStep
    <3> QED BY <2>2, <3>1, <3>2
  <2>4. Leads(y, n + 2, S, d) = Leads(y, n + 1, S, d)
    BY <2>3 DEF Leads
  <2> QED BY <1>2, <2>1, <2>4
<1>5. D[N + 1] = D[N]
  BY <1>2, <1>3, <1>4, RoundsSettle DEF N
<1>6. Leads(y, N + 1, S, d) = Leads(y, N, S, d) /\ Leads(y, N, S, d) \subseteq S
  BY <1>1, <1>2, <1>5 DEF Leads
<1>7. ASSUME NEW x \in S
      PROVE  x \in Leads(y, N, S, d) <=> y \in d[x] \/ \E z \in Leads(y, N, S, d) : z \in d[x]
  <2>1. x \in Leads(y, N + 1, S, d) <=>
            y \in d[x] \/ \E z \in S : z \in d[x] /\ z \in Leads(y, N, S, d)
    BY <1>1, LeadsStep
  <2> QED BY <1>6, <2>1
<1> QED BY <1>7 DEF N

\* Of the sets with y that have what depends on them, those that wait for y, with y, are
\* the least.
LEMMA LeadsIsLeast ==
    ASSUME NEW S, NEW d, NEW y \in S, IsFiniteSet(S)
    PROVE  LET A == Leads(y, Cardinality(S), S, d)
           IN  /\ A \in SUBSET S /\ Downward(A \cup {y}, S, d)
               /\ \A X \in SUBSET S : y \in X /\ Downward(X, S, d) => A \subseteq X
<1> DEFINE N == Cardinality(S)
           A == Leads(y, N, S, d)
<1>1. N \in Nat
  BY FS_CardinalityType
<1>2. A \in SUBSET S /\ \A x \in S : x \in A <=> y \in d[x] \/ \E z \in A : z \in d[x]
  BY LeadsSettle DEF Leads
<1>3. ASSUME NEW X \in SUBSET S, y \in X, Downward(X, S, d) PROVE A \subseteq X
  <2> DEFINE P == {n \in Nat : Leads(y, n, S, d) \subseteq X}
  <2>1. 0 \in P
    BY DEF Leads
  <2>2. ASSUME NEW n \in Nat, n \in P PROVE n + 1 \in P
    <3>1. ASSUME NEW x \in S, x \in Leads(y, n + 1, S, d) PROVE x \in X
      <4>1. y \in d[x] \/ \E z \in S : z \in d[x] /\ z \in Leads(y, n, S, d)
        BY <3>1, LeadsStep
      <4> QED BY <1>3, <2>2, <4>1 DEF Downward
    <3> QED BY <3>1 DEF Leads
  <2>3. Nat \subseteq P
    <3> HIDE DEF P
    <3> QED BY <2>1, <2>2, NatInduct
  <2> QED BY <1>1, <2>3
<1>4. Downward(A \cup {y}, S, d)
  <2> HIDE DEF A
  <2> QED BY <1>2 DEF Downward
<1> QED BY <1>2, <1>3, <1>4

\* The loop of rounds finds the same tasks as the ways.
LEMMA BelowIsLeads ==
    ASSUME NEW T, NEW t \in T, NEW d, IsFiniteSet(T)
    PROVE  Below(t, T, d) = Leads(t, Cardinality(T), T, d) \ {t}
<1> DEFINE A == Leads(t, Cardinality(T), T, d)
<1>1. PICK B \in SUBSET T :
          /\ Below(t, T, d) = B \ {t} /\ t \in B /\ Downward(B, T, d)
          /\ \A X \in SUBSET T : t \in X /\ Downward(X, T, d) => B \subseteq X
  BY BelowIsLeast
<1>2. /\ A \in SUBSET T /\ Downward(A \cup {t}, T, d)
      /\ \A X \in SUBSET T : t \in X /\ Downward(X, T, d) => A \subseteq X
  BY LeadsIsLeast
<1> HIDE DEF A
<1>3. A \subseteq B /\ B \subseteq A \cup {t}
  BY <1>1, <1>2
<1> QED BY <1>1, <1>3 DEF A

\* A task waits for itself exactly when some wait for each other.
LEMMA LoopIsKnot ==
    ASSUME NEW S, NEW d, IsFiniteSet(S)
    PROVE  (\E k \in S : k \in Leads(k, Cardinality(S), S, d)) <=> \E C \in SUBSET S : Knot(C, d)
<1> DEFINE A(k) == Leads(k, Cardinality(S), S, d)
           U(k) == {m \in S : k \in A(m)}
<1>1. ASSUME NEW k \in S
      PROVE  A(k) \in SUBSET S /\ \A x \in S : x \in A(k) <=> k \in d[x] \/ \E z \in A(k) : z \in d[x]
  BY LeadsSettle DEF Leads
<1> HIDE DEF A
<1>2. ASSUME NEW k \in S, k \in A(k) PROVE Knot(A(k), d)
  <2>1. ASSUME NEW x \in A(k) PROVE d[x] \cap A(k) # {}
    BY <1>1, <1>2
  <2> QED BY <1>2, <2>1 DEF Knot
<1>3. ASSUME NEW C \in SUBSET S, Knot(C, d), \A k \in S : k \notin A(k) PROVE FALSE
  <2>1. ASSUME NEW k \in S
        PROVE  IsFiniteSet(U(k)) /\ Cardinality(U(k)) \in Nat
    <3>1. U(k) \in SUBSET S
      OBVIOUS
    <3> HIDE DEF U
    <3> QED BY <3>1, FS_Subset, FS_CardinalityType
  <2>2. ASSUME NEW k \in C PROVE \E z \in C : Cardinality(U(z)) < Cardinality(U(k))
    <3>1. PICK z \in C : z \in d[k]
      BY <1>3 DEF Knot
    <3>2. U(z) \in SUBSET U(k) /\ z \in U(k) /\ z \notin U(z)
      BY <1>1, <1>3, <3>1
    <3>3. IsFiniteSet(U(k)) /\ Cardinality(U(k)) \in Nat /\ Cardinality(U(z)) \in Nat
      BY <2>1
    <3> HIDE DEF U
    <3>4. Cardinality(U(z)) <= Cardinality(U(k)) /\ Cardinality(U(z)) # Cardinality(U(k))
      BY <3>2, <3>3, FS_Subset
    <3> QED BY <3>3, <3>4
  <2> DEFINE Sizes == {Cardinality(U(k)) : k \in C}
             P == {n \in Nat : \A m \in Sizes : m > n}
  <2>3. Sizes \subseteq Nat /\ Sizes # {}
    <3> HIDE DEF U
    <3> QED BY <1>3, <2>1 DEF Knot
  <2>4. ASSUME NEW n \in Sizes PROVE \E m \in Sizes : m < n
    <3> HIDE DEF U
    <3> QED BY <2>2
  <2> HIDE DEF Sizes
  <2>5. 0 \in P
    BY <2>3, <2>4
  <2>6. ASSUME NEW n \in Nat, n \in P PROVE n + 1 \in P
    BY <2>3, <2>4, <2>6
  <2>7. Nat \subseteq P
    <3> HIDE DEF P
    <3> QED BY <2>5, <2>6, NatInduct
  <2>8. PICK m \in Sizes : m \in Nat
    BY <2>3
  <2>9. m \in P
    BY <2>7, <2>8
  <2> QED BY <2>8, <2>9
<1> QED BY <1>1, <1>2, <1>3 DEF A

\* An injection of as many numbers as S has members is a sequence of all of them.
LEMMA InjectiveSeq ==
    ASSUME NEW S, IsFiniteSet(S), NEW f \in [1 .. Cardinality(S) -> S],
           \A i, j \in 1 .. Cardinality(S) : f[i] = f[j] => i = j
    PROVE  f \in Seq(S) /\ Len(f) = Cardinality(S) /\ \A x \in S : \E i \in 1 .. Cardinality(S) : f[i] = x
<1> DEFINE N == Cardinality(S)
<1>1. N \in Nat /\ IsFiniteSet(1 .. N) /\ Cardinality(1 .. N) = N
  BY FS_CardinalityType, FS_Interval
<1>2. f \in Injection(1 .. N, S)
  BY DEF Injection, IsInjective
<1>3. f \in Surjection(1 .. N, S)
  <2> HIDE DEF N
  <2> QED BY <1>1, <1>2, FS_Injection DEF N
<1>4. f \in Seq(S) /\ Len(f) = N
  BY <1>1
<1> QED BY <1>3, <1>4 DEF Surjection

LEMMA SetToSeqIsAll ==
    ASSUME NEW S, IsFiniteSet(S)
    PROVE  /\ SetToSeq(S) \in Seq(S)
           /\ \A i, j \in 1 .. Len(SetToSeq(S)) : SetToSeq(S)[i] = SetToSeq(S)[j] => i = j
           /\ S = {SetToSeq(S)[i] : i \in 1 .. Len(SetToSeq(S))}
<1>1. \E f \in [1 .. Cardinality(S) -> S] : IsInjective(f)
  BY FS_CardinalityType DEF ExistsBijection, Bijection, Injection
<1>2. SetToSeq(S) \in [1 .. Cardinality(S) -> S] /\ IsInjective(SetToSeq(S))
  BY <1>1 DEF SetToSeq
<1>3. \A i, j \in 1 .. Cardinality(S) : SetToSeq(S)[i] = SetToSeq(S)[j] => i = j
  BY <1>2 DEF IsInjective
<1>4. /\ SetToSeq(S) \in Seq(S) /\ Len(SetToSeq(S)) = Cardinality(S)
      /\ \A x \in S : \E i \in 1 .. Cardinality(S) : SetToSeq(S)[i] = x
  <2> DEFINE f == SetToSeq(S)
  <2> HIDE DEF f
  <2>1. f \in Seq(S) /\ Len(f) = Cardinality(S) /\ \A x \in S : \E i \in 1 .. Cardinality(S) : f[i] = x
    BY <1>2, <1>3, InjectiveSeq DEF f
  <2> QED BY <2>1 DEF f
<1> QED BY <1>3, <1>4

LEMMA SetToSeqsAreAll ==
    ASSUME NEW S, IsFiniteSet(S), NEW f \in SetToSeqs(S)
    PROVE  /\ f \in Seq(S)
           /\ \A i, j \in 1 .. Len(f) : f[i] = f[j] => i = j
           /\ S = {f[i] : i \in 1 .. Len(f)}
<1>1. f \in [1 .. Cardinality(S) -> S] /\ \A i, j \in 1 .. Cardinality(S) : f[i] = f[j] => i = j
  BY DEF SetToSeqs
<1>2. f \in Seq(S) /\ Len(f) = Cardinality(S) /\ \A x \in S : \E i \in 1 .. Cardinality(S) : f[i] = x
  BY <1>1, InjectiveSeq
<1> QED BY <1>1, <1>2

-----------------------------------------------------------------------------
(* The loops of _validate_specs and transition_task (SpecValidation).      *)

\* What is in the queue, and what has left it.
Queued == {queue[i] : i \in 1 .. Len(queue)}
Done == {k \in known : indegree[k] = 0} \ Queued

\* Only the checks before the queue reject a plan that names others' tasks.
PlanOK ==
    /\ known \in (SUBSET Keys) \ {{}} /\ edges \in [known -> SUBSET Keys]
    /\ verdict \in {"checking", "accepted", "rejected"}
    /\ verdict # "rejected" => \A k \in known : edges[k] \subseteq known \ {k}

\* A key is in the queue once, when nothing it depends on has still to be visited.
QueueOK ==
    /\ queue \in Seq(known)
    /\ \A i, j \in 1 .. Len(queue) : queue[i] = queue[j] => i = j
    /\ \A k \in Queued : indegree[k] = 0

\* The counts are of what has still to be visited, and nothing was visited that the
\* rounds of Visited do not visit.
CountsOK ==
    /\ indegree \in [known -> Nat]
    /\ \A k \in known : indegree[k] = Cardinality(edges[k] \ Done)
    /\ visited = Cardinality(Done)
    /\ Done \subseteq Visited(known, edges)

\* Only what waits for the failed task is blocked, and a scan that has added nothing has
\* read no row that would add a task.
ScanOK ==
    /\ rest \subseteq Rows /\ changed \in BOOLEAN /\ blocked \subseteq known
    /\ blocked = {} => rest = {} /\ ~changed
    /\ blocked # {} => verdict = "accepted" /\ \E t \in blocked : blocked \subseteq WaitFor(t) \cup {t}
    /\ ~changed => \A row \in Rows \ rest : ~Reached(row)

LoopsInv ==
    /\ PlanOK
    /\ verdict = "checking" => QueueOK /\ CountsOK
    /\ AcceptsExactlyAcyclic
    /\ ScanOK

LEMMA PlanIsFinite ==
    ASSUME PlanOK
    PROVE  /\ IsFiniteSet(known)
           /\ \A X \in SUBSET known : IsFiniteSet(X) /\ Cardinality(X) \in Nat
<1>1. IsFiniteSet(known)
  BY KeysAssumption, FS_Subset DEF PlanOK
<1> QED BY <1>1, FS_Subset, FS_CardinalityType

\* For a plan whose tasks depend on others of their own, the rounds of Visited reach all
\* of them when no task waits for itself.
LEMMA AcyclicIsVisited ==
    ASSUME PlanOK, verdict # "rejected"
    PROVE  /\ Acyclic <=> Visited(known, edges) = known
           /\ ValidSpecs(known, edges) <=> Visited(known, edges) = known
<1>1. IsFiniteSet(known) /\ known # {} /\ \A k \in known : edges[k] \subseteq known \ {k}
  <2>1. IsFiniteSet(known)
    BY PlanIsFinite
  <2> QED BY <2>1 DEF PlanOK
<1>2. Visited(known, edges) = known <=> \A C \in SUBSET known : ~Knot(C, edges)
  BY <1>1, VisitedUnlessKnot
<1>3. (\E k \in known : k \in Leads(k, Cardinality(known), known, edges))
          <=> \E C \in SUBSET known : Knot(C, edges)
  BY <1>1, LoopIsKnot
<1>4. Acyclic <=> Visited(known, edges) = known
  BY <1>1, <1>2, <1>3 DEF Acyclic, WaitFor
<1>5. ValidSpecs(known, edges) <=> Visited(known, edges) = known
  BY <1>1 DEF ValidSpecs
<1> QED BY <1>4, <1>5

\* A plan that is rejected before the queue is no plan without a loop.
LEMMA RejectedAtOnce ==
    ASSUME PlanOK, ~ \A k \in known : edges[k] \subseteq known \ {k}
    PROVE  ~Acyclic /\ ~ValidSpecs(known, edges)
<1>1. ~ValidSpecs(known, edges)
  BY DEF ValidSpecs
<1>2. PICK k \in known : ~ (edges[k] \subseteq known \ {k})
  OBVIOUS
<1>3. CASE edges[k] \subseteq known
  <2>1. k \in edges[k]
    BY <1>2, <1>3
  <2>2. k \in Leads(k, Cardinality(known), known, edges)
    BY <2>1, PlanIsFinite, LeadsSettle
  <2> QED BY <1>1, <2>2 DEF Acyclic, WaitFor
<1>4. CASE ~ (edges[k] \subseteq known)
  BY <1>1, <1>4 DEF Acyclic
<1> QED BY <1>3, <1>4

\* When the queue is empty, what has left it is what the rounds of Visited reach.
LEMMA QueueEmpty ==
    ASSUME PlanOK, QueueOK, CountsOK, verdict = "checking", queue = <<>>
    PROVE  visited = Cardinality(known) <=> Visited(known, edges) = known
<1>1. IsFiniteSet(known) /\ Done \in SUBSET known /\ \A k \in known : edges[k] \in SUBSET known
  BY PlanIsFinite DEF Done, PlanOK
<1>2. Queued = {}
  BY DEF Queued
<1>3. ASSUME NEW k \in known, edges[k] \subseteq Done PROVE k \in Done
  <2>1. edges[k] \ Done = {}
    BY <1>3
  <2>2. indegree[k] = 0
    BY <2>1, FS_EmptySet DEF CountsOK
  <2> QED BY <1>2, <2>2 DEF Done
<1>4. Visited(known, edges) = Done
  BY <1>1, <1>3, VisitedIsLeast DEF CountsOK
<1>5. Cardinality(Done) = Cardinality(known) <=> Done = known
  BY <1>1, FS_Subset
<1> QED BY <1>4, <1>5 DEF CountsOK

\* A visit: the head of the queue is visited, and what waited for it alone is queued.
LEMMA VisitedHead ==
    ASSUME PlanOK, QueueOK, CountsOK, Visit
    PROVE  /\ Head(queue) \in known \ Done /\ edges[Head(queue)] \subseteq Done
           /\ QueueOK' /\ Done' = Done \cup {Head(queue)}
           /\ indegree' \in [known -> Nat]
<1> DEFINE key == Head(queue)
           children == {c \in known : key \in edges[c]}
           freed == Freed(children)
<1>1. /\ IsFiniteSet(known) /\ \A k \in known : edges[k] \subseteq known \ {k}
      /\ \A X \in SUBSET known : IsFiniteSet(X) /\ Cardinality(X) \in Nat
  BY PlanIsFinite DEF PlanOK, Visit
<1>2. queue \in Seq(known) /\ queue # <<>> /\ Len(queue) \in Nat \ {0} /\ key = queue[1]
  BY DEF QueueOK, Visit
<1>3. key \in Queued /\ key \in known /\ indegree[key] = 0 /\ key \notin Done
  BY <1>2 DEF QueueOK, Queued, Done
<1>4. edges[key] \subseteq Done
  <2>1. edges[key] \ Done \in SUBSET known /\ Cardinality(edges[key] \ Done) = 0
    BY <1>1, <1>3 DEF CountsOK
  <2> QED BY <1>1, <2>1, FS_EmptySet
<1>5. PICK order \in SetToSeqs(freed) : queue' = Tail(queue) \o order
  BY DEF Visit
<1>6. freed \in SUBSET known /\ IsFiniteSet(freed)
  BY <1>1 DEF Freed
<1>7. /\ order \in Seq(freed)
      /\ \A i, j \in 1 .. Len(order) : order[i] = order[j] => i = j
      /\ \A x \in freed : \E i \in 1 .. Len(order) : order[i] = x
  <2> HIDE DEF freed
  <2> QED BY <1>5, <1>6, SetToSeqsAreAll
<1>8. indegree' = [c \in known |-> IF c \in children THEN indegree[c] - 1 ELSE indegree[c]]
  BY DEF Visit
<1>9. ASSUME NEW c \in children PROVE indegree[c] # 0
  <2>1. key \in edges[c] \ Done /\ edges[c] \ Done \in SUBSET known
    BY <1>1, <1>3
  <2>2. Cardinality(edges[c] \ Done) # 0
    BY <1>1, <2>1, FS_EmptySet
  <2> QED BY <2>2 DEF CountsOK
<1>10. indegree' \in [known -> Nat]
  BY <1>8, <1>9 DEF CountsOK
<1>11. \A c \in known : indegree'[c] = 0 <=> indegree[c] = 0 \/ c \in freed
  BY <1>8, <1>9 DEF Freed, CountsOK
<1>12. ASSUME NEW c \in freed PROVE c \in known /\ indegree[c] = 1 /\ c \notin Queued /\ c \notin Done
  BY DEF Freed, QueueOK, Done
<1> HIDE DEF freed, key, children
<1>13. queue' \in Seq(known)
  BY <1>2, <1>5, <1>6, <1>7
<1>14. /\ Len(queue') = Len(queue) - 1 + Len(order)
       /\ \A i \in 1 .. Len(queue) - 1 : queue'[i] = queue[i + 1]
       /\ \A i \in 1 .. Len(order) : queue'[Len(queue) - 1 + i] = order[i]
  <2>1. /\ Tail(queue) \in Seq(known) /\ Len(Tail(queue)) = Len(queue) - 1
        /\ \A i \in 1 .. Len(queue) - 1 : Tail(queue)[i] = queue[i + 1]
    BY <1>2
  <2>2. order \in Seq(known)
    BY <1>6, <1>7
  <2> DEFINE tail == Tail(queue)
  <2> HIDE DEF tail
  <2>3. /\ Len(tail \o order) = Len(tail) + Len(order)
        /\ \A i \in 1 .. Len(tail) : (tail \o order)[i] = tail[i]
        /\ \A i \in 1 .. Len(order) : (tail \o order)[Len(tail) + i] = order[i]
    BY <2>1, <2>2 DEF tail
  <2> QED BY <1>2, <1>5, <2>1, <2>3 DEF tail
<1>15. ASSUME NEW x PROVE x \in Queued' <=> x \in Queued \ {key} \/ x \in freed
  <2>1. ASSUME NEW i \in 1 .. Len(queue') PROVE queue'[i] \in (Queued \ {key}) \cup freed
    <3>1. CASE i <= Len(queue) - 1
      <4>1. i + 1 \in 1 .. Len(queue) /\ 1 \in 1 .. Len(queue) /\ i + 1 # 1 /\ i \in 1 .. Len(queue) - 1
        BY <1>2, <3>1
      <4>2. queue[i + 1] # key
        BY <1>2, <4>1 DEF QueueOK
      <4> QED BY <1>14, <4>1, <4>2 DEF Queued
    <3>2. CASE i > Len(queue) - 1
      <4>1. i - (Len(queue) - 1) \in 1 .. Len(order) /\ (Len(queue) - 1) + (i - (Len(queue) - 1)) = i
        BY <1>2, <1>7, <1>14, <3>2
      <4>2. queue'[i] = order[i - (Len(queue) - 1)]
        BY <1>14, <4>1
      <4> QED BY <1>7, <4>1, <4>2
    <3> QED BY <1>2, <3>1, <3>2
  <2>2. ASSUME NEW i \in 1 .. Len(queue), queue[i] # key PROVE queue[i] \in Queued'
    <3>1. i - 1 \in 1 .. Len(queue) - 1 /\ (i - 1) + 1 = i
      BY <1>2, <2>2
    <3>2. queue'[i - 1] = queue[i] /\ i - 1 \in 1 .. Len(queue')
      BY <1>2, <1>7, <1>14, <3>1
    <3> QED BY <3>2 DEF Queued
  <2>3. ASSUME NEW i \in 1 .. Len(order) PROVE order[i] \in Queued'
    <3>1. Len(queue) - 1 + i \in 1 .. Len(queue')
      BY <1>2, <1>7, <1>14
    <3> QED BY <1>14, <3>1 DEF Queued
  <2>4. x \in Queued' => x \in (Queued \ {key}) \cup freed
    BY <2>1 DEF Queued
  <2>5. x \in Queued \ {key} => x \in Queued'
    BY <2>2 DEF Queued
  <2>6. x \in freed => x \in Queued'
    BY <1>7, <2>3
  <2> QED BY <2>4, <2>5, <2>6
<1>16. ASSUME NEW i \in 1 .. Len(queue'), NEW j \in 1 .. Len(queue'), queue'[i] = queue'[j], i < j
       PROVE  FALSE
  <2> DEFINE m == Len(queue) - 1
  <2>1. m \in Nat /\ Len(order) \in Nat
    BY <1>2, <1>7
  <2>2. CASE j <= m
    <3>1. /\ i \in 1 .. m /\ j \in 1 .. m /\ i + 1 \in 1 .. Len(queue) /\ j + 1 \in 1 .. Len(queue)
          /\ i + 1 # j + 1
      BY <1>16, <2>1, <2>2
    <3>2. queue[i + 1] = queue[j + 1]
      BY <1>14, <1>16, <3>1
    <3> QED BY <3>1, <3>2 DEF QueueOK
  <2>3. CASE i > m
    <3>1. i - m \in 1 .. Len(order) /\ j - m \in 1 .. Len(order) /\ i - m # j - m
      BY <1>14, <1>16, <2>1, <2>3
    <3>2. queue'[m + (i - m)] = order[i - m] /\ queue'[m + (j - m)] = order[j - m]
      BY <1>14, <3>1
    <3>3. m + (i - m) = i /\ m + (j - m) = j
      BY <2>1
    <3>4. order[i - m] = order[j - m]
      BY <1>16, <3>2, <3>3
    <3> QED BY <1>7, <3>1, <3>4
  <2>4. CASE i <= m /\ j > m
    <3>1. i \in 1 .. m /\ i + 1 \in 1 .. Len(queue) /\ j - m \in 1 .. Len(order) /\ m + (j - m) = j
      BY <1>14, <1>16, <2>1, <2>4
    <3>2. queue'[i] = queue[i + 1] /\ queue'[j] = order[j - m]
      BY <1>14, <3>1
    <3>3. queue[i + 1] \in Queued
      BY <3>1 DEF Queued
    <3>4. order[j - m] \in freed
      BY <1>7, <3>1
    <3> QED BY <1>12, <1>16, <3>2, <3>3, <3>4
  <2> QED BY <2>1, <2>2, <2>3, <2>4
<1>17. ASSUME NEW x \in Queued' PROVE x \in known /\ indegree'[x] = 0
  <2>1. x \in Queued \/ x \in freed
    BY <1>15
  <2>2. x \in Queued => x \in known /\ indegree[x] = 0
    BY <1>2 DEF Queued, QueueOK
  <2> QED BY <1>11, <1>12, <2>1, <2>2
<1>18. QueueOK'
  <2>1. \A i, j \in 1 .. Len(queue') : queue'[i] = queue'[j] => i = j
    BY <1>16, <1>13
  <2>2. known' = known
    BY DEF Visit, graph
  <2> QED BY <1>13, <1>17, <2>1, <2>2 DEF QueueOK
<1>19. Done' = Done \cup {key}
  <2>1. known' = known
    BY DEF Visit, graph
  <2>2. ASSUME NEW x \in known PROVE x \in Done' <=> x \in Done \/ x = key
    BY <1>3, <1>11, <1>12, <1>15, <2>1 DEF Done
  <2> QED BY <1>3, <2>1, <2>2 DEF Done
<1> QED BY <1>3, <1>4, <1>10, <1>18, <1>19 DEF key

LEMMA VisitKeepsCounts ==
    ASSUME PlanOK, QueueOK, CountsOK, Visit
    PROVE  CountsOK'
<1> DEFINE key == Head(queue)
<1>1. /\ key \in known \ Done /\ edges[key] \subseteq Done
      /\ Done' = Done \cup {key} /\ indegree' \in [known -> Nat]
  BY VisitedHead
<1>2. /\ IsFiniteSet(known) /\ \A k \in known : edges[k] \subseteq known \ {k}
      /\ \A X \in SUBSET known : IsFiniteSet(X) /\ Cardinality(X) \in Nat
  BY PlanIsFinite DEF PlanOK, Visit
<1>3. /\ known' = known /\ edges' = edges /\ visited' = visited + 1
      /\ indegree' = [c \in known |-> IF key \in edges[c] THEN indegree[c] - 1 ELSE indegree[c]]
  BY DEF Visit, graph
<1>4. Done \in SUBSET known
  BY DEF Done
<1> HIDE DEF key
<1>5. ASSUME NEW c \in known PROVE indegree'[c] = Cardinality(edges[c] \ (Done \cup {key}))
  <2>1. edges[c] \ Done \in SUBSET known /\ IsFiniteSet(edges[c] \ Done)
    BY <1>2
  <2>2. (edges[c] \ Done) \ {key} = edges[c] \ (Done \cup {key})
    OBVIOUS
  <2>3. Cardinality((edges[c] \ Done) \ {key})
            = IF key \in edges[c] \ Done THEN Cardinality(edges[c] \ Done) - 1
                                         ELSE Cardinality(edges[c] \ Done)
    BY <2>1, FS_RemoveElement
  <2> QED BY <1>1, <1>3, <2>2, <2>3 DEF CountsOK
<1>6. visited' = Cardinality(Done \cup {key})
  <2>1. Cardinality(Done \cup {key}) = Cardinality(Done) + 1
    BY <1>1, <1>2, <1>4, FS_AddElement
  <2> QED BY <1>3, <2>1 DEF CountsOK
<1>7. Done \cup {key} \subseteq Visited(known, edges)
  BY <1>1, <1>2, VisitedIsLeast DEF CountsOK
<1> QED BY <1>1, <1>3, <1>5, <1>6, <1>7 DEF CountsOK

\* Rows that add no task leave nothing below a blocked task unblocked.
LEMMA ScansReachAll ==
    ASSUME PlanOK, AcceptsExactlyAcyclic, ScanOK
    PROVE  CascadeReachesAllBelow
<1> SUFFICES ASSUME blocked # {}, rest = {}, ~changed
             PROVE  \E t \in blocked : /\ blocked \ {t} = WaitFor(t)
                                       /\ blocked \ {t} = Below(t, known, edges)
  BY DEF CascadeReachesAllBelow
<1>1. PICK t \in blocked : blocked \subseteq WaitFor(t) \cup {t}
  BY DEF ScanOK
<1>2. t \in known /\ IsFiniteSet(known) /\ blocked \in SUBSET known /\ t \notin WaitFor(t)
  BY PlanIsFinite DEF ScanOK, AcceptsExactlyAcyclic, Acyclic
<1>3. /\ WaitFor(t) \in SUBSET known
      /\ \A X \in SUBSET known : t \in X /\ Downward(X, known, edges) => WaitFor(t) \subseteq X
  BY <1>2, LeadsIsLeast DEF WaitFor
<1>4. Downward(blocked, known, edges)
  <2>1. ASSUME NEW c \in known, NEW p \in edges[c] \cap blocked PROVE c \in blocked
    <3> DEFINE row == <<c, p>>
    <3>1. row \in known \X known /\ row[1] = c /\ row[2] = p
      BY <1>2
    <3>2. row \in Rows \ rest
      BY <3>1 DEF Rows
    <3>3. ~Reached(row)
      BY <3>2 DEF ScanOK
    <3> HIDE DEF row
    <3> QED BY <3>1, <3>3 DEF Reached
  <2> QED BY <2>1 DEF Downward
<1>5. blocked \ {t} = WaitFor(t)
  BY <1>1, <1>2, <1>3, <1>4
<1>6. Below(t, known, edges) = WaitFor(t)
  BY <1>2, BelowIsLeads DEF WaitFor
<1> QED BY <1>5, <1>6

LEMMA LoopsInitially == LoopsInit => LoopsInv
<1> SUFFICES ASSUME LoopsInit PROVE LoopsInv
  OBVIOUS
<1>1. PlanOK
  BY DEF LoopsInit, PlanOK
<1>2. IsFiniteSet(known) /\ \A X \in SUBSET known : IsFiniteSet(X) /\ Cardinality(X) \in Nat
  BY <1>1, PlanIsFinite
<1>3. ASSUME verdict = "checking" PROVE QueueOK /\ CountsOK
  <2> DEFINE free == {k \in known : edges[k] = {}}
  <2>1. \A k \in known : edges[k] \in SUBSET known
    BY <1>1, <1>3 DEF PlanOK
  <2>2. indegree = [k \in known |-> Cardinality(edges[k])] /\ queue = SetToSeq(free) /\ visited = 0
    BY DEF LoopsInit
  <2>3. free \in SUBSET known /\ IsFiniteSet(free)
    BY <1>2
  <2>4. \A k \in known : indegree[k] = 0 <=> k \in free
    BY <1>2, <2>1, <2>2, FS_EmptySet
  <2> HIDE DEF free
  <2>5. /\ queue \in Seq(free)
        /\ \A i, j \in 1 .. Len(queue) : queue[i] = queue[j] => i = j
        /\ \A x \in free : \E i \in 1 .. Len(queue) : queue[i] = x
    BY <2>2, <2>3, SetToSeqIsAll
  <2>6. Queued = free
    BY <2>5 DEF Queued
  <2>7. Done = {}
    BY <2>4, <2>6 DEF Done
  <2>8. QueueOK
    <3>1. queue \in Seq(known)
      BY <2>3, <2>5
    <3>2. \A k \in Queued : indegree[k] = 0
      BY <2>3, <2>4, <2>6
    <3> QED BY <2>5, <3>1, <3>2 DEF QueueOK
  <2>9. CountsOK
    <3>1. \A k \in known : edges[k] \ Done = edges[k]
      BY <2>7
    <3>2. indegree \in [known -> Nat]
      BY <1>2, <2>1, <2>2
    <3> QED BY <2>2, <2>7, <3>1, <3>2, FS_EmptySet DEF CountsOK
  <2> QED BY <2>8, <2>9
<1>4. AcceptsExactlyAcyclic
  <2>1. verdict \in {"checking", "rejected"}
    BY DEF LoopsInit
  <2>2. verdict = "rejected" => ~ \A k \in known : edges[k] \subseteq known \ {k}
    BY DEF LoopsInit
  <2> QED BY <1>1, <2>1, <2>2, RejectedAtOnce DEF AcceptsExactlyAcyclic
<1>5. ScanOK
  BY DEF LoopsInit, ScanOK, Reached
<1> QED BY <1>1, <1>3, <1>4, <1>5 DEF LoopsInv

\* What the properties of the plan itself rest on does not change.
LEMMA PlanIsKept ==
    ASSUME known' = known, edges' = edges
    PROVE  /\ (Acyclic <=> Acyclic') /\ ValidSpecs(known, edges)' = ValidSpecs(known, edges)
           /\ Rows' = Rows /\ \A t : WaitFor(t)' = WaitFor(t)
BY DEF Acyclic, Rows, WaitFor

LEMMA LoopsPreserve == LoopsInv /\ [LoopsNext]_loopsVars => LoopsInv'
<1> SUFFICES ASSUME LoopsInv, [LoopsNext]_loopsVars PROVE LoopsInv'
  OBVIOUS
<1> USE DEF LoopsInv
<1>1. CASE Visit
  <2>1. /\ known' = known /\ edges' = edges /\ verdict' = verdict /\ verdict = "checking"
        /\ blocked' = blocked /\ rest' = rest /\ changed' = changed
    BY <1>1 DEF Visit, graph
  <2>2. PlanOK'
    BY <2>1 DEF PlanOK
  <2>3. QueueOK' /\ CountsOK'
    BY <1>1, <2>1, VisitedHead, VisitKeepsCounts
  <2>4. AcceptsExactlyAcyclic'
    BY <2>1 DEF AcceptsExactlyAcyclic
  <2>5. ScanOK'
    BY <2>1, PlanIsKept DEF ScanOK, Reached
  <2> QED BY <2>2, <2>3, <2>4, <2>5
<1>2. CASE Decide
  <2>1. /\ known' = known /\ edges' = edges /\ verdict = "checking" /\ queue = <<>>
        /\ verdict' = IF visited = Cardinality(known) THEN "accepted" ELSE "rejected"
        /\ blocked' = blocked /\ rest' = rest /\ changed' = changed
    BY <1>2 DEF Decide, graph
  <2>2. PlanOK'
    BY <2>1 DEF PlanOK
  <2>3. visited = Cardinality(known) <=> Visited(known, edges) = known
    BY <2>1, QueueEmpty
  <2>4. AcceptsExactlyAcyclic'
    BY <2>1, <2>3, AcyclicIsVisited, PlanIsKept DEF AcceptsExactlyAcyclic
  <2>5. blocked = {}
    BY <2>1 DEF ScanOK
  <2>6. ScanOK'
    BY <2>1, <2>5, PlanIsKept DEF ScanOK, Reached
  <2> QED BY <2>1, <2>2, <2>4, <2>6
<1>3. ASSUME NEW t \in known, Fail(t) PROVE LoopsInv'
  <2>1. /\ known' = known /\ edges' = edges /\ verdict' = verdict /\ verdict = "accepted"
        /\ blocked = {} /\ blocked' = {t} /\ rest' = Rows /\ changed' = changed
    BY <1>3 DEF Fail, graph, kahn
  <2>2. PlanOK'
    BY <2>1 DEF PlanOK
  <2>3. AcceptsExactlyAcyclic'
    BY <2>1, PlanIsKept DEF AcceptsExactlyAcyclic
  <2>4. ScanOK'
    BY <2>1, PlanIsKept DEF ScanOK
  <2> QED BY <2>1, <2>2, <2>3, <2>4
<1>4. ASSUME NEW row \in rest, Scan(row) PROVE LoopsInv'
  <2>1. /\ known' = known /\ edges' = edges /\ verdict' = verdict
        /\ blocked' = (IF Reached(row) THEN blocked \cup {row[1]} ELSE blocked)
        /\ changed' = (changed \/ Reached(row)) /\ rest' = rest \ {row}
        /\ indegree' = indegree /\ queue' = queue /\ visited' = visited
    BY <1>4 DEF Scan, graph, kahn
  <2>2. PlanOK'
    BY <2>1 DEF PlanOK
  <2>3. AcceptsExactlyAcyclic'
    BY <2>1, PlanIsKept DEF AcceptsExactlyAcyclic
  <2>4. /\ row \in Rows /\ row[1] \in known /\ row[2] \in known /\ row[2] \in edges[row[1]]
        /\ blocked # {} /\ verdict = "accepted"
    BY <1>4 DEF ScanOK, Rows
  <2>5. PICK t \in blocked : blocked \subseteq WaitFor(t) \cup {t}
    BY <2>4 DEF ScanOK
  <2>6. t \in known
    BY DEF ScanOK
  <2>7. Downward(WaitFor(t) \cup {t}, known, edges)
    BY <2>6, PlanIsFinite, LeadsIsLeast DEF WaitFor
  <2>8. Reached(row) => row[1] \in WaitFor(t) \cup {t}
    BY <2>4, <2>5, <2>7 DEF Downward, Reached
  <2>9. blocked' \subseteq WaitFor(t) \cup {t} /\ t \in blocked' /\ blocked' \subseteq known
    BY <2>1, <2>4, <2>5, <2>8 DEF ScanOK
  <2>10. ASSUME ~changed', NEW r \in Rows \ rest' PROVE ~Reached(r)'
    <3>1. ~changed /\ ~Reached(row) /\ blocked' = blocked
      BY <2>1, <2>10
    <3>2. r = row \/ r \in Rows \ rest
      BY <2>1
    <3> QED BY <3>1, <3>2 DEF ScanOK, Reached
  <2>11. ScanOK'
    <3>1. rest' \subseteq Rows /\ changed' \in BOOLEAN
      BY <2>1 DEF ScanOK
    <3>2. Rows' = Rows /\ WaitFor(t)' = WaitFor(t) /\ verdict' = "accepted"
      BY <2>1, <2>4, PlanIsKept
    <3> QED BY <2>1, <2>9, <2>10, <3>1, <3>2 DEF ScanOK
  <2> QED BY <2>1, <2>2, <2>3, <2>4, <2>11
<1>5. CASE Rescan
  <2>1. /\ known' = known /\ edges' = edges /\ verdict' = verdict
        /\ blocked # {} /\ blocked' = blocked /\ rest' = Rows /\ ~changed'
    BY <1>5 DEF Rescan, graph, kahn
  <2>2. PlanOK'
    BY <2>1 DEF PlanOK
  <2>3. AcceptsExactlyAcyclic'
    BY <2>1, PlanIsKept DEF AcceptsExactlyAcyclic
  <2>4. ScanOK' /\ verdict = "accepted"
    BY <1>5, <2>1, PlanIsKept DEF ScanOK, Rescan
  <2> QED BY <2>1, <2>2, <2>3, <2>4
<1>6. CASE UNCHANGED loopsVars
  <2>1. /\ known' = known /\ edges' = edges /\ verdict' = verdict /\ indegree' = indegree
        /\ queue' = queue /\ visited' = visited
        /\ blocked' = blocked /\ rest' = rest /\ changed' = changed
    BY <1>6 DEF loopsVars, graph, kahn
  <2>2. PlanOK' /\ (QueueOK => QueueOK') /\ (CountsOK => CountsOK')
    BY <2>1 DEF PlanOK, QueueOK, CountsOK, Queued, Done
  <2>3. AcceptsExactlyAcyclic'
    BY <2>1, PlanIsKept DEF AcceptsExactlyAcyclic
  <2>4. ScanOK'
    BY <2>1, PlanIsKept DEF ScanOK, Reached
  <2> QED BY <2>1, <2>2, <2>3, <2>4
<1> QED BY <1>1, <1>2, <1>3, <1>4, <1>5, <1>6 DEF LoopsNext

\* _validate_specs accepts a plan exactly when no task waits for itself through its
\* dependencies, in whatever order its queue takes the tasks, and that is when ValidSpecs
\* holds: the definition by which TaskRuntime accepts plans.
THEOREM PlansAreAcyclic == LoopsSpec => []AcceptsExactlyAcyclic
<1>1. LoopsInv => AcceptsExactlyAcyclic
  BY DEF LoopsInv
<1> QED BY <1>1, LoopsInitially, LoopsPreserve, PTL DEF LoopsSpec

\* The scans of transition_task stop when every task that waits for the failed one is
\* blocked, no other, in whatever order the rows are read; and these are the tasks that
\* TaskRuntime blocks in one step.
THEOREM CascadesAreWhole == LoopsSpec => []CascadeReachesAllBelow
<1>1. LoopsInv => CascadeReachesAllBelow
  BY ScansReachAll DEF LoopsInv
<1> QED BY <1>1, LoopsInitially, LoopsPreserve, PTL DEF LoopsSpec
=============================================================================
