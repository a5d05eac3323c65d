---------------------------- MODULE TaskRuntime ----------------------------
(***************************************************************************)
(* The durable Goal -> Plan -> Task runtime of                             *)
(* src/nexapilot/task_runtime/service.py, for one goal.  Goals share       *)
(* nothing, so one goal with its successive plans is the whole component.  *)
(*                                                                         *)
(* Every operation of the service is one BEGIN IMMEDIATE transaction that  *)
(* updates the snapshot rows and appends the audit events (and one outbox  *)
(* row for each of them), hence one action.  An operation whose checks     *)
(* raise rolls back: it is an action that is not enabled.                  *)
(*                                                                         *)
(* Every operation is called with the revision the row has now: a call with *)
(* another expected_revision raises, and so changes nothing.               *)
(***************************************************************************)
EXTENDS TaskGraph

CONSTANTS
    Tasks,          \* the task ids (uuid4) plans may be given
    MaxPlans,       \* bound: how many plans the goal may go through
    MaxAttempts,    \* bound: the largest max_attempts of a task (20 in the code)
    MaxRuns,        \* bound: how often one task may be started
    Actors,         \* who calls transition_task
    NULL

ASSUME TaskRuntimeAssumption ==
    /\ MaxPlans \in Nat \ {0}
    /\ MaxAttempts \in Nat \ {0}
    /\ MaxRuns \in Nat
    /\ NULL \notin Actors
    /\ Tasks \cap {"goal", "plan"} = {}      \* no task is mistaken for either row

Plans == 1 .. MaxPlans                    \* plans are named by their version

TaskStatus == {"pending", "ready", "running", "waiting_retry",
               "paused", "completed", "failed", "cancelled"}
Terminal   == {"completed", "failed", "cancelled"}

TaskTransitions ==
    [s \in TaskStatus |->
        CASE s = "pending"       -> {"ready", "paused", "cancelled"}
          [] s = "ready"         -> {"running", "completed", "paused", "cancelled"}
          [] s = "running"       -> {"completed", "waiting_retry", "failed",
                                     "paused", "cancelled"}
          [] s = "waiting_retry" -> {"ready", "paused", "failed", "cancelled"}
          [] s = "paused"        -> {"pending", "ready", "cancelled"}
          [] s = "failed"        -> {"ready", "cancelled"}
          [] OTHER               -> {}]

VARIABLES
    goal,    \* the row of goals: status, active_plan_id (0: none), revision
    plan,    \* the rows of task_plans: status, revision
    task,    \* the rows of plan_tasks
    deps,    \* plan_task_dependencies: the parents of each task
    events   \* the audit events the latest transaction appended

vars == <<goal, plan, task, deps, events>>

NewTask(p, status, max) ==
    [plan |-> p, status |-> status, mode |-> "agent", attempt |-> 0,
     max_attempts |-> max, owner |-> NULL, revision |-> 0]

GoalType == [status : {"none", "active", "paused", "completed", "failed"},
             plan : 0 .. MaxPlans, revision : Nat]
PlanType == [status : {"none", "active", "superseded", "completed", "failed"},
             revision : Nat]
TaskType == [plan : 0 .. MaxPlans, status : TaskStatus \cup {"none"},
             mode : {"agent", "human"}, attempt : Nat,
             max_attempts : 1 .. MaxAttempts,
             owner : Actors \cup {NULL}, revision : Nat]

Init ==
    /\ goal = [status |-> "none", plan |-> 0, revision |-> 0]
    /\ plan = [p \in Plans |-> [status |-> "none", revision |-> 0]]
    /\ task = [t \in Tasks |-> NewTask(0, "none", 1)]
    /\ deps = [t \in Tasks |-> {}]
    /\ events = {}

-----------------------------------------------------------------------------
(* What the operations read.                                               *)

TasksOf(p) == {t \in Tasks : task[t].plan = p}

DepsDone(t) == \A d \in deps[t] : task[d].status = "completed"

\* A mutant: the two statuses of an event are swapped.
SwappedEvent(entity, from, to) == [entity |-> entity, from |-> to, to |-> from]

\* _append_event: what it records of a status change ("none" for a null).
Event(entity, from, to) == [entity |-> entity, from |-> from, to |-> to]

(* What the UPDATE statements make of a row.                               *)

Bump(row) == [row EXCEPT !.revision = @ + 1]

Move(row, status) == Bump([row EXCEPT !.status = status])

\* A mutant: a start that forgets the revision.
StartUnrevised(row, actor) ==
    [row EXCEPT !.attempt = @ + 1, !.owner = actor, !.status = "running"]

Start(row, actor) == Move([[row EXCEPT !.attempt = @ + 1] EXCEPT !.owner = actor], "running")

Leave(row, status) == Move([row EXCEPT !.owner = NULL], status)

\* Mutants: a takeover that keeps the owner, or records the mode as the owner.
AssignKeepingOwner(row, mode) == Bump([row EXCEPT !.mode = mode])
AssignOwner(row, mode) == Bump([[row EXCEPT !.owner = mode] EXCEPT !.mode = mode])

Assign(row, mode) == Bump([[row EXCEPT !.owner = NULL] EXCEPT !.mode = mode])

-----------------------------------------------------------------------------
(* create_goal and create_plan.                                            *)

NextVersion(p) == \A q \in Plans : plan[q].status # "none" <=> q < p

Created(t) ==
    Event(t, "none", IF deps'[t] = {} THEN "ready" ELSE "pending")

InsertTasks(p, S, d, max) ==
    /\ ValidSpecs(S, d)
    /\ \A t \in S : task[t].plan = 0
    /\ deps' = [t \in Tasks |-> IF t \in S THEN d[t] ELSE deps[t]]
    /\ task' = [t \in Tasks |->
                  IF t \in S
                  THEN NewTask(p, IF d[t] = {} THEN "ready" ELSE "pending", max[t])
                  ELSE task[t]]

CreateGoal(S, d, max) ==
    /\ goal.status = "none"
    /\ InsertTasks(1, S, d, max)
    /\ plan' = [plan EXCEPT ![1].status = "active"]
    /\ goal' = [status |-> "active", plan |-> 1, revision |-> 0]
    /\ events' = {Event("goal", "none", "none")} \cup {Created(t) : t \in S}

\* A replan supersedes the active plan; it leaves that plan's tasks and the
\* goal's status as they are.
CreatePlan(p, S, d, max) ==
    /\ goal.status \in {"active", "paused", "failed"}
    /\ NextVersion(p)
    /\ InsertTasks(p, S, d, max)
    /\ plan' = [q \in Plans |->
                  IF q = p THEN [status |-> "active", revision |-> 0]
                  ELSE IF q = goal.plan
                       THEN Move(plan[q], "superseded")
                       ELSE plan[q]]
    /\ goal' = Bump([goal EXCEPT !.plan = p])
    /\ events' = {Event("plan", "none", "none")} \cup {Created(t) : t \in S}

-----------------------------------------------------------------------------
(* set_goal_paused, reorder_plan, ready_tasks, takeover_task.              *)

\* A mutant: the status of the goal is not checked.
SetAnyGoalPaused(paused) ==
    /\ goal.status # "none"
    /\ goal' = Move(goal, IF paused THEN "paused" ELSE "active")
    /\ events' = {Event("goal", goal.status, goal'.status)}
    /\ UNCHANGED <<plan, task, deps>>

SetGoalPaused(paused) ==
    /\ goal.status = IF paused THEN "active" ELSE "paused"
    /\ goal' = Move(goal, IF paused THEN "paused" ELSE "active")
    /\ events' = {Event("goal", goal.status, goal'.status)}
    /\ UNCHANGED <<plan, task, deps>>

\* The new positions only order what ready_tasks returns; they are left out.
ReorderPlan(p) ==
    /\ plan[p].status = "active"
    /\ plan' = [plan EXCEPT ![p] = Bump(@)]
    /\ task' = [t \in Tasks |-> IF task[t].plan = p THEN Bump(task[t]) ELSE task[t]]
    /\ events' = {Event("plan", "none", "none")}
    /\ UNCHANGED <<goal, deps>>

\* due: the waiting tasks whose next_attempt_at has passed.
ReadyTasks(p, due) ==
    LET Promoted == {t \in due : DepsDone(t)}
    IN  /\ goal.status = "active" /\ plan[p].status = "active"
        /\ \A t \in due : /\ task[t].plan = p
                          /\ task[t].status = "waiting_retry"
                          /\ task[t].mode = "agent"
        /\ task' = [t \in Tasks |->
                      IF t \in Promoted THEN Move(task[t], "ready") ELSE task[t]]
        /\ events' = {Event(t, "waiting_retry", "ready") : t \in Promoted}
        /\ UNCHANGED <<goal, plan, deps>>

TakeoverTask(t, human) ==
    /\ task[t].status \in TaskStatus \ {"completed", "cancelled"}
    /\ task[t].mode = IF human THEN "agent" ELSE "human"
    /\ task' = [task EXCEPT ![t] = Assign(@, IF human THEN "human" ELSE "agent")]
    /\ events' = {Event(t, "none", "none")}
    /\ UNCHANGED <<goal, plan, deps>>

-----------------------------------------------------------------------------
(* transition_task.                                                        *)

TransitionAllowed(t, target) ==
    /\ task[t].status \in TaskStatus
    /\ target \in TaskTransitions[task[t].status]
    /\ target = "running" => task[t].mode = "agent"
    /\ target = "completed" /\ task[t].status = "ready" => task[t].mode = "human"
    /\ target = "ready" => DepsDone(t)
    /\ target = "running" => task[t].attempt < MaxRuns

\* A retry that the budget does not allow becomes a failure.
Outcome(t, target) ==
    IF target = "waiting_retry" /\ task[t].attempt >= task[t].max_attempts
    THEN "failed" ELSE target

\* A mutant: every pending child, whatever its other parents are.
UnlockedByOne(t) == {c \in Tasks : t \in deps[c] /\ task[c].status = "pending"}

\* The pending children t was the last open parent of.
Unlocked(t) ==
    {c \in Tasks : /\ t \in deps[c]
                   /\ task[c].status = "pending"
                   /\ \A d \in deps[c] \ {t} : task[d].status = "completed"}

\* The open descendants in t's plan, which fail with it.
Doomed(t) ==
    {c \in Below(t, Tasks, deps) : /\ task[c].plan = task[t].plan
                            /\ task[c].status \in {"pending", "ready"}}

\* Mutants: the statuses as they were before, or without the paused tasks.
StatusesBefore(p) == {task[t].status : t \in TasksOf(p)}
StatusesUnpaused(p) == {task'[t].status : t \in TasksOf(p)} \ {"paused"}

\* The statuses of a plan's tasks as the transaction leaves them.
StatusesAfter(p) == {task'[t].status : t \in TasksOf(p)}

\* Close the plan and the goal once every task of the plan is terminal.
CloseIfTerminal(p) ==
    LET statuses == StatusesAfter(p)
        final    == IF "failed" \in statuses THEN "failed" ELSE "completed"
    IN  IF statuses \subseteq Terminal
        THEN /\ plan' = [plan EXCEPT ![p] = Move(@, final)]
             /\ goal' = Move(goal, final)
        ELSE UNCHANGED <<plan, goal>>

\* The code names "active" as the former status of both rows, whatever it was.
ClosingEvents ==
    IF plan' = plan THEN {}
    ELSE {Event("plan", "active", goal'.status),
          Event("goal", "active", goal'.status)}

TransitionTask(t, target, actor) ==
    LET result   == Outcome(t, target)
        unlocked == IF result = "completed" THEN Unlocked(t) ELSE {}
        doomed   == IF result \in {"failed", "cancelled"} THEN Doomed(t) ELSE {}
    IN  /\ TransitionAllowed(t, target)
        /\ task' = [c \in Tasks |->
              IF c = t
              THEN IF result = "running" THEN Start(task[t], actor)
                                         ELSE Leave(task[t], result)
              ELSE IF c \in unlocked THEN Move(task[c], "ready")
              ELSE IF c \in doomed THEN Move(task[c], "failed")
              ELSE task[c]]
        /\ IF result \in Terminal
           THEN CloseIfTerminal(task[t].plan)
           ELSE UNCHANGED <<plan, goal>>
        /\ events' = {Event(t, task[t].status, result)}
                        \cup {Event(c, "pending", "ready") : c \in unlocked}
                        \cup {Event(c, task[c].status, "failed") : c \in doomed}
                        \cup ClosingEvents
        /\ UNCHANGED deps

-----------------------------------------------------------------------------
Next ==
    \/ /\ goal.status = "none"
       /\ \E S \in SUBSET Tasks : \E d \in [S -> SUBSET S], max \in [S -> 1 .. MaxAttempts] :
              CreateGoal(S, d, max)
    \/ \E p \in Plans :
          /\ NextVersion(p)
          /\ \E S \in SUBSET TasksOf(0) :
                \E d \in [S -> SUBSET S], max \in [S -> 1 .. MaxAttempts] :
                    CreatePlan(p, S, d, max)
    \/ \E paused \in BOOLEAN : SetGoalPaused(paused)
    \/ \E p \in Plans : ReorderPlan(p)
    \/ \E p \in Plans : \E due \in SUBSET TasksOf(p) : ReadyTasks(p, due)
    \/ \E t \in Tasks, human \in BOOLEAN : TakeoverTask(t, human)
    \/ \E t \in Tasks, target \in TaskStatus, actor \in Actors :
           TransitionTask(t, target, actor)

Spec == Init /\ [][Next]_vars

-----------------------------------------------------------------------------
(* Properties.                                                             *)

TypeOK ==
    /\ goal \in GoalType
    /\ plan \in [Plans -> PlanType]
    /\ task \in [Tasks -> TaskType]
    /\ deps \in [Tasks -> SUBSET Tasks]

\* A task that may run, runs, waits for another attempt or is done has every
\* dependency completed: no sequence of pauses, takeovers, retries, cascades
\* and replans starts a task before its parents are done.
DepsComplete ==
    \A t \in Tasks :
        task[t].status \in {"ready", "running", "waiting_retry", "completed"} => DepsDone(t)

\* A goal that is open has an open task in its active plan: it is never left
\* active, or paused, with nothing that could still close it.
OpenGoalHasOpenTask ==
    goal.status \in {"active", "paused"} =>
        \E t \in TasksOf(goal.plan) : task[t].status \notin Terminal

\* At most the goal's active plan is "active", and it is while the goal is open.
OnePlanActive ==
    /\ \A p \in Plans : plan[p].status = "active" => p = goal.plan
    /\ goal.status \in {"active", "paused"} => plan[goal.plan].status = "active"

\* A plan recorded as completed stays truthful: none of its tasks is open or
\* failed, whatever is retried, cancelled or replanned afterwards.
CompletedPlanIsDone ==
    \A p \in Plans : plan[p].status = "completed" =>
        \A t \in TasksOf(p) : task[t].status \in {"completed", "cancelled"}

\* Only a task that an agent runs has an owner: a takeover, a pause or a
\* failure leaves none behind.
OwnerRuns ==
    \A t \in Tasks : task[t].owner # NULL =>
        task[t].status = "running" /\ task[t].mode = "agent"

\* A task waits for a retry only while it has attempts left.
RetryWithinBudget ==
    \A t \in Tasks : task[t].status = "waiting_retry" =>
        task[t].attempt < task[t].max_attempts

\* Every change of a task's status is in the audit trail with its true former
\* and new status, and the trail has no change that did not happen.
AuditStep ==
    /\ \A t \in Tasks : task'[t].status # task[t].status =>
           \E e \in events' : e.entity = t /\ e.from = task[t].status
                                           /\ e.to = task'[t].status
    /\ \A e \in events', t \in Tasks : e.entity = t /\ e.to # "none" =>
           e.from = task[t].status /\ e.to = task'[t].status
TaskAuditIsExact == [][AuditStep]_vars

\* A row that changes gets a new revision, so a caller that read it before
\* sees the conflict.
RevisionStep ==
    /\ \A t \in Tasks : task[t].plan # 0 /\ task'[t] # task[t] =>
           task'[t].revision = task[t].revision + 1
    /\ \A p \in Plans : plan[p].status # "none" /\ plan'[p] # plan[p] =>
           plan'[p].revision = plan[p].revision + 1
    /\ goal.status # "none" /\ goal' # goal => goal'.revision = goal.revision + 1
RevisionTellsChange == [][RevisionStep]_vars

-----------------------------------------------------------------------------
(* What comments and documents say and the code does not keep.             *)
=============================================================================
