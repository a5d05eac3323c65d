----------------------------- MODULE Delegation -----------------------------
(***************************************************************************)
(* The delegation of a plan task to a subagent: AgentService of            *)
(* agents/service.py, over the task runtime (TaskRuntime) and the isolated *)
(* workspaces (AgentWorkspaces), in one process that may stop and restart. *)
(*                                                                         *)
(* A delegation is one call of execute_task, or one item of a call of      *)
(* execute_task_batch, of a subagent type with the git_worktree policy.     *)
(* All of them name the same plan task; the semaphore that may bound how   *)
(* many go on at once is left out.  The child's run is seen from outside: it is busy, it   *)
(* edits its directory, and it ends with a finish reason; RunLifecycle     *)
(* models its inside.  A delegation is named like the child session it     *)
(* creates.                                                                *)
(***************************************************************************)
EXTENDS Naturals

CONSTANTS
    Delegations,
    Tasks, MaxPlans, MaxAttempts, MaxRuns, Actors, NULL,    \* see TaskRuntime
    PlanTask,      \* the task that is delegated
    MaxEvents      \* bound: what users, the API and crashes do, taken together

ASSUME DelegationAssumption ==
    /\ MaxPlans \in Nat \ {0} /\ MaxAttempts \in Nat \ {0} /\ MaxRuns \in Nat /\ MaxEvents \in Nat
    /\ PlanTask \in Tasks /\ {"agent", "user"} \subseteq Actors
    /\ NULL \notin Actors /\ NULL \notin Delegations

VARIABLES
    goal, plan, task, deps, events,              \* TaskRuntime
    row, disk, release, look, lock, lost,        \* AgentWorkspaces
    call,       \* each delegation
    sessions,   \* the child sessions that exist
    busy,       \* _active_runs, the child sessions with a run
    outside,    \* how much of that bound is used
    raced       \* history: children that a delegation was about to run when their
                \* release was asked for, or the other way round

T == INSTANCE TaskRuntime
W == INSTANCE AgentWorkspaces WITH Children <- Delegations

planVars  == <<goal, plan, task, deps>>
workVars  == <<row, disk, release, look, lock, lost>>
ownVars   == <<call, sessions, busy, raced>>
vars      == <<planVars, events, workVars, ownVars, outside>>

Idle == [pc |-> "idle", child |-> NULL, run |-> "none",
         seen |-> 0, attempt |-> 0, status |-> "none", sync |-> "none"]

Ended == {"done", "raised", "gone"}

\* The places of a call, but for those that hold a lock, a git command that
\* writes or a child's task: leaving them leaves everything as it is.
Cancellable == {"starting", "adding", "added", "creating", "checked", "inspected",
                "reading", "linking", "preparing", "recording", "retaining"}

\* A delegation whose child is chosen and not yet busy with its run.
Preparing(d) ==
    \/ call[d].pc \in {"adding", "added", "creating", "checked", "inspected",
                      "reading", "linking", "preparing"}
    \/ call[d].run = "spawned"

Init ==
    /\ T!Init
    /\ W!InitWorkspaces
    /\ call = [d \in Delegations |-> Idle]
    /\ sessions = {} /\ busy = {} /\ raced = {}
    /\ outside = 0

\* Steps that write no row of the plan.
NoPlanStep == events' = {} /\ UNCHANGED planVars

Goes(d, pc) == call' = [call EXCEPT ![d].pc = pc]

\* An ended call keeps only what it reports.
EndedCall(d, pc) ==
    [call[d] EXCEPT !.pc = pc, !.child = NULL, !.run = "none", !.seen = 0]

Ends(d, pc) == call' = [call EXCEPT ![d] = EndedCall(d, pc)]

Raises(d) == Ends(d, "raised")

Only(d) == UNCHANGED <<workVars, sessions, busy, raced, outside>> /\ NoPlanStep

PlanOnly == UNCHANGED <<workVars, sessions, busy, raced, outside>>

-----------------------------------------------------------------------------
(* Asking.                                                                 *)

Delegable == task[PlanTask].status = "ready" /\ task[PlanTask].mode = "agent"

\* execute_task: one delegation.
Request(d) ==
    /\ call[d].pc = "idle"
    /\ Delegable
    /\ Goes(d, "asking")
    /\ Only(d)

\* execute_task_batch: one question for all of them.
RequestBatch ==
    /\ \A d \in Delegations : call[d].pc = "idle"
    /\ Delegable
    /\ call' = [d \in Delegations |-> [Idle EXCEPT !.pc = "asking"]]
    /\ UNCHANGED <<workVars, sessions, busy, raced, outside>> /\ NoPlanStep

\* The answer to parent_ctx.ask; a rejection and a cancellation raise.
Answered(d, yes) ==
    /\ call[d].pc = "asking"
    /\ IF yes THEN Goes(d, "starting") ELSE Raises(d)
    /\ Only(d)

-----------------------------------------------------------------------------
(* create_child_session and resolve_child_session.                         *)

Provision(d) ==
    /\ call[d].pc = "starting"
    /\ W!ProvisionRow(d)
    /\ call' = [call EXCEPT ![d].pc = "adding", ![d].child = d]
    /\ UNCHANGED <<sessions, busy, raced, outside>> /\ NoPlanStep

GitAddsWorktree(d) ==
    /\ call[d].pc = "adding"
    /\ W!AddWorktree(d)
    /\ Goes(d, "added")
    /\ UNCHANGED <<sessions, busy, raced, outside>> /\ NoPlanStep

\* git fails, or times out after it has made the directory.
ProvisionFails(d) ==
    /\ call[d].pc \in {"adding", "added"}
    /\ W!ProvisionEnds(d, FALSE)
    /\ Raises(d)
    /\ UNCHANGED <<sessions, busy, raced, outside>> /\ NoPlanStep

Provisioned(d) ==
    /\ call[d].pc = "added"
    /\ W!ProvisionEnds(d, TRUE)
    /\ Goes(d, "creating")
    /\ UNCHANGED <<sessions, busy, raced, outside>> /\ NoPlanStep

CreateSession(d) ==
    /\ call[d].pc = "creating"
    /\ sessions' = sessions \cup {d}
    /\ Goes(d, "reading")
    /\ UNCHANGED <<workVars, busy, raced, outside>> /\ NoPlanStep

\* Without its session the workspace is released by force.
CreateSessionFails(d) ==
    /\ call[d].pc = "creating"
    /\ W!ReleaseAsked(d, TRUE)
    /\ Raises(d)
    /\ UNCHANGED <<sessions, busy, raced, outside>> /\ NoPlanStep

\* The child of an earlier delegation, idle and with a workspace to resume.
Resume(d, c) ==
    /\ call[d].pc = "starting"
    /\ c \in sessions \ busy
    /\ W!Resumable(c)
    /\ call' = [call EXCEPT ![d].pc = "checked", ![d].child = c]
    /\ raced' = IF W!ReleaseAt(c, "none") THEN raced ELSE raced \cup {c}
    /\ UNCHANGED <<workVars, sessions, busy, outside>> /\ NoPlanStep

ResumeInspects(d) ==
    /\ call[d].pc = "checked"
    /\ W!ResumeInspects(call[d].child)
    /\ IF row'[call[d].child].status = "missing" THEN Raises(d) ELSE Goes(d, "inspected")
    /\ UNCHANGED <<sessions, busy, raced, outside>> /\ NoPlanStep

\* git fails in the inspection: nothing is written.
ResumeFails(d) ==
    /\ call[d].pc = "checked"
    /\ W!InspectFails(call[d].child)
    /\ Raises(d)
    /\ UNCHANGED <<sessions, busy, raced, outside>> /\ NoPlanStep

ResumeEnds(d) ==
    /\ call[d].pc = "inspected"
    /\ W!ResumeEnds(call[d].child)
    /\ Goes(d, "reading")
    /\ UNCHANGED <<sessions, busy, raced, outside>> /\ NoPlanStep

-----------------------------------------------------------------------------
(* The task starts, and the child's run.                                   *)

Revision == task[PlanTask].revision

ReadTask(d) ==
    /\ call[d].pc = "reading"
    /\ call' = [call EXCEPT ![d].pc = "linking", ![d].seen = Revision]
    /\ Only(d)

\* transition_task with the revision that was read.
Transition(d, target) ==
    /\ call[d].seen = Revision
    /\ T!TransitionTask(PlanTask, target, "agent")

Link(d) ==
    /\ call[d].pc = "linking"
    /\ Transition(d, "running")
    /\ call' = [call EXCEPT ![d].pc = "preparing", ![d].seen = 0,
                            ![d].attempt = task'[PlanTask].attempt]
    /\ PlanOnly

LinkFails(d) ==
    /\ call[d].pc = "linking"
    /\ call[d].seen # Revision \/ ~T!TransitionAllowed(PlanTask, "running")
    /\ Raises(d)
    /\ Only(d)

\* add_user_message and the events; create_task leaves the run to be scheduled.
Prepare(d) ==
    /\ call[d].pc = "preparing"
    /\ call' = [call EXCEPT ![d].pc = "waiting", ![d].run = "spawned"]
    /\ Only(d)

\* Nothing catches a failing add_user_message: the task stays running.
PrepareFails(d) ==
    /\ call[d].pc = "preparing"
    /\ Raises(d)
    /\ Only(d)

RunEnds(d, finish) == call' = [call EXCEPT ![d].run = finish]

\* A mutant: the session is marked busy again.
ChildStartsAnyway(d) ==
    /\ call[d].run = "spawned"
    /\ RunEnds(d, "active") /\ busy' = busy \cup {call[d].child}
    /\ UNCHANGED <<workVars, sessions, raced, outside>> /\ NoPlanStep

\* run: the session is marked busy, or the run raises.
ChildStarts(d) ==
    /\ call[d].run = "spawned"
    /\ IF call[d].child \in busy
       THEN RunEnds(d, "raised") /\ UNCHANGED busy
       ELSE RunEnds(d, "active") /\ busy' = busy \cup {call[d].child}
    /\ UNCHANGED <<workVars, sessions, raced, outside>> /\ NoPlanStep

ChildEdits(d) ==
    /\ call[d].run = "active"
    /\ W!Edits(call[d].child)
    /\ UNCHANGED ownVars /\ UNCHANGED outside /\ NoPlanStep

\* The poll finds the parent interrupted, or the time of the child used up:
\* the child is signalled and cancelled.
Cancel(d) ==
    /\ call[d].pc = "waiting"
    /\ call[d].run \in {"spawned", "active"}
    /\ call' = [call EXCEPT ![d].pc = "stopping",
                            ![d].run = IF @ = "spawned" THEN "cancelled" ELSE @]
    /\ Only(d)

\* Why a run ends.  The loop turns a cancellation into a result whose finish is
\* the reason it was given (signalled), unless it strikes outside of its turns.
Finishes(d) ==
    {"stop", "error", "raised"}
        \cup IF call[d].pc = "stopping" THEN {"signalled", "cancelled"} ELSE {}

ChildEnds(d, finish) ==
    /\ call[d].run = "active"
    /\ finish \in Finishes(d)
    /\ RunEnds(d, finish)
    /\ busy' = busy \ {call[d].child}
    /\ UNCHANGED <<workVars, sessions, raced, outside>> /\ NoPlanStep

\* The parent's own task is cancelled at one of its awaits.  The child's run is
\* a task that goes on by itself (an orphan); a git command goes on in its
\* thread, and may make its worktree all the same; no row is put right.  In the
\* await of a child that was cancelled it is taken for the child's end: no step.
ParentCancelled(d) ==
    /\ \/ /\ call[d].pc = "waiting" /\ call[d].run \in {"spawned", "active"}
          /\ Goes(d, "orphan")
          /\ UNCHANGED workVars
       \/ /\ \/ call[d].pc \in Cancellable
             \/ call[d].pc = "waiting" /\ call[d].run \notin {"spawned", "active"}
          /\ Raises(d)
          /\ UNCHANGED workVars
       \/ call[d].pc = "adding" /\ Raises(d) /\ W!AddWorktree(d)
       \/ call[d].pc = "retained" /\ Raises(d) /\ W!RetainStops(call[d].child)
    /\ UNCHANGED <<sessions, busy, raced, outside>> /\ NoPlanStep

\* Nobody reads how an orphan ended.
OrphanEnds(d) ==
    /\ call[d].pc = "orphan"
    /\ call[d].run \notin {"spawned", "active"}
    /\ Raises(d)
    /\ Only(d)

-----------------------------------------------------------------------------
(* The result is recorded.                                                 *)

\* The status of a delegation.  A result is a completion unless its finish is a
\* failure or an interruption ("error" stands for both); "signalled" is neither.
\* Without a result it is timed_out, interrupted or error: all of them failed.
StatusOf(finish) == IF finish \in {"stop", "signalled"} THEN "completed" ELSE "failed"

\* The result is known, and the task is read again.
Collect(d) ==
    /\ call[d].pc \in {"waiting", "stopping"}
    /\ call[d].run \notin {"spawned", "active"}
    /\ call' = [call EXCEPT ![d].pc = "recording", ![d].seen = Revision,
                            ![d].status = StatusOf(call[d].run)]
    /\ Only(d)

Synced(d, sync) ==
    call' = [call EXCEPT ![d] = [@ EXCEPT !.pc = "retaining", !.run = "none", !.seen = 0, !.sync = sync]]

Record(d) ==
    /\ call[d].pc = "recording"
    /\ Transition(d, call[d].status)
    /\ Synced(d, "ok")
    /\ PlanOnly

\* A mutant: an error of the transition is forgotten.
RecordFailsSilently(d) ==
    /\ call[d].pc = "recording"
    /\ call[d].seen # Revision \/ ~T!TransitionAllowed(PlanTask, call[d].status)
    /\ Synced(d, "ok")
    /\ Only(d)

\* Any error of the transition is only reported, as plan_sync_error.
RecordFails(d) ==
    /\ call[d].pc = "recording"
    /\ call[d].seen # Revision \/ ~T!TransitionAllowed(PlanTask, call[d].status)
    /\ Synced(d, "error")
    /\ Only(d)

Retain(d) ==
    /\ call[d].pc = "retaining"
    /\ W!Retain(call[d].child)
    /\ IF lock'[call[d].child] = "retain" THEN Goes(d, "retained") ELSE Ends(d, "done")
    /\ UNCHANGED <<sessions, busy, raced, outside>> /\ NoPlanStep

RetainFails(d) ==
    /\ call[d].pc = "retaining"
    /\ W!RetainFails(call[d].child)
    /\ Raises(d)
    /\ UNCHANGED <<sessions, busy, raced, outside>> /\ NoPlanStep

RetainEnds(d) ==
    /\ call[d].pc = "retained"
    /\ W!RetainEnds(call[d].child)
    /\ Ends(d, "done")
    /\ UNCHANGED <<sessions, busy, raced, outside>> /\ NoPlanStep

-----------------------------------------------------------------------------
(* The user, the API and the process.                                      *)

\* An edit counts for one, everything else for two: the bound allows a pause and
\* what follows it, or one release, inspection or crash.
FromOutside(n) == outside + n <= MaxEvents /\ outside' = outside + n

CreatePlan ==
    /\ T!CreateGoal(Tasks, [t \in Tasks |-> {}], [t \in Tasks |-> 1])
    /\ UNCHANGED <<workVars, ownVars, outside>>

\* The API and the taskplan tool let their callers ask for any status.
UserEdits ==
    /\ FromOutside(1)
    /\ \/ \E target \in T!TaskStatus, actor \in Actors :
              T!TransitionTask(PlanTask, target, actor)
       \/ \E human \in BOOLEAN : T!TakeoverTask(PlanTask, human)
       \/ \E p \in T!Plans : T!ReorderPlan(p)
    /\ UNCHANGED <<workVars, ownVars>>

\* A mutant: the session is not asked whether it is busy.
AskReleaseOfBusy(c, force) ==
    /\ FromOutside(2)
    /\ W!ReleaseAsked(c, force)
    /\ raced' = raced \cup {e \in {c} : \E d \in Delegations : call[d].child = c /\ Preparing(d)}
    /\ UNCHANGED <<call, sessions, busy>> /\ NoPlanStep

\* release_workspace: only while no run of the child is under way.
AskRelease(c, force) ==
    /\ FromOutside(2)
    /\ c \notin busy
    /\ W!ReleaseAsked(c, force)
    /\ raced' = raced \cup {e \in {c} : \E d \in Delegations : call[d].child = c /\ Preparing(d)}
    /\ UNCHANGED <<call, sessions, busy>> /\ NoPlanStep

ReleaseStep(c) ==
    /\ W!ReleaseStep(c)
    /\ UNCHANGED <<ownVars, outside>> /\ NoPlanStep

LookFindsNothing(c) ==
    /\ FromOutside(2)
    /\ W!LookFindsNothing(c)
    /\ UNCHANGED ownVars /\ NoPlanStep

LookWrites(c) ==
    /\ W!LookWrites(c)
    /\ UNCHANGED <<ownVars, outside>> /\ NoPlanStep

\* The process stops with what it holds in memory and starts again.
Crash ==
    /\ FromOutside(2)
    /\ call' = [d \in Delegations |->
                  IF call[d].pc \in {"idle"} \cup Ended THEN call[d]
                  ELSE EndedCall(d, "gone")]
    /\ busy' = {}
    /\ W!RestartWorkspaces
    /\ UNCHANGED <<sessions, raced>> /\ NoPlanStep

\* The steps of execute_task after its question is answered.
CallStep(d) ==
    \/ Provision(d)
    \/ GitAddsWorktree(d)
    \/ ProvisionFails(d)
    \/ Provisioned(d)
    \/ CreateSession(d)
    \/ CreateSessionFails(d)
    \/ \E c \in Delegations : Resume(d, c)
    \/ ResumeInspects(d)
    \/ ResumeFails(d)
    \/ ResumeEnds(d)
    \/ ReadTask(d)
    \/ Link(d)
    \/ LinkFails(d)
    \/ Prepare(d)
    \/ PrepareFails(d)
    \/ Collect(d)
    \/ Record(d)
    \/ RecordFails(d)
    \/ Retain(d)
    \/ RetainFails(d)
    \/ RetainEnds(d)
    \/ ParentCancelled(d)
    \/ OrphanEnds(d)

ChildStops(d) == \E finish \in Finishes(d) : ChildEnds(d, finish)

Next ==
    \/ CreatePlan
    \/ \E d \in Delegations : Request(d)
    \/ RequestBatch
    \/ \E d \in Delegations, yes \in BOOLEAN : Answered(d, yes)
    \/ \E d \in Delegations : CallStep(d)
    \/ \E d \in Delegations : ChildStarts(d) \/ ChildEdits(d) \/ ChildStops(d) \/ Cancel(d)
    \/ UserEdits
    \/ \E c \in Delegations, force \in BOOLEAN : AskRelease(c, force)
    \/ \E c \in Delegations : ReleaseStep(c) \/ LookFindsNothing(c) \/ LookWrites(c)
    \/ Crash

Spec == Init /\ [][Next]_vars

-----------------------------------------------------------------------------
(* Properties.                                                             *)

\* A call that has still to record how its attempt ended, or that has told that
\* it did not: it raised, its process ended, or its report names the error.
Answers(d) ==
    \/ call[d].pc \in {"preparing", "waiting", "stopping", "recording"}
    \/ call[d].pc \in {"orphan", "raised", "gone"}
    \/ call[d].sync = "error"

\* No delegation returns as if all were well while the attempt it started
\* still runs: whatever users and agents do to the plan meanwhile, and
\* wherever the call fails or is cancelled, it has either still to record the
\* end or has told that it did not.  (An attempt that the API or the taskplan
\* tool started has no call that follows it.)
AttemptIsFollowed ==
    task[PlanTask].status = "running" /\ task[PlanTask].owner # NULL =>
        \A d \in Delegations : call[d].attempt = task[PlanTask].attempt => Answers(d)

\* A child session has one run at a time, whoever resumes it: the items of a
\* batch that name the same child, or a second call while an orphan of the
\* first is still at work.
OneRunPerChild ==
    \A d, e \in Delegations :
        call[d].run = "active" /\ call[e].run = "active" /\ call[d].child = call[e].child
            => d = e

\* The release of a workspace whose child is idle, and that no delegation is
\* about to run, takes nothing away: a child at work keeps its directory and
\* committed work is never thrown away.
ReleaseTakesNothing ==
    \A c \in Delegations : c \notin raced =>
        /\ c \in busy /\ row[c].status # "none" => disk[c].dir
        /\ "commits" \notin lost[c]

\* A workspace recorded as retained has its directory: retention and release
\* exclude each other whatever else touches the row.
RetainedIsThere ==
    \A c \in Delegations : row[c].status = "retained" => disk[c].dir
=============================================================================
