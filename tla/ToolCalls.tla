------------------------------ MODULE ToolCalls ------------------------------
(***************************************************************************)
(* The tool calls of the runs of one session: the turns of the session     *)
(* loop that execute them (loop/session_loop.py), the permission a tool     *)
(* asks for (permission/service.py), the offloading of large outputs        *)
(* (artifacts.py), the rows of tool_operations, permission_requests,        *)
(* permission_approvals and artifacts (store/sqlite.py), cancellation, and  *)
(* what the reconciler writes after a crash.                               *)
(*                                                                         *)
(* Each transaction and each wait is an action.  How a run is leased and    *)
(* finished is RunLifecycle's subject: here a run ends in one step.  A     *)
(* tool asks for at most two permissions, that of a directory outside the   *)
(* worktree and its own, and the patterns of one permission match each     *)
(* other.  Hooks and the calls of subagents are external.                  *)
(***************************************************************************)
EXTENDS Integers, Sequences, FiniteSets

CONSTANTS
    Kinds,        \* what the model calls: a tool of Contracts, or "missing", and
                  \* whether it is for something outside the worktree
    RuleSets,     \* the permission rules a session may have
    Sources,      \* where the requests come from: "api", "channel"
    MaxRuns,      \* bound: the runs of the session
    MaxCalls,     \* bound: the tool calls of all runs
    MaxTurns,     \* limits.max_turns
    Limits,       \* limits.max_tool_calls of the runs (0: none)
    MaxEvents     \* bound: requests to cancel, cancelled tasks, crashes, transactions
                  \* that fail and hooks that raise, taken together

Runs  == 1 .. MaxRuns
Calls == 1 .. MaxCalls
Outside == "external_directory"

\* The contracts of tools/*.py: whether there is a side effect, what a
\* restart may do about it, and what an "always" of the user covers.  "bare" is a line
\* for bash in which its parser finds no command: it asks for none (tools/bash.py).
Contracts ==
    [read  |-> [side |-> FALSE, recovery |-> "safe_to_retry", scope |-> "arguments"],
     write |-> [side |-> TRUE,  recovery |-> "safe_to_retry", scope |-> "arguments"],
     bash  |-> [side |-> TRUE,  recovery |-> "manual_review", scope |-> "once"],
     bare  |-> [side |-> TRUE,  recovery |-> "manual_review", scope |-> "once"],
     task  |-> [side |-> TRUE,  recovery |-> "manual_review", scope |-> "session"]]

Permissions == {Outside, "write", "bash", "task"}

ASSUME ToolCallsAssumption ==
    /\ Kinds \subseteq (DOMAIN Contracts \cup {"missing"}) \X BOOLEAN
    /\ RuleSets \subseteq [Permissions -> {"allow", "ask", "deny"}]
    /\ {MaxRuns, MaxCalls, MaxTurns, MaxEvents} \cup Limits \subseteq Nat

\* The permissions a tool asks for, in order.
Asks(tool, leaves) ==
    (IF leaves THEN <<Outside>> ELSE <<>>)
        \o (IF tool \in Permissions THEN <<tool>> ELSE <<>>)

VARIABLES
    rules,      \* the permission rules of the session
    run,        \* the rows of runs
    loop,       \* the session loop
    call,       \* the tool calls: their rows and what the loop does with them
    approvals,  \* the rows of permission_approvals
    canceller,  \* the request to cancel is stored, its signal is not yet given
    outside     \* how much of that bound is used

vars == <<rules, run, loop, call, approvals, canceller, outside>>

\* status "ended" stands for the four terminal ones; how says which, and for a run its
\* parent stopped, finish_reason timed_out or parent_cancelled, "stopped".  cancel: cancel_requested_at,
\* with the round at which it was set, the last there can be if no loop is at it.
NoRun == [status |-> "none", how |-> "none", source |-> "api", limit |-> 0, cancel |-> -1]

\* part: the latest tool part; op: the row of tool_operations; side and
\* partSide: the side effect they record; file and artifact: a stored output;
\* effect: what the tool did; prompt: the permission_requests; future: the
\* future of the prompt that is open, or its reply.
NoCall == [pc |-> "none", tool |-> "missing", outside |-> FALSE, run |-> 0, round |-> 0,
           left |-> <<>>, outcome |-> "none", part |-> "none", partSide |-> "none",
           op |-> "none", side |-> "none", effect |-> FALSE, file |-> FALSE,
           artifact |-> FALSE, message |-> "none",
           prompt |-> [a \in Permissions |-> "none"], future |-> "none"]

Idle == [pc |-> "idle", run |-> 0, round |-> 0, executed |-> 0, final |-> FALSE]

Init ==
    /\ rules \in RuleSets
    /\ run = [r \in Runs |-> NoRun]
    /\ loop = Idle
    /\ call = [c \in Calls |-> NoCall]
    /\ approvals = {}
    /\ canceller = FALSE
    /\ outside = 0

-----------------------------------------------------------------------------
Event == outside < MaxEvents /\ outside' = outside + 1

Active(r) == run[r].status \in {"running", "waiting_approval", "cancelling"}

\* The tool calls of the round in progress.
Batch == {c \in Calls : call[c].pc # "none" /\ call[c].run = loop.run
                        /\ call[c].round = loop.round}

\* Two or three calls, all of the task tool, go on at once.
IsParallelTaskBatch ==
    /\ Cardinality(Batch) \in 2 .. 3
    /\ \A c \in Batch : call[c].tool = "task" /\ call[c].outcome # "tool_budget_exhausted"

Preparing == {"queued", "added", "started"}
Executing == {"ready", "asking", "prompted", "registered", "waiting", "replied", "granting", "acting"}

At(c, pc) == loop.pc = "batch" /\ c \in Batch /\ call[c].pc = pc
Goto(c, pc) == call' = [call EXCEPT ![c].pc = pc]

\* An execution is over: it has an outcome, or raised.
Outcome(c, outcome) == call' = [call EXCEPT ![c].pc = "outcome", ![c].outcome = outcome]

\* The run of the loop is over.  What it leaves undone stays as it is.
RunEnds(how) ==
    /\ run' = [run EXCEPT ![loop.run].status = "ended", ![loop.run].how = how]
    /\ loop' = Idle
    /\ call' = [c \in Calls |->
                  IF c \in Batch /\ call[c].pc # "answered"
                  THEN [call[c] EXCEPT !.pc = "dropped", !.future = "none"] ELSE call[c]]

-----------------------------------------------------------------------------
(* The turns of a run.                                                     *)

StartRun(r, source, limit) ==
    /\ loop.pc = "idle"
    /\ \A s \in Runs : run[s].status # "none" <=> s < r
    /\ run' = [run EXCEPT ![r].status = "running", ![r].source = source, ![r].limit = limit]
    /\ loop' = [Idle EXCEPT !.pc = "turn", !.run = r]
    /\ UNCHANGED <<rules, call, approvals, canceller, outside>>

\* A mutant: the check for a cancellation is only made while the model answers.
TurnUnchecked ==
    /\ loop.pc = "turn"
    /\ IF loop.round >= MaxTurns /\ ~loop.final
       THEN RunEnds("failed")
       ELSE loop' = [loop EXCEPT !.pc = "model", !.round = @ + 1] /\ UNCHANGED <<run, call>>
    /\ UNCHANGED <<rules, approvals, canceller, outside>>

\* A turn begins, unless there was one too many or the run is cancelled.
Turn ==
    /\ loop.pc = "turn"
    /\ \/ /\ loop.round >= MaxTurns /\ ~loop.final
          /\ RunEnds("failed")
       \/ /\ loop.round < MaxTurns \/ loop.final
          /\ run[loop.run].cancel >= 0
          /\ RunEnds("cancelled")
       \/ /\ loop.round < MaxTurns \/ loop.final
          /\ run[loop.run].cancel < 0
          /\ loop' = [loop EXCEPT !.pc = "model", !.round = @ + 1]
          /\ UNCHANGED <<run, call>>
    /\ UNCHANGED <<rules, approvals, canceller, outside>>

\* The model ends without a tool call, its stream fails, the stream sees the
\* cancellation, or the model gives no reason to end (not for ever: the turn
\* after the last is the bound).
ModelEnds ==
    /\ loop.pc = "model"
    /\ \/ \E how \in {"completed", "failed"} : RunEnds(how)
       \/ run[loop.run].cancel >= 0 /\ RunEnds("cancelled")
       \/ /\ loop.round <= MaxTurns
          /\ loop' = [loop EXCEPT !.pc = "turn"]
          /\ UNCHANGED <<run, call>>
    /\ UNCHANGED <<rules, approvals, canceller, outside>>

\* The next calls, one for each pair of a tool and whether it leaves the
\* worktree, queued with this outcome.
Queued(new, outcome) ==
    LET first == Cardinality({c \in Calls : call[c].pc # "none"})
    IN  [c \in Calls |->
           IF c \in first + 1 .. first + Len(new)
           THEN [NoCall EXCEPT !.pc = "queued", !.tool = new[c - first][1],
                     !.outside = new[c - first][2], !.run = loop.run,
                     !.round = loop.round, !.outcome = outcome]
           ELSE call[c]]

\* The answers of the model: one or more calls, within the bound.
Answers ==
    LET room == Cardinality({c \in Calls : call[c].pc = "none"})
    IN  UNION {[1 .. n -> Kinds] : n \in 1 .. (IF room < 3 THEN room ELSE 3)}

OverBudget(n) == run[loop.run].limit > 0 /\ loop.executed + n > run[loop.run].limit

\* The model calls tools.  Too many calls are refused, all of them, and the
\* model gets one more turn; the second time the run ends.
ModelCalls(new) ==
    /\ loop.pc = "model"
    /\ new \in Answers
    /\ \/ /\ ~OverBudget(Len(new))
          /\ call' = Queued(new, "none")
          /\ loop' = [loop EXCEPT !.pc = "batch"]
          /\ UNCHANGED run
       \/ /\ OverBudget(Len(new)) /\ ~loop.final
          /\ call' = Queued(new, "tool_budget_exhausted")
          /\ loop' = [loop EXCEPT !.pc = "batch", !.final = TRUE]
          /\ UNCHANGED run
       \/ /\ OverBudget(Len(new)) /\ loop.final
          /\ RunEnds("failed")
    /\ UNCHANGED <<rules, approvals, canceller, outside>>

\* All calls of the batch are answered.
BatchEnds ==
    /\ loop.pc = "batch"
    /\ \A c \in Batch : call[c].pc = "answered"
    /\ loop' = [loop EXCEPT !.pc = "turn",
                    !.executed = @ + Cardinality({c \in Batch :
                                        call[c].outcome # "tool_budget_exhausted"})]
    /\ UNCHANGED <<rules, run, call, approvals, canceller, outside>>

-----------------------------------------------------------------------------
(* Preparing a call.                                                       *)

\* In a batch of one after the other, a call waits for those before it; in a
\* parallel one it waits until those before it are prepared.
MayPrepare(c) ==
    /\ At(c, "queued")
    /\ \A d \in Batch : d < c =>
          IF IsParallelTaskBatch THEN call[d].pc \notin Preparing ELSE call[d].pc = "answered"

\* A mutant: a call over the budget is not answered.
AddPartUnanswered(c) ==
    /\ MayPrepare(c)
    /\ call' = [call EXCEPT ![c].part = "pending",
                    ![c].pc = IF call[c].outcome = "none" THEN "added" ELSE "answered"]
    /\ UNCHANGED <<rules, run, loop, approvals, canceller, outside>>

\* The part of the call is stored; a call over the budget is then answered.
AddPart(c) ==
    /\ MayPrepare(c)
    /\ call' = [call EXCEPT ![c].part = "pending",
                    ![c].pc = IF call[c].outcome = "none" THEN "added" ELSE "outcome"]
    /\ UNCHANGED <<rules, run, loop, approvals, canceller, outside>>

\* The tool is looked up and its arguments are checked.
NotFound(c) ==
    /\ At(c, "added") /\ call[c].tool = "missing"
    /\ \E code \in {"tool_not_found", "invalid_tool_arguments"} : Outcome(c, code)
    /\ UNCHANGED <<rules, run, loop, approvals, canceller, outside>>

MarkRunning(c) ==
    /\ At(c, "added") /\ call[c].tool # "missing"
    /\ call' = [call EXCEPT ![c].part = "running", ![c].pc = "started"]
    /\ UNCHANGED <<rules, run, loop, approvals, canceller, outside>>

\* The row of the operation, before the tool does anything.
StoreOperation(c) ==
    /\ At(c, "started")
    /\ call' = [call EXCEPT ![c].op = "executing", ![c].pc = "ready",
                    ![c].side = IF Contracts[call[c].tool].side THEN "unknown" ELSE "none"]
    /\ UNCHANGED <<rules, run, loop, approvals, canceller, outside>>

-----------------------------------------------------------------------------
(* Executing a call: what it asks for, then what it does.                  *)

\* A parallel batch is prepared as a whole first.
StartCall(c) ==
    /\ At(c, "ready")
    /\ IsParallelTaskBatch => \A d \in Batch : call[d].pc \notin Preparing
    /\ call' = [call EXCEPT ![c].pc = "asking",
                    ![c].left = Asks(call[c].tool, call[c].outside)]
    /\ UNCHANGED <<rules, run, loop, approvals, canceller, outside>>

Asked(c) == Head(call[c].left)

\* The approvals of the session come before its rules.
Decision(a) == IF a \in approvals THEN "allow" ELSE rules[a]

AskIsDecided(c) ==
    /\ At(c, "asking") /\ call[c].left # <<>>
    /\ \/ /\ Decision(Asked(c)) = "allow"
          /\ call' = [call EXCEPT ![c].left = Tail(@)]
       \/ /\ Decision(Asked(c)) = "deny"
          /\ Outcome(c, "permission_denied")
    /\ UNCHANGED <<rules, run, loop, approvals, canceller, outside>>

\* The row of the prompt.
AskPrompts(c) ==
    /\ At(c, "asking") /\ call[c].left # <<>>
    /\ Decision(Asked(c)) = "ask"
    /\ call' = [call EXCEPT ![c].prompt[Asked(c)] = "pending", ![c].pc = "prompted"]
    /\ UNCHANGED <<rules, run, loop, approvals, canceller, outside>>

\* A channel has nobody to ask: the prompt is rejected.  Otherwise the future
\* that the reply resolves is registered, and the run waits.
Register(c) ==
    /\ At(c, "prompted")
    /\ IF run[loop.run].source = "channel"
       THEN call' = [call EXCEPT ![c].prompt[Asked(c)] = "rejected",
                         ![c].pc = "outcome", ![c].outcome = "permission_denied"]
       ELSE call' = [call EXCEPT ![c].future = "open", ![c].pc = "registered"]
    /\ UNCHANGED <<rules, run, loop, approvals, canceller, outside>>

SetWaiting(c) ==
    /\ At(c, "registered")
    /\ run' = [run EXCEPT ![loop.run].status = IF @ = "running" THEN "waiting_approval" ELSE @]
    /\ Goto(c, "waiting")
    /\ UNCHANGED <<rules, loop, approvals, canceller, outside>>

\* A future that is resolved keeps its reply.
Reply(c, reply) ==
    /\ call[c].future = "open"
    /\ call' = [call EXCEPT ![c].future = reply]
    /\ UNCHANGED <<rules, run, loop, approvals, canceller, outside>>

Resume(c) ==
    /\ At(c, "waiting") /\ call[c].future # "open"
    /\ run' = [run EXCEPT ![loop.run].status = IF @ = "waiting_approval" THEN "running" ELSE @]
    /\ call' = [call EXCEPT ![c].pc = "replied"]
    /\ UNCHANGED <<rules, loop, approvals, canceller, outside>>

Resolve(c) ==
    /\ At(c, "replied")
    /\ LET reply == call[c].future IN
       call' = [call EXCEPT ![c].prompt[Asked(c)] = reply, ![c].future = "none",
                    ![c].pc = CASE reply = "rejected" -> "outcome"
                                [] reply = "once" -> "asking"
                                [] reply = "always" -> "granting",
                    ![c].outcome = IF reply = "rejected" THEN "permission_denied" ELSE @,
                    ![c].left = IF reply = "once" THEN Tail(@) ELSE @]
    /\ UNCHANGED <<rules, run, loop, approvals, canceller, outside>>

\* A mutant: the scope in the contract is not looked at.
GrantsAlways(c) == {Asked(c)}

\* What an "always" adds to the approvals of the session.
Grants(c) == IF Contracts[call[c].tool].scope = "once" THEN {} ELSE {Asked(c)}

AddApprovals(c) ==
    /\ At(c, "granting")
    /\ approvals' = approvals \cup Grants(c)
    /\ call' = [call EXCEPT ![c].pc = "asking", ![c].left = Tail(@)]
    /\ UNCHANGED <<rules, run, loop, canceller, outside>>

\* The tool goes to work.
Act(c) ==
    /\ \/ At(c, "asking") /\ call[c].left = <<>>
       \/ At(c, "acting") /\ ~call[c].effect
    /\ IF call[c].pc = "asking" THEN Goto(c, "acting")
       ELSE /\ Contracts[call[c].tool].side
            /\ call' = [call EXCEPT ![c].effect = TRUE]
    /\ UNCHANGED <<rules, run, loop, approvals, canceller, outside>>

\* It returns a result, an error of its own, or raises.
Returns(c) ==
    /\ \/ At(c, "acting") /\ \E code \in {"completed", "tool_execution_failed"} : Outcome(c, code)
       \/ At(c, "asking") /\ Outcome(c, "tool_execution_failed")
    /\ UNCHANGED <<rules, run, loop, approvals, canceller, outside>>

\* A transaction of an ask fails: for the loop the tool failed.  A future that
\* stays registered has nobody to wait for it any more.
AskFails(c) ==
    /\ \E pc \in {"prompted", "registered", "replied", "granting"} : At(c, pc)
    /\ Event
    /\ call' = [call EXCEPT ![c].pc = "outcome", ![c].outcome = "tool_execution_failed",
                    ![c].future = "none"]
    /\ UNCHANGED <<rules, run, loop, approvals, canceller>>

\* The hook after a failed tool raises.
CallRaises(c) ==
    /\ At(c, "acting") /\ Event
    /\ Goto(c, "raised")
    /\ UNCHANGED <<rules, run, loop, approvals, canceller>>

-----------------------------------------------------------------------------
(* Storing an outcome.                                                     *)

\* One after the other: at once.  In parallel: when all are over, in order.
MayPersist(c) ==
    IsParallelTaskBatch =>
        /\ \A d \in Batch : call[d].pc \notin Preparing \cup Executing
        /\ \A d \in Batch : d < c => call[d].pc = "answered"

\* A large output goes to a file, the file to its place, and then its row is
\* stored.  The messages of the loop itself are short.
Offload(c) ==
    /\ At(c, "outcome") /\ MayPersist(c)
    /\ call[c].outcome \in {"completed", "tool_execution_failed"}
    /\ call' = [call EXCEPT ![c].file = TRUE, ![c].pc = "filed"]
    /\ UNCHANGED <<rules, run, loop, approvals, canceller, outside>>

AddArtifact(c) ==
    /\ At(c, "filed")
    /\ call' = [call EXCEPT ![c].artifact = TRUE, ![c].pc = "stored"]
    /\ UNCHANGED <<rules, run, loop, approvals, canceller, outside>>

KeepInline(c) ==
    /\ At(c, "outcome") /\ MayPersist(c)
    /\ Goto(c, "stored")
    /\ UNCHANGED <<rules, run, loop, approvals, canceller, outside>>

\* The side effect an outcome is stored with.
SideEffectOf(c) ==
    LET side == call[c].tool # "missing" /\ Contracts[call[c].tool].side
    IN  CASE call[c].outcome = "completed" -> IF side THEN "committed" ELSE "none"
          [] call[c].outcome \in {"permission_denied", "invalid_tool_arguments", "tool_not_found"} -> "none"
          [] call[c].outcome = "tool_execution_failed" -> IF side THEN "unknown" ELSE "none"
          [] OTHER -> "unknown"

StatusOf(c) == IF call[c].outcome = "completed" THEN "completed" ELSE "error"

RecordOperation(c) ==
    /\ At(c, "stored")
    /\ call' = [call EXCEPT ![c].op = StatusOf(c), ![c].side = SideEffectOf(c), ![c].pc = "recorded"]
    /\ UNCHANGED <<rules, run, loop, approvals, canceller, outside>>

FinishPart(c) ==
    /\ At(c, "recorded")
    /\ call' = [call EXCEPT ![c].part = StatusOf(c), ![c].partSide = call[c].side, ![c].pc = "closed"]
    /\ UNCHANGED <<rules, run, loop, approvals, canceller, outside>>

\* The message of the tool for the next turn, then its text.
AddToolMessage(c) ==
    /\ \/ At(c, "closed") /\ call' = [call EXCEPT ![c].message = "empty", ![c].pc = "messaged"]
       \/ At(c, "messaged") /\ call' = [call EXCEPT ![c].message = "full", ![c].pc = "answered"]
    /\ UNCHANGED <<rules, run, loop, approvals, canceller, outside>>

\* What a call raised ends the batch when its turn comes, and the run with it:
\* the outcomes after it are not stored.
BatchRaises(c) ==
    /\ At(c, "raised") /\ MayPersist(c)
    /\ RunEnds("failed")
    /\ UNCHANGED <<rules, approvals, canceller, outside>>

\* A transaction fails, or a hook raises.  The file of an artifact without a row is removed.
StoreFails(c) ==
    /\ \/ At(c, "added") \/ At(c, "started")
       \/ /\ \E pc \in {"outcome", "filed", "stored", "recorded", "closed"} : At(c, pc)
          /\ MayPersist(c)
    /\ Event
    /\ run' = [run EXCEPT ![loop.run].status = "ended", ![loop.run].how = "failed"]
    /\ loop' = Idle
    /\ call' = [d \in Calls |->
                  IF d = c THEN [call[d] EXCEPT !.pc = "dropped", !.future = "none",
                                    !.file = @ /\ call[d].artifact]
                  ELSE IF d \in Batch /\ call[d].pc # "answered"
                  THEN [call[d] EXCEPT !.pc = "dropped", !.future = "none"] ELSE call[d]]
    /\ UNCHANGED <<rules, approvals, canceller>>

-----------------------------------------------------------------------------
(* Cancellation, crashes and the reconciler.                               *)

\* cancel_run and interrupt_session: the row of the run, then its prompts.
RequestCancel(r) ==
    /\ Active(r) /\ run[r].status # "cancelling" /\ ~canceller
    /\ Event
    /\ run' = [run EXCEPT ![r].status = "cancelling",
                   ![r].cancel = IF r = loop.run THEN loop.round ELSE MaxTurns + MaxCalls]
    /\ canceller' = TRUE
    /\ UNCHANGED <<rules, loop, call, approvals>>

CancelSession ==
    /\ canceller
    /\ canceller' = FALSE
    /\ call' = [c \in Calls |-> IF call[c].future = "open"
                                THEN [call[c] EXCEPT !.future = "rejected"] ELSE call[c]]
    /\ UNCHANGED <<rules, run, loop, approvals, outside>>

\* The task of the run is cancelled, wherever it waits.  The signal that came before says
\* how the run ends: the user's, none, or that of the agent it works for.
TaskCancelled ==
    /\ loop.pc \in {"turn", "model", "batch"}
    /\ Event
    /\ \E how \in {"cancelled", "interrupted", "stopped"} : RunEnds(how)
    /\ UNCHANGED <<rules, approvals, canceller>>

Crash ==
    /\ loop.pc \notin {"idle", "down"}
    /\ Event
    /\ loop' = [Idle EXCEPT !.pc = "down"]
    /\ call' = [c \in Calls |->
                  IF c \in Batch /\ call[c].pc # "answered"
                  THEN [call[c] EXCEPT !.pc = "dropped", !.future = "none"] ELSE call[c]]
    /\ canceller' = FALSE
    /\ UNCHANGED <<rules, run, approvals>>

Restart ==
    /\ loop.pc = "down"
    /\ loop' = Idle
    /\ UNCHANGED <<rules, run, call, approvals, canceller, outside>>

\* A mutant: an operation without an outcome is taken for one that did nothing.
ReconciledAsNothing(c) ==
    [call[c] EXCEPT
        !.partSide = IF call[c].part \in {"pending", "running"} THEN "none" ELSE @,
        !.part = IF @ \in {"pending", "running"} THEN "error" ELSE @,
        !.op = IF @ = "executing" THEN "interrupted" ELSE @]

\* What the reconciler makes of a call of a run that nobody goes on with.
Reconciled(c) ==
    [call[c] EXCEPT
        !.partSide = CASE call[c].part = "pending" -> "none"
                       [] call[c].part = "running" -> "unknown"
                       [] OTHER -> @,
        !.part = IF @ \in {"pending", "running"} THEN "error" ELSE @,
        !.op = IF @ # "executing" THEN @
               ELSE IF Contracts[call[c].tool].recovery = "safe_to_retry"
               THEN "interrupted" ELSE "needs_review"]

\* The lease of a run without a process lapsed.  All prompts of the session
\* that are pending are closed, those of a later run too.
ReconcileRun(r) ==
    /\ Active(r) /\ r # loop.run
    /\ run' = [run EXCEPT ![r].status = "ended", ![r].how = "interrupted"]
    /\ call' = [c \in Calls |->
                  [IF call[c].run = r THEN Reconciled(c) ELSE call[c] EXCEPT
                      !.prompt = [a \in Permissions |->
                                    IF @[a] = "pending" THEN "interrupted" ELSE @[a]]]]
    /\ UNCHANGED <<rules, loop, approvals, canceller, outside>>

-----------------------------------------------------------------------------
CallStep(c) ==
    \/ AddPart(c) \/ NotFound(c) \/ MarkRunning(c) \/ StoreOperation(c)
    \/ StartCall(c) \/ AskIsDecided(c) \/ AskPrompts(c) \/ Register(c) \/ SetWaiting(c)
    \/ Resume(c) \/ Resolve(c) \/ AddApprovals(c) \/ Act(c) \/ Returns(c)
    \/ AskFails(c) \/ CallRaises(c)
    \/ Offload(c) \/ AddArtifact(c) \/ KeepInline(c) \/ RecordOperation(c)
    \/ FinishPart(c) \/ AddToolMessage(c) \/ BatchRaises(c) \/ StoreFails(c)

Next ==
    \/ \E r \in Runs, source \in Sources, limit \in Limits : StartRun(r, source, limit)
    \/ Turn \/ ModelEnds \/ BatchEnds
    \/ loop.pc = "model" /\ \E new \in Answers : ModelCalls(new)
    \/ \E c \in Calls : CallStep(c)
    \/ \E c \in Calls, reply \in {"once", "always", "rejected"} : Reply(c, reply)
    \/ \E r \in Runs : RequestCancel(r) \/ ReconcileRun(r)
    \/ CancelSession \/ TaskCancelled \/ Crash \/ Restart

Spec == Init /\ [][Next]_vars

-----------------------------------------------------------------------------
(* Properties.                                                             *)

\* What a tool did is on record: no row and no part of its call says that
\* there was no side effect, whatever interrupted the call, and there is a row
\* from before it did anything (session_loop.py:1564, store/sqlite.py:3450).
EffectsAreOnRecord ==
    \A c \in Calls : call[c].effect =>
        /\ call[c].side \in {"unknown", "committed"}
        /\ call[c].partSide # "none" \/ call[c].part = "running"

\* Every permission a tool asks for before it acts is allowed by the rules,
\* by the user's own reply to this call, or by an "always" given to an earlier
\* call, or to one that goes on beside it, of a tool that is not to be approved
\* once only (permission/service.py:186, session_loop.py:72).
Beside(d, c) == /\ call[d].tool = "task" /\ call[c].tool = "task"
                /\ call[d].run = call[c].run /\ call[d].round = call[c].round

ConsentBeforeEffect ==
    \A c \in Calls : call[c].effect =>
        \A i \in DOMAIN Asks(call[c].tool, call[c].outside) :
            LET a == Asks(call[c].tool, call[c].outside)[i] IN
            \/ rules[a] = "allow"
            \/ call[c].prompt[a] \in {"once", "always"}
            \/ \E d \in Calls :
                  /\ d < c \/ Beside(d, c)
                  /\ call[d].prompt[a] = "always"
                  /\ Contracts[call[d].tool].scope # "once"

\* What the rows say of a call that is over: an outcome, its part, the message
\* with its text, and the file if the output was stored as an artifact.
Kept(c) ==
    /\ call[c].op \in {"completed", "error"} /\ call[c].op = call[c].part
    /\ call[c].message = "full"
    /\ call[c].artifact => call[c].file

\* The status a run ends with: one its parent stopped is completed too.
StatusOfRun(r) == IF run[r].how = "stopped" THEN "completed" ELSE run[r].how

\* The model is asked again in a run only with every call of the run's earlier rounds
\* answered: a history with a call and no answer is refused by the provider
\* (session_loop.py:1036, 915).  And a run that is completed with a call unanswered was
\* stopped by its parent, as its finish_reason says and its status does not (1267).
NextRoundIsAnswered ==
    \A c \in Calls :
        /\ call[c].run # 0 /\ loop.pc = "model" /\ call[c].run = loop.run => Kept(c)
        /\ call[c].run # 0 /\ StatusOfRun(call[c].run) = "completed" =>
               Kept(c) \/ run[call[c].run].how = "stopped"

\* After a run is cancelled its batch may go on, but no call of a later round
\* is ever made (session_loop.py:425, 1360).
CancelStopsNextRound ==
    \A c \in Calls : call[c].pc # "none" =>
        LET r == call[c].run IN run[r].cancel >= 0 => call[c].round <= run[r].cancel
=============================================================================
