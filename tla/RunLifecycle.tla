---------------------------- MODULE RunLifecycle ----------------------------
(***************************************************************************)
(* The runs of one session: the tables runs and session_leases of          *)
(* src/nexapilot/store/sqlite.py, the session loop that executes a run     *)
(* (loop/session_loop.py), its heartbeat, the in-memory interrupt signal   *)
(* (loop/interrupt.py), the prompts for permission (permission/service.py),*)
(* cancellation (api/app.py) and the reconciler (run_lifecycle.py).        *)
(*                                                                         *)
(* Each transaction is an action and so is each read the loop acts on      *)
(* later: everything else may happen in between.  Several processes share  *)
(* the database; a process executes one run of the session at a time       *)
(* (AgentService._mark_session_busy).                                      *)
(*                                                                         *)
(* Time is abstracted to whether lease_until of a run is still ahead; for  *)
(* a queued run, whether it was touched recently.  A lease row repeats the *)
(* owner and lease_until of its run, so it is modelled by that run.        *)
(***************************************************************************)
EXTENDS Integers, FiniteSets

CONSTANTS
    Procs,         \* the server processes
    MaxRuns,       \* bound: the runs requested
    MaxTurns,      \* limits.max_turns of an agent that has one
    Unlimited,     \* the runs of agents without one, as the primary agents are
    MaxCalls,      \* bound: the tool calls of one model answer
    MaxCancels,    \* bound: requests to cancel a run
    MaxInterrupts, \* bound: requests to interrupt the session
    MaxCrashes,    \* bound: processes that die
    MaxStalls,     \* bound: leases that expire under a process that heartbeats
    MaxFaults,     \* bound: transactions of a heartbeat or an ending that fail
    NULL

ASSUME RunLifecycleAssumption ==
    /\ {MaxRuns, MaxTurns, MaxCalls, MaxCancels, MaxInterrupts, MaxCrashes, MaxStalls, MaxFaults}
           \subseteq Nat
    /\ Unlimited \subseteq 1 .. MaxRuns
    /\ {NULL, "gone"} \cap Procs = {} /\ NULL # "gone"

Runs == 1 .. MaxRuns

Terminal == {"completed", "failed", "cancelled", "interrupted"}
Owned    == {"running", "waiting_approval", "cancelling"}
RunStatus == {"none", "queued"} \cup Owned \cup Terminal
Signals == {"user_cancelled", "run_lease_lost", "timed_out", "parent_cancelled"}
Reasons == {"stop", "error", "max_turns_exceeded", "provider_stream_interrupted",
            "interrupted"} \cup Signals

VARIABLES
    run,        \* the rows of runs
    lease,      \* the run the row of session_leases names (0: there is none)
    proc,       \* what each process does
    signal,     \* the signal its InterruptManager holds for the session
    canceller,  \* what its cancel handler still has to do
    used        \* how much of each bound is used

vars == <<run, lease, proc, signal, canceller, used>>

\* message: an assistant message is attached; event: the outbox row exists.
NoRun == [status |-> "none", owner |-> NULL, live |-> FALSE, cancel |-> FALSE,
          message |-> FALSE, event |-> FALSE]

\* beat: the heartbeat task runs; handler: an exception handler of the loop
\* is what finishes the run.
Idle == [pc |-> "idle", run |-> 0, turns |-> 0, calls |-> 0, beat |-> FALSE,
         reason |-> NULL, handler |-> FALSE]

Init ==
    /\ run = [r \in Runs |-> NoRun]
    /\ lease = 0
    /\ proc = [p \in Procs |-> Idle]
    /\ signal = [p \in Procs |-> NULL]
    /\ canceller = [p \in Procs |-> "none"]
    /\ used = [cancels |-> 0, interrupts |-> 0, crashes |-> 0, stalls |-> 0, faults |-> 0]

-----------------------------------------------------------------------------
Active(r) == run[r].status \in {"queued"} \cup Owned
Ours(p)   == run[proc[p].run].owner = p

At(p, pc)   == proc[p].pc = pc
Goto(p, pc) == proc' = [proc EXCEPT ![p].pc = pc]
Leave(p)    == proc' = [proc EXCEPT ![p] = Idle]

\* The run is to be finished for this reason.
FinishAs(p, reason, handler) ==
    proc' = [proc EXCEPT ![p].pc = "finishing", ![p].reason = reason, ![p].handler = handler]

\* An exception reaches the outer handler of _run_session_with_trace.
Raise(p) == FinishAs(p, "error", TRUE)

\* The status a run gets that ends for this reason.  A broken stream is passed
\* with its error, which comes first: it is not reported as interrupted.
Outcome(reason) ==
    CASE reason \in {"error", "max_turns_exceeded", "provider_stream_interrupted"} -> "failed"
      [] reason = "user_cancelled" -> "cancelled"
      [] reason \in {"interrupted", "run_lease_lost"} -> "interrupted"
      [] OTHER -> "completed"

\* The same for finish_run, when a cancelled task has no message yet.
OutcomeEarly(reason) ==
    CASE reason = "error" -> "failed"
      [] reason = "user_cancelled" -> "cancelled"
      [] OTHER -> "interrupted"

\* A mutant: no outbox row is written.
EndedUnpublished(row, status, event) ==
    [row EXCEPT !.status = status, !.owner = NULL, !.live = FALSE]

Ended(row, status, event) ==
    [row EXCEPT !.status = status, !.owner = NULL, !.live = FALSE, !.event = event]

-----------------------------------------------------------------------------
(* Starting a run.                                                         *)

\* _run_request: the session is marked busy and its signal cleared.
Accept(p) ==
    /\ At(p, "idle")
    /\ Goto(p, "creating")
    /\ signal' = [signal EXCEPT ![p] = NULL]
    /\ UNCHANGED <<run, lease, canceller, used>>

CreateRun(p, r) ==
    /\ At(p, "creating")
    /\ \A s \in Runs : run[s].status # "none" <=> s < r
    /\ run' = [run EXCEPT ![r].status = "queued", ![r].live = TRUE]
    /\ proc' = [proc EXCEPT ![p].pc = "starting", ![p].run = r]
    /\ UNCHANGED <<lease, signal, canceller, used>>

\* A mutant: a lease is taken whoever holds it.
FreeAlways(p) == TRUE

\* The lease has run out, or is this process's own.
Free(p) == lease # 0 => ~run[lease].live \/ run[lease].owner = p

\* attach_message_to_run and start_run.  Either raises: the message may belong
\* to another run, the run be cancelled already, the lease be taken.
StartRun(p) ==
    LET r == proc[p].run
    IN  /\ At(p, "starting")
        /\ \/ /\ run[r].status = "queued" /\ Free(p)
              /\ run' = [run EXCEPT ![r].status = "running", ![r].owner = p, ![r].live = TRUE]
              /\ lease' = r
              /\ proc' = [proc EXCEPT ![p].pc = "opening", ![p].beat = TRUE]
           \/ /\ run[r].status # "queued" \/ ~Free(p) \/ \E s \in Runs : s < r
              /\ proc' = [proc EXCEPT ![p].pc = "failing", ![p].reason = "error"]
              /\ UNCHANGED <<run, lease>>
        /\ UNCHANGED <<signal, canceller, used>>

OpenMessage(p) ==
    /\ At(p, "opening")
    /\ run' = [run EXCEPT ![proc[p].run].message = TRUE]
    /\ Goto(p, "guard")
    /\ UNCHANGED <<lease, signal, canceller, used>>

\* add_message fails.  The variable the handlers ask is set before the message is
\* written, so they end the run with a message it does not have.
OpenFault(p) ==
    /\ At(p, "opening") /\ used.faults < MaxFaults
    /\ Raise(p)
    /\ used' = [used EXCEPT !.faults = @ + 1]
    /\ UNCHANGED <<run, lease, signal, canceller>>

-----------------------------------------------------------------------------
(* The turns of the loop.                                                  *)

Limited(p) == proc[p].run \notin Unlimited

\* The guard reads the database first ...
Guard(p) ==
    /\ At(p, "guard")
    /\ IF Limited(p) /\ proc[p].turns >= MaxTurns THEN FinishAs(p, "max_turns_exceeded", FALSE)
       ELSE Goto(p, IF run[proc[p].run].cancel THEN "stopping" ELSE "guard_signal")
    /\ UNCHANGED <<run, lease, signal, canceller, used>>

\* ... and then the signal.
GuardSignal(p) ==
    /\ At(p, "guard_signal")
    /\ Goto(p, IF signal[p] # NULL THEN "stopping" ELSE "before_model")
    /\ UNCHANGED <<run, lease, signal, canceller, used>>

\* The signal, if there is one by now, says why the run stops.
Stop(p) ==
    /\ At(p, "stopping")
    /\ FinishAs(p, IF signal[p] # NULL THEN signal[p] ELSE "interrupted", proc[p].handler)
    /\ UNCHANGED <<run, lease, signal, canceller, used>>

\* checkpoint_run raises when the run is no longer this process's.  Turns that no limit
\* is compared with are not counted.
Checkpoint(p) ==
    /\ proc[p].pc \in {"before_model", "before_tools", "after_tools"}
    /\ IF Ours(p) /\ run[proc[p].run].status \in Owned
       THEN CASE At(p, "before_model") ->
                    proc' = [proc EXCEPT ![p].pc = "model",
                                     ![p].turns = IF Limited(p) THEN @ + 1 ELSE @]
              [] At(p, "before_tools") -> Goto(p, "tools")
              [] At(p, "after_tools")  -> Goto(p, "guard")
       ELSE Raise(p)
    /\ UNCHANGED <<run, lease, signal, canceller, used>>

\* The model's answer: noticed to be interrupted, final, broken off, or calls.
\* An answer without calls that does not say it is final is asked for again.
Stream(p) ==
    /\ At(p, "model")
    /\ \/ (run[proc[p].run].cancel \/ signal[p] # NULL) /\ Goto(p, "stopping")
       \/ \E reason \in {"stop", "error", "provider_stream_interrupted"} :
              FinishAs(p, reason, FALSE)
       \/ \E n \in 1 .. MaxCalls :
              proc' = [proc EXCEPT ![p].pc = "before_tools", ![p].calls = n]
       \/ Goto(p, "guard")
    /\ UNCHANGED <<run, lease, signal, canceller, used>>

\* The next tool call of the batch runs, or first asks for permission: ask
\* stores the request, and only then registers the future that a reply needs.
StartCall(p) ==
    /\ At(p, "tools")
    /\ Goto(p, "executing") \/ Goto(p, "asking")
    /\ UNCHANGED <<run, lease, signal, canceller, used>>

\* A mutant: the status is set whatever it is.
SetApprovalAnyway(p, from, to) == run' = [run EXCEPT ![proc[p].run].status = to]

SetApproval(p, from, to) ==
    run' = [run EXCEPT ![proc[p].run].status = IF @ = from THEN to ELSE @]

Ask(p) ==
    /\ At(p, "asking")
    /\ Goto(p, "waiting")
    /\ SetApproval(p, "running", "waiting_approval")
    /\ UNCHANGED <<lease, signal, canceller, used>>

Reply(p) ==
    /\ At(p, "waiting")
    /\ Goto(p, "answered")
    /\ UNCHANGED <<run, lease, signal, canceller, used>>

Resume(p) ==
    /\ At(p, "answered")
    /\ Goto(p, "executing")
    /\ SetApproval(p, "waiting_approval", "running")
    /\ UNCHANGED <<lease, signal, canceller, used>>

EndCall(p) ==
    /\ At(p, "executing")
    /\ proc' = [proc EXCEPT ![p].calls = @ - 1,
                            ![p].pc = IF proc[p].calls = 1 THEN "after_tools" ELSE "tools"]
    /\ UNCHANGED <<run, lease, signal, canceller, used>>

Loop == {"guard", "guard_signal", "before_model", "model", "before_tools", "tools",
         "asking", "waiting", "answered", "executing", "after_tools"}

\* The task that executes the run is cancelled: at shutdown, or by the agent
\* that delegated to it (agents/service.py), which first signals the reason.
\* Leaving a prompt ends the wait for approval.
CancelTask(p) ==
    /\ \E reason \in {signal[p], "timed_out", "parent_cancelled"} :
          signal' = [signal EXCEPT ![p] = reason]
    /\ \/ /\ proc[p].pc \in Loop
          /\ proc' = [proc EXCEPT ![p].pc = "stopping", ![p].handler = ~At(p, "model")]
       \/ /\ proc[p].pc \in {"starting", "opening"}
          /\ proc' = [proc EXCEPT ![p].pc = "failing",
                         ![p].reason = IF signal'[p] # NULL THEN signal'[p] ELSE "interrupted"]
       \/ At(p, "creating") /\ Leave(p)
    /\ IF proc[p].pc \in {"waiting", "answered"}
       THEN SetApproval(p, "waiting_approval", "running")
       ELSE UNCHANGED run
    /\ UNCHANGED <<lease, canceller, used>>

\* The same, once the run's message is on its way to the table: whether it arrives or
\* not, the handler ends the run as one that has it.
CancelOpening(p) ==
    /\ At(p, "opening")
    /\ \E reason \in {signal[p], "timed_out", "parent_cancelled"} :
          signal' = [signal EXCEPT ![p] = reason]
    /\ proc' = [proc EXCEPT ![p].pc = "stopping", ![p].handler = TRUE]
    /\ UNCHANGED run \/ run' = [run EXCEPT ![proc[p].run].message = TRUE]
    /\ UNCHANGED <<lease, canceller, used>>

\* The same while the run is being finished: by the handler again, or, when it is the
\* handler that is cancelled, by nobody.
CancelEnding(p) ==
    /\ proc[p].pc \in {"stopping", "finishing", "failing"}
    /\ \E reason \in {signal[p], "timed_out", "parent_cancelled"} :
          signal' = [signal EXCEPT ![p] = reason]
    /\ IF At(p, "failing") \/ proc[p].handler THEN Leave(p)
       ELSE proc' = [proc EXCEPT ![p].pc = "stopping", ![p].handler = TRUE]
    /\ UNCHANGED <<run, lease, canceller, used>>

-----------------------------------------------------------------------------
(* Finishing a run.                                                        *)

\* A mutant: the lease is left behind.
EndKeepingLease(r, status, event) ==
    /\ run' = IF Active(r) THEN [run EXCEPT ![r] = Ended(@, status, event)] ELSE run
    /\ UNCHANGED lease

End(r, status, event) ==
    IF Active(r)
    THEN /\ run' = [run EXCEPT ![r] = Ended(@, status, event)]
         /\ lease' = IF lease = r THEN 0 ELSE lease
    ELSE UNCHANGED <<run, lease>>

\* finish_assistant_run_with_outbox; it raises for a run that has ended, and for one
\* whose message was never written: that one stays as it is.
Finish(p) ==
    /\ At(p, "finishing")
    /\ IF run[proc[p].run].message THEN End(proc[p].run, Outcome(proc[p].reason), TRUE)
       ELSE UNCHANGED <<run, lease>>
    /\ Leave(p)
    /\ UNCHANGED <<signal, canceller, used>>

\* finish_run, for a run without an assistant message: no outbox event.
FinishEarly(p) ==
    /\ At(p, "failing")
    /\ End(proc[p].run, OutcomeEarly(proc[p].reason), FALSE)
    /\ Leave(p)
    /\ UNCHANGED <<signal, canceller, used>>

\* The final transaction fails.  The outer handler tries once more, with an
\* error for its reason, and gives up when it was the one that failed.
FinishFault(p) ==
    /\ proc[p].pc \in {"finishing", "failing"} /\ used.faults < MaxFaults
    /\ IF At(p, "failing") \/ proc[p].handler THEN Leave(p) ELSE Raise(p)
    /\ used' = [used EXCEPT !.faults = @ + 1]
    /\ UNCHANGED <<run, lease, signal, canceller>>

-----------------------------------------------------------------------------
(* Heartbeats, leases, crashes and the reconciler.                         *)

Beats(r) == \E p \in Procs : proc[p].run = r /\ proc[p].beat

Heartbeat(p) ==
    LET r == proc[p].run
    IN  /\ proc[p].beat
        /\ IF Ours(p) /\ run[r].status \in Owned
           THEN /\ run' = [run EXCEPT ![r].live = TRUE]
                /\ UNCHANGED <<proc, signal>>
           ELSE /\ signal' = [signal EXCEPT ![p] = "run_lease_lost"]
                /\ proc' = [proc EXCEPT ![p].beat = FALSE]
                /\ UNCHANGED run
        /\ UNCHANGED <<lease, canceller, used>>

\* heartbeat_run raises (database is locked) and nothing catches it.
HeartbeatFault(p) ==
    /\ proc[p].beat /\ used.faults < MaxFaults
    /\ proc' = [proc EXCEPT ![p].beat = FALSE]
    /\ used' = [used EXCEPT !.faults = @ + 1]
    /\ UNCHANGED <<run, lease, signal, canceller>>

\* lease_until passes: no heartbeat, or the process was held up for as long.
Expire(r) ==
    /\ Active(r) /\ run[r].live
    /\ Beats(r) => used.stalls < MaxStalls
    /\ run' = [run EXCEPT ![r].live = FALSE]
    /\ used' = IF Beats(r) THEN [used EXCEPT !.stalls = @ + 1] ELSE used
    /\ UNCHANGED <<lease, proc, signal, canceller>>

\* A process dies.  The owner id it used is never used again.
Crash(p) ==
    /\ ~At(p, "down") /\ used.crashes < MaxCrashes
    /\ proc' = [proc EXCEPT ![p] = [Idle EXCEPT !.pc = "down"]]
    /\ run' = [r \in Runs |-> IF run[r].owner = p THEN [run[r] EXCEPT !.owner = "gone"]
                                                  ELSE run[r]]
    /\ signal' = [signal EXCEPT ![p] = NULL]
    /\ canceller' = [canceller EXCEPT ![p] = "none"]
    /\ used' = [used EXCEPT !.crashes = @ + 1]
    /\ UNCHANGED lease

Restart(p) ==
    /\ At(p, "down")
    /\ Leave(p)
    /\ UNCHANGED <<run, lease, signal, canceller, used>>

\* A mutant: a comparison with a null owner is not true.
AbandonedOwned(p) ==
    {r \in Runs : Active(r) /\ run[r].owner \notin {p, NULL} /\ ~run[r].live}

Abandoned(p) == {r \in Runs : Active(r) /\ run[r].owner # p /\ ~run[r].live}

\* reconcile_abandoned_runs: at startup, and periodically.
Reconcile(p) ==
    /\ ~At(p, "down")
    /\ run' = [r \in Runs |-> IF r \in Abandoned(p) THEN Ended(run[r], "interrupted", TRUE)
                                                    ELSE run[r]]
    /\ lease' = IF lease # 0 /\ ~run[lease].live THEN 0 ELSE lease
    /\ UNCHANGED <<proc, signal, canceller, used>>

-----------------------------------------------------------------------------
(* Cancellation: the database, then the signal of this process, then the   *)
(* prompts of this process that are registered.                            *)

Cancelling(r) ==
    run' = [run EXCEPT ![r].status = "cancelling", ![r].cancel = TRUE,
                       ![r].live = IF run[r].status = "queued" THEN TRUE ELSE @]

RequestCancel(p) ==
    /\ ~At(p, "down") /\ canceller[p] = "none"
    /\ canceller' = [canceller EXCEPT ![p] = "signal"]

\* POST /runs/{run_id}/cancel.
CancelRun(p, r) ==
    /\ RequestCancel(p)
    /\ Active(r) /\ used.cancels < MaxCancels
    /\ used' = [used EXCEPT !.cancels = @ + 1]
    /\ IF run[r].status = "cancelling" THEN UNCHANGED run ELSE Cancelling(r)
    /\ UNCHANGED <<lease, proc, signal>>

\* POST /sessions/{session_id}/interrupt: the latest active run, if any.
InterruptSession(p) ==
    /\ RequestCancel(p)
    /\ used.interrupts < MaxInterrupts
    /\ used' = [used EXCEPT !.interrupts = @ + 1]
    /\ IF \E r \in Runs : Active(r) /\ \A s \in Runs : s > r => ~Active(s)
       THEN \E r \in Runs :
               /\ Active(r) /\ \A s \in Runs : s > r => ~Active(s)
               /\ IF run[r].status = "cancelling" THEN UNCHANGED run ELSE Cancelling(r)
       ELSE UNCHANGED run
    /\ UNCHANGED <<lease, proc, signal>>

SendSignal(p) ==
    /\ canceller[p] = "signal"
    /\ signal' = [signal EXCEPT ![p] = "user_cancelled"]
    /\ canceller' = [canceller EXCEPT ![p] = "prompts"]
    /\ UNCHANGED <<run, lease, proc, used>>

RejectPrompts(p) ==
    /\ canceller[p] = "prompts"
    /\ IF At(p, "waiting") THEN Goto(p, "answered") ELSE UNCHANGED proc
    /\ canceller' = [canceller EXCEPT ![p] = "none"]
    /\ UNCHANGED <<run, lease, signal, used>>

-----------------------------------------------------------------------------
\* What a process does by itself once a run is requested.
Work(p) ==
    \/ \E r \in Runs : CreateRun(p, r)
    \/ StartRun(p) \/ OpenMessage(p) \/ Guard(p) \/ GuardSignal(p) \/ Stop(p)
    \/ Checkpoint(p) \/ Stream(p) \/ StartCall(p) \/ Ask(p) \/ Resume(p) \/ EndCall(p)
    \/ Finish(p) \/ FinishEarly(p)

Next ==
    \/ \E p \in Procs :
          \/ Accept(p) \/ Work(p) \/ Reply(p) \/ CancelTask(p) \/ CancelOpening(p)
          \/ CancelEnding(p) \/ OpenFault(p) \/ FinishFault(p)
          \/ Heartbeat(p) \/ HeartbeatFault(p) \/ Crash(p) \/ Restart(p) \/ Reconcile(p)
          \/ \E r \in Runs : CancelRun(p, r)
          \/ InterruptSession(p) \/ SendSignal(p) \/ RejectPrompts(p)
    \/ \E r \in Runs : Expire(r)

\* A run that is requested goes on: models answer and tools return.  A process
\* that died is started again, leases run out and every process reconciles.
\* Users need not answer a prompt.
Fairness ==
    /\ \A p \in Procs : WF_vars(Work(p)) /\ WF_vars(Restart(p)) /\ WF_vars(Reconcile(p))
    /\ \A r \in Runs : WF_vars(Expire(r))

Spec == Init /\ [][Next]_vars /\ Fairness

-----------------------------------------------------------------------------
(* Properties.                                                             *)

TypeOK ==
    /\ run \in [Runs -> [status : RunStatus, owner : Procs \cup {NULL, "gone"},
                         live : BOOLEAN, cancel : BOOLEAN, message : BOOLEAN,
                         event : BOOLEAN]]
    /\ lease \in {0} \cup Runs
    /\ proc \in [Procs -> [pc : {"idle", "down", "creating", "starting", "opening", "stopping",
                                 "finishing", "failing"} \cup Loop,
                           run : {0} \cup Runs, turns : 0 .. MaxTurns, calls : 0 .. MaxCalls,
                           beat : BOOLEAN, reason : Reasons \cup {NULL}, handler : BOOLEAN]]
    /\ signal \in [Procs -> Signals \cup {NULL}]
    /\ canceller \in [Procs -> {"none", "signal", "prompts"}]
    /\ used \in [cancels : 0 .. MaxCancels, interrupts : 0 .. MaxInterrupts,
                 crashes : 0 .. MaxCrashes, stalls : 0 .. MaxStalls, faults : 0 .. MaxFaults]

\* A run that has ended keeps its status, owner and outbox row, whatever a
\* worker that lost it, a late cancellation or the reconciler do next.
EndedIsFinal ==
    [][\A r \in Runs : run[r].status \in Terminal =>
           run'[r] = [run[r] EXCEPT !.message = run'[r].message]]_vars

\* A run with an assistant message ends together with its outbox event, by
\* whichever of its worker and the reconciler ends it, and not before.
EndedRunIsPublished ==
    \A r \in Runs :
        /\ run[r].status \in Terminal /\ run[r].message => run[r].event
        /\ run[r].event => run[r].status \in Terminal

\* The session's lease is held by a run that was started and has not ended:
\* no ending, however reached, leaves the session locked behind it.
LeaseNamesOwnedRun == lease # 0 => run[lease].status \in Owned /\ run[lease].owner # NULL

\* As long as no process is held up for a whole lease, and no transaction of
\* a heartbeat or an ending fails, one process at a time works on the session, whatever
\* is cancelled, crashes, restarts and is reconciled.
ExclusiveUntilStall ==
    used.stalls = 0 /\ used.faults = 0 =>
        \A p, q \in Procs : proc[p].pc \in Loop /\ proc[q].pc \in Loop => p = q

AwaitsUser(r) == \E p \in Procs : proc[p].run = r /\ At(p, "waiting")

\* Its process lives and has given it up: both final transactions failed, or the handler
\* was cancelled in turn, or had to end a run whose message was never written.  The
\* reconciler passes over the runs of its own process.
GivenUp(r) == \E p \in Procs : run[r].owner = p /\ proc[p].run # r

\* No limit ends it: the model goes on asking for tools.
AsksTheModel(r) == r \in Unlimited /\ \E p \in Procs : proc[p].run = r /\ At(p, "model")

\* Every run ends, after cancellations, crashes and lost leases, unless it waits
\* for the user's answer to a prompt, its process could not write its end, or it has no
\* limit and its model never stops asking for tools.
EveryRunEnds ==
    \A r \in Runs :
        (Active(r) ~> ~Active(r) \/ AwaitsUser(r) \/ GivenUp(r)) \/ []<>AsksTheModel(r)

-----------------------------------------------------------------------------
(* What comments and documents say and the code does not keep.             *)

\* docs/guides/subagents.md:38: timeout and interruption remain distinct
\* terminal states.  The run of an agent that its parent stops is completed.
StoppedIsNotCompleted ==
    [][\A p \in Procs :
           /\ At(p, "finishing") /\ proc[p].reason \in {"timed_out", "parent_cancelled"}
           /\ Active(proc[p].run)
           => run'[proc[p].run].status # "completed"]_vars
=============================================================================
