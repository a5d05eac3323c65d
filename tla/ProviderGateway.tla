--------------------------- MODULE ProviderGateway ---------------------------
(***************************************************************************)
(* The model requests of runs: ProviderGateway of                          *)
(* src/nexapilot/llm/gateway.py with the route of llm/routing.py, its      *)
(* ledger (llm_calls, llm_call_attempts) and the circuits of               *)
(* store/sqlite.py (provider_circuits), which all runs of all processes    *)
(* share.                                                                  *)
(*                                                                         *)
(* A run asks for one stream after another.  A stream goes through the     *)
(* targets of the route in order; each is one call with attempts.  The     *)
(* rows of a call are written by its own stream only, so a run's ledger    *)
(* changes together with the control of its stream; the transactions on a  *)
(* circuit are actions of their own.                                       *)
(*                                                                         *)
(* Each target is of a provider of its own, and the targets are numbered   *)
(* as the route lists them.  Time is what the circuits compare it with:    *)
(* whether the failure window still lasts and whether retry_at has come.   *)
(***************************************************************************)
EXTENDS Integers, Sequences, FiniteSets

CONSTANTS
    Runs,           \* the runs that use the route
    NTargets,       \* how many targets it has
    MaxAttempts,    \* resilience.retry.max_attempts: attempts of a call
    RouteAttempts,  \* max_total_attempts of the route: attempts of a stream
    RunAttempts,    \* budgets.max_attempts_per_run
    RunCalls,       \* budgets.max_calls_per_run
    Threshold,      \* circuit_breaker.failure_threshold
    FallbackOn,     \* fallback_on of the route
    MaxStreams,     \* bound: the streams of a run
    NULL

ASSUME GatewayAssumption ==
    /\ {NTargets, MaxAttempts, RouteAttempts, RunAttempts, RunCalls, Threshold, MaxStreams}
          \subseteq Nat \ {0}
    /\ FallbackOn \subseteq {"transient", "circuit_open", "missing"}

Targets == 1 .. NTargets

\* The categories of errors, by what follows from them.  transient: connection,
\* timeout, rate limit, server; refused: those of the request or the account;
\* missing: the model is not there; closed: the generator was.
Errors    == {"transient", "protocol", "refused", "missing", "closed", "circuit_open", "budget"}
Retryable == {"transient", "protocol"}

VARIABLES
    circuit,    \* the rows of provider_circuits
    calls,      \* the rows of llm_calls of each run
    attempts,   \* the rows of llm_call_attempts of each run
    stream,     \* the stream each run is at
    state       \* whose provider state the messages of each run hold

vars == <<circuit, calls, attempts, stream, state>>

ledger == <<calls, attempts>>

\* fresh: the failure window lasts; due: retry_at has come.  half_open_owner is
\* left out: every attempt asks with an id of its own, so none is ever equal.
Closed == [status |-> "closed", failures |-> 0, fresh |-> TRUE, due |-> FALSE]

\* speakers: the attempts of this stream that gave semantic output (only the
\* properties read it); late: the circuit opened under the attempt (likewise).
NoStream == [pc |-> "idle", plans |-> {}, from |-> 0, attempt |-> 0, budget |-> 0,
             output |-> FALSE, error |-> NULL, begun |-> 0, replay |-> TRUE, rebuilt |-> FALSE,
             speakers |-> {}, late |-> FALSE]

Init ==
    /\ circuit = [t \in Targets |-> Closed]
    /\ calls = [r \in Runs |-> <<>>]
    /\ attempts = [r \in Runs |-> <<>>]
    /\ stream = [r \in Runs |-> NoStream]
    /\ state = [r \in Runs |-> {}]

-----------------------------------------------------------------------------
At(r, pc) == stream[r].pc = pc

\* The target of the current call: the first of the plans that are left.
Target(r) == CHOOSE t \in stream[r].plans : \A u \in stream[r].plans : t <= u

Last(s) == s[Len(s)]

Open(status) == status \in {"planned", "running", "retrying"}

\* finish_llm_call and finish_llm_attempt change a row that is still open.
FinishCall(r, status) ==
    calls' = [calls EXCEPT ![r][Len(calls[r])].status = IF Open(@) THEN status ELSE @]
FinishAttempt(r, status) ==
    attempts' = [attempts EXCEPT ![r][Len(attempts[r])].status =
                    IF @ = "running" THEN status ELSE @]

Goto(r, pc) == stream' = [stream EXCEPT ![r].pc = pc]

\* The stream raises: the next plan may be tried.
Raise(r, error) == stream' = [stream EXCEPT ![r].pc = "failed", ![r].error = error]

\* The stream is over.
Leave(r, pc, error) ==
    stream' = [stream EXCEPT ![r] =
        [NoStream EXCEPT !.pc = pc, !.error = error, !.begun = stream[r].begun,
                         !.replay = stream[r].replay]]

\* A request the provider refused before any output may be rebuilt once by the
\* session loop; any other error ends the run.
EndWith(r, error) ==
    IF error = "refused" /\ ~stream[r].output /\ ~stream[r].rebuilt
    THEN Leave(r, "idle", error)
    ELSE Leave(r, "done", NULL)

-----------------------------------------------------------------------------
(* The route.                                                              *)

\* ModelRouter.plan: a target is left out when it lacks what the request needs;
\* a request with provider state stays with the first provider of the list.
Candidates(r) == {C \in SUBSET Targets : state[r] # {} => C \subseteq {1}}

BeginStream(r) ==
    /\ At(r, "idle") /\ stream[r].begun < MaxStreams
    /\ \E C \in Candidates(r) :
          IF C = {}
          THEN /\ calls' = [calls EXCEPT ![r] = Append(@, [target |-> 0, status |-> "failed",
                                                           output |-> FALSE, from |-> 0])]
               /\ Leave(r, "done", NULL)
          ELSE /\ stream' = [stream EXCEPT ![r] =
                    [NoStream EXCEPT !.pc = "planned", !.plans = C, !.budget = RouteAttempts,
                                     !.rebuilt = stream[r].error = "refused",
                                     !.begun = stream[r].begun + 1, !.replay = stream[r].replay]]
               /\ UNCHANGED calls
    /\ UNCHANGED <<circuit, attempts, state>>

\* The provider did not accept the state it was sent: none is sent any more.
Quarantine(r) ==
    /\ At(r, "idle") /\ stream[r].error = "refused" /\ stream[r].replay
    /\ state' = [state EXCEPT ![r] = {}]
    /\ stream' = [stream EXCEPT ![r].replay = FALSE]
    /\ UNCHANGED <<circuit, ledger>>

\* A mutant: one attempt of the run too many.
OverBudgetLate(r) == Len(attempts[r]) > RunAttempts

Spent(r)      == stream[r].budget <= 0
OverBudget(r) == Len(attempts[r]) >= RunAttempts

CreateCall(r) ==
    /\ At(r, "planned")
    /\ IF Spent(r) \/ OverBudget(r) \/ Len(calls[r]) >= RunCalls
       THEN EndWith(r, "budget") /\ UNCHANGED calls
       ELSE /\ calls' = [calls EXCEPT ![r] = Append(@, [target |-> Target(r), status |-> "planned",
                                                        output |-> FALSE, from |-> stream[r].from])]
            /\ stream' = [stream EXCEPT ![r].pc = "created", ![r].attempt = 0]
    /\ UNCHANGED <<circuit, attempts, state>>

\* A mutant: the next model takes over after partial output.
FallbackAnyway(r) ==
    /\ Cardinality(stream[r].plans) > 1
    /\ stream[r].error \in FallbackOn

FallbackAllowed(r) ==
    /\ Cardinality(stream[r].plans) > 1
    /\ ~stream[r].output
    /\ stream[r].error \in FallbackOn

\* On to the next plan, or out with the error.
Fallback(r) ==
    /\ At(r, "failed")
    /\ IF FallbackAllowed(r)
       THEN IF Spent(r) THEN EndWith(r, "budget")
            ELSE stream' = [stream EXCEPT ![r].pc = "planned", ![r].plans = @ \ {Target(r)},
                                          ![r].from = Len(calls[r]), ![r].output = FALSE,
                                          ![r].error = NULL]
       ELSE EndWith(r, stream[r].error)
    /\ UNCHANGED <<circuit, ledger, state>>

-----------------------------------------------------------------------------
(* One attempt of a call.                                                  *)

EnterCall(r) ==
    /\ At(r, "created")
    /\ Goto(r, "attempting")
    /\ UNCHANGED <<circuit, ledger, state>>

\* Out of attempts for the stream: the call fails.  For the run: it is left.
BeginAttempt(r) ==
    /\ At(r, "attempting")
    /\ IF Spent(r) THEN Raise(r, "budget") /\ FinishCall(r, "failed")
       ELSE IF OverBudget(r) THEN Raise(r, "budget") /\ UNCHANGED calls
       ELSE /\ stream' = [stream EXCEPT ![r].pc = "acquiring", ![r].budget = @ - 1,
                                        ![r].attempt = @ + 1, ![r].output = FALSE]
            /\ UNCHANGED calls
    /\ UNCHANGED <<circuit, attempts, state>>

\* A mutant: a half-open circuit lets everyone through.
AdmitsAll(c) == c.status \in {"closed", "half_open"} \/ c.due

Admits(c) == c.status = "closed" \/ (c.status = "open" /\ c.due)

\* acquire_provider_circuit.
Acquire(r) ==
    LET t == Target(r)
    IN  /\ At(r, "acquiring")
        /\ IF Admits(circuit[t])
           THEN /\ stream' = [stream EXCEPT ![r].pc = "starting", ![r].late = FALSE]
                /\ circuit' = IF circuit[t].status = "open"
                              THEN [circuit EXCEPT ![t].status = "half_open", ![t].due = FALSE]
                              ELSE circuit
                /\ UNCHANGED calls
           ELSE /\ Raise(r, "circuit_open")
                /\ FinishCall(r, "failed")
                /\ UNCHANGED circuit
        /\ UNCHANGED <<attempts, state>>

StartAttempt(r) ==
    /\ At(r, "starting")
    /\ attempts' = [attempts EXCEPT ![r] = Append(@, [call |-> Len(calls[r]), status |-> "running"])]
    /\ calls' = [calls EXCEPT ![r][Len(calls[r])].status =
                    IF @ \in {"planned", "retrying"} THEN "running" ELSE @]
    /\ Goto(r, "started")
    /\ UNCHANGED <<circuit, state>>

\* The attempt has its row and is announced; only now does a handler cover it.
EnterAttempt(r) ==
    /\ At(r, "started")
    /\ Goto(r, "streaming")
    /\ UNCHANGED <<circuit, ledger, state>>

\* Semantic output: recorded, then yielded to the loop, which keeps it.
Output(r) ==
    /\ At(r, "streaming")
    /\ calls' = [calls EXCEPT ![r][Len(calls[r])].output = TRUE]
    /\ stream' = [stream EXCEPT ![r].output = TRUE,
                                ![r].speakers = @ \cup {Len(attempts[r])}]
    /\ \/ UNCHANGED state
       \/ stream[r].replay /\ state' = [state EXCEPT ![r] = @ \cup {Target(r)}]
    /\ UNCHANGED <<circuit, attempts>>

Complete(r) ==
    /\ At(r, "streaming")
    /\ FinishAttempt(r, "completed")
    /\ Goto(r, "completing")
    /\ UNCHANGED <<circuit, calls, state>>

CompleteCall(r) ==
    /\ At(r, "completing")
    /\ FinishCall(r, "completed")
    /\ Goto(r, "succeeded")
    /\ UNCHANGED <<circuit, attempts, state>>

Broken(r) == IF stream[r].output THEN "interrupted" ELSE "failed"

\* The attempt breaks; the handler of errors has not written its row yet.
Break(r, error) ==
    /\ At(r, "streaming")
    /\ stream' = [stream EXCEPT ![r].pc = "failing", ![r].error = error]
    /\ UNCHANGED <<circuit, ledger, state>>

FailAttempt(r) ==
    /\ At(r, "failing")
    /\ FinishAttempt(r, Broken(r))
    /\ Goto(r, "recording")
    /\ UNCHANGED <<circuit, calls, state>>

\* A mutant: partial output does not stop the retries.
RetryAnyway(r) == stream[r].error \in Retryable /\ stream[r].attempt < MaxAttempts

CanRetry(r) ==
    /\ ~stream[r].output
    /\ stream[r].error \in Retryable
    /\ stream[r].attempt < MaxAttempts

\* The rest of the error handler.
HandleFailure(r) ==
    /\ At(r, "recorded")
    /\ IF CanRetry(r)
       THEN /\ calls' = [calls EXCEPT ![r][Len(calls[r])].status =
                            IF @ = "running" THEN "retrying" ELSE @]
            /\ stream' = [stream EXCEPT ![r].pc = "attempting", ![r].error = NULL]
       ELSE FinishCall(r, Broken(r)) /\ Goto(r, "failed")
    /\ UNCHANGED <<circuit, attempts, state>>

-----------------------------------------------------------------------------
(* What an attempt reports to the circuit.                                 *)

\* record_provider_circuit_success, by whichever attempt it comes from.
RecordSuccess(r) ==
    /\ At(r, "succeeded")
    /\ circuit' = [circuit EXCEPT ![Target(r)] = Closed]
    /\ Leave(r, "idle", NULL)
    /\ UNCHANGED <<ledger, state>>

\* The row after a failure.  It is the count that decides, whatever the status:
\* a failure after the window closes a circuit that was open.
Failed(c) ==
    LET count == IF c.fresh THEN c.failures + 1 ELSE 1
    IN  [status |-> IF c.status = "half_open" \/ count >= Threshold THEN "open" ELSE "closed",
         failures |-> count, fresh |-> TRUE, due |-> FALSE]

\* record_provider_circuit_failure.
RecordFailure(r) ==
    LET t == Target(r)
        row == Failed(circuit[t])
    IN  /\ At(r, "recording")
        /\ IF stream[r].error \in Retryable
           THEN /\ circuit' = [circuit EXCEPT ![t] = row]
                /\ stream' = [s \in Runs |->
                      IF s = r THEN [stream[r] EXCEPT !.pc = "recorded"]
                      ELSE IF row.status = "open" /\ stream[s].plans # {} /\ Target(s) = t
                           THEN [stream[s] EXCEPT !.late = TRUE]
                           ELSE stream[s]]
           ELSE Goto(r, "recorded") /\ UNCHANGED circuit
        /\ UNCHANGED <<ledger, state>>

\* The failure window runs out.
WindowEnds(t) ==
    /\ circuit[t].failures > 0 /\ circuit[t].fresh
    /\ circuit' = [circuit EXCEPT ![t].fresh = FALSE]
    /\ UNCHANGED <<ledger, stream, state>>

RetryDue(t) ==
    /\ circuit[t].status = "open" /\ ~circuit[t].due
    /\ circuit' = [circuit EXCEPT ![t].due = TRUE]
    /\ UNCHANGED <<ledger, stream, state>>

-----------------------------------------------------------------------------
(* Cancellation.                                                           *)

Streaming == {"starting", "started", "streaming", "failing", "recording", "recorded",
              "completing", "succeeded"}

\* A mutant: the call is left as it is.
CancelAttemptOnly(r) == FinishAttempt(r, "cancelled") /\ UNCHANGED calls

\* Both handlers of CancelledError: the call is cancelled, if it is still open, and
\* inside the try the attempt too.
CancelRows(r) ==
    /\ FinishCall(r, "cancelled")
    /\ IF At(r, "streaming") THEN FinishAttempt(r, "cancelled") ELSE UNCHANGED attempts

\* The run is cancelled, or its task: at any await.  Before the call is entered
\* and after it was left no handler covers it, and no handler tells the circuit.
\* Before the try, and in the handler of errors, none covers the attempt.
Cancel(r) ==
    /\ stream[r].pc \in Streaming \cup {"planned", "created", "attempting", "acquiring", "failed"}
    /\ stream[r].error # "closed"
    /\ Leave(r, "done", NULL)
    /\ IF stream[r].pc \in {"planned", "created", "failed"} THEN UNCHANGED ledger
                                                           ELSE CancelRows(r)
    /\ UNCHANGED <<circuit, state>>

\* The loop leaves the stream between two events.  When the generator is closed
\* the handler of errors runs, in a task of its own.
Close(r) == Break(r, "closed")

-----------------------------------------------------------------------------
Work(r) ==
    \/ CreateCall(r) \/ Fallback(r) \/ EnterCall(r) \/ BeginAttempt(r) \/ Acquire(r)
    \/ StartAttempt(r) \/ EnterAttempt(r) \/ Complete(r) \/ CompleteCall(r)
    \/ \E error \in {"transient", "protocol", "refused", "missing"} : Break(r, error)
    \/ FailAttempt(r) \/ HandleFailure(r) \/ RecordSuccess(r) \/ RecordFailure(r)

Next ==
    \/ \E r \in Runs : \/ BeginStream(r) \/ Quarantine(r) \/ Work(r)
                       \/ Output(r) \/ Cancel(r) \/ Close(r)
    \/ \E t \in Targets : WindowEnds(t) \/ RetryDue(t)

\* An attempt ends, by itself or by a deadline, and its stream goes on; time
\* passes.  Requests need not come, nor need any be cancelled.
Fairness ==
    /\ \A r \in Runs : WF_vars(Work(r))
    /\ \A t \in Targets : WF_vars(RetryDue(t))

Spec == Init /\ [][Next]_vars /\ Fairness

-----------------------------------------------------------------------------
(* Properties.                                                             *)

CallType == [target : 0 .. NTargets, output : BOOLEAN, from : Nat,
             status : {"planned", "running", "retrying", "completed", "failed",
                       "interrupted", "cancelled"}]
AttemptType == [call : Nat, status : {"running", "completed", "failed", "interrupted",
                                      "cancelled"}]

StreamType == [pc : Streaming \cup {"idle", "planned", "created", "attempting", "acquiring",
                                    "failed", "done"},
               plans : SUBSET Targets, from : Nat, attempt : 0 .. MaxAttempts,
               budget : 0 .. RouteAttempts, output : BOOLEAN, error : Errors \cup {NULL},
               begun : Nat, replay : BOOLEAN, rebuilt : BOOLEAN, speakers : SUBSET Nat,
               late : BOOLEAN]
CircuitType == [status : {"closed", "open", "half_open"}, failures : Nat,
                fresh : BOOLEAN, due : BOOLEAN]

TypeOK ==
    /\ circuit \in [Targets -> CircuitType]
    /\ calls \in [Runs -> Seq(CallType)]
    /\ attempts \in [Runs -> Seq(AttemptType)]
    /\ stream \in [Runs -> StreamType]
    /\ state \in [Runs -> SUBSET Targets]

\* The semantic-output barrier: whatever fails, is retried, falls back or is
\* cancelled, the output of one stream is that of one attempt.
OneSpeaker == \A r \in Runs : Cardinality(stream[r].speakers) <= 1

\* The ledger tells causes apart: a failed call gave no output, an interrupted
\* one did, and a fallback comes from a failed call of an earlier target.
LedgerTellsCauses ==
    \A r \in Runs : \A i \in DOMAIN calls[r] :
        LET call == calls[r][i]
        IN  /\ call.status = "failed" => ~call.output
            /\ call.status = "interrupted" => call.output
            /\ call.from # 0 => /\ call.from < i
                                /\ calls[r][call.from].status = "failed"
                                /\ calls[r][call.from].target < call.target

\* What the ledger calls running is real: a call, while its stream is at it; an
\* attempt, while its stream is in it.  Only a cancellation that comes before
\* the try, or while a failure is written down, leaves an attempt running, and
\* the ledger then says of its call that it was cancelled.
RunningIsReal ==
    \A r \in Runs :
        /\ \A i \in DOMAIN calls[r] : calls[r][i].status = "running" =>
               i = Len(calls[r]) /\ stream[r].pc \in Streaming \ {"starting", "succeeded"}
        /\ \A i \in DOMAIN attempts[r] : attempts[r][i].status = "running" =>
               \/ i = Len(attempts[r]) /\ stream[r].pc \in {"started", "streaming", "failing"}
               \/ calls[r][attempts[r][i].call].status = "cancelled"

\* Retries and fallbacks together keep to the attempts of the route and of the
\* run, and each call to its own.
WithinBudgets ==
    \A r \in Runs :
        /\ Len(attempts[r]) <= RunAttempts
        /\ Len(attempts[r]) <= RouteAttempts * stream[r].begun
        /\ \A i \in DOMAIN calls[r] :
               Cardinality({a \in DOMAIN attempts[r] : attempts[r][a].call = i}) <= MaxAttempts

\* A target that is being probed has one attempt at most that was let in since
\* its circuit opened, whatever late answers of older attempts decide meanwhile.
SingleProbe ==
    \A t \in Targets : circuit[t].status = "half_open" =>
        Cardinality({r \in Runs : /\ stream[r].pc \in Streaming \ {"recorded"}
                                  /\ Target(r) = t /\ ~stream[r].late}) <= 1

=============================================================================
