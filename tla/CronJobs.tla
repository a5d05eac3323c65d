------------------------------ MODULE CronJobs ------------------------------
(***************************************************************************)
(* CronService of cron/service.py over the tables cron_jobs and            *)
(* cron_job_runs of store/sqlite.py, and the endpoints of api/app.py that  *)
(* manage jobs.  A job is executed by the service's loop, one job after    *)
(* another, or by a request to run it now; both work on the copy of the    *)
(* job they read before.  What an execution does in between, the turn of   *)
(* the agent, is in Triggers.                                              *)
(***************************************************************************)
EXTENDS Integers, Sequences, FiniteSets, SequencesExt

CONSTANTS
    Jobs,
    MaxTime,        \* bound: the clock
    MaxRestarts,    \* bound
    MaxChanges,     \* bound: requests that change or run a job
    NULL

ASSUME CronAssumption ==
    /\ IsFiniteSet(Jobs)
    /\ {MaxTime, MaxRestarts, MaxChanges} \subseteq Nat
    /\ NULL \notin Jobs \cup 0 .. MaxTime + 1

Executors == {"loop", "request"}

VARIABLES
    now,
    job,         \* the rows of cron_jobs
    unfinished,  \* how many rows of cron_job_runs are running
    tick,        \* the due jobs the loop has read and not executed, as it read them
    exec,        \* what each executor is doing
    asked,       \* history: what the last request to switch a job asked for,
                 \* "crossed" when it met a copy of the job that says otherwise
    restarts, changes

cron == <<now, job, unfinished, tick, exec, asked, restarts, changes>>

NoJob == [there |-> FALSE, kind |-> "every", at |-> NULL, enabled |-> FALSE,
          next |-> NULL, once |-> FALSE]
Rest  == [job |-> NULL, copy |-> NoJob, stage |-> "idle", ended |-> 0]

CronInit ==
    /\ now = 0
    /\ job = [j \in Jobs |-> NoJob]
    /\ unfinished = 0
    /\ tick = <<>>
    /\ exec = [e \in Executors |-> Rest]
    /\ asked = [j \in Jobs |-> "off"]
    /\ restarts = 0 /\ changes = 0

\* compute_next_run: a time that has passed is no time; the period of the
\* recurring kinds is one unit of the clock.
NextRun(j, t) == IF j.kind = "every" THEN t + 1 ELSE IF j.at > t THEN j.at ELSE NULL

Wake(j, t) == IF j.enabled THEN NextRun(j, t) ELSE NULL

Executing == {exec[e].job : e \in Executors} \ {NULL}

\* The copies of rows that executions work on, or will.
Copies == ToSet(tick) \cup {[job |-> exec[e].job, copy |-> exec[e].copy] : e \in Executors}

Pass ==
    /\ now < MaxTime
    /\ now' = now + 1
    /\ UNCHANGED <<job, unfinished, tick, exec, asked, restarts, changes>>

-----------------------------------------------------------------------------
(* The endpoints.                                                          *)

Request == changes < MaxChanges /\ changes' = changes + 1

\* create_job, with a schedule that validate_schedule accepts, under a new id.
Create(j, kind, at, once) ==
    LET row == [there |-> TRUE, kind |-> kind, at |-> at, enabled |-> TRUE, next |-> NULL,
                once |-> once]
    IN  /\ ~job[j].there /\ \A d \in Copies : d.job # j
        /\ Request
        /\ job' = [job EXCEPT ![j] = [row EXCEPT !.next = Wake(row, now)]]
        /\ asked' = [asked EXCEPT ![j] = "on"]
        /\ UNCHANGED <<now, unfinished, tick, exec, restarts>>

\* set_job_enabled.
SetEnabled(j, enabled) ==
    /\ job[j].there
    /\ Request
    /\ job' = [job EXCEPT ![j] = [@ EXCEPT !.enabled = enabled,
                                           !.next = IF enabled THEN NextRun(job[j], now) ELSE NULL]]
    /\ asked' = [asked EXCEPT ![j] = IF \E d \in Copies : d.job = j /\ d.copy.enabled # enabled
                                     THEN "crossed"
                                     ELSE IF enabled THEN "on" ELSE "off"]
    /\ UNCHANGED <<now, unfinished, tick, exec, restarts>>

Delete(j) ==
    /\ job[j].there
    /\ Request
    /\ job' = [job EXCEPT ![j] = NoJob]
    /\ asked' = [asked EXCEPT ![j] = "off"]
    /\ UNCHANGED <<now, unfinished, tick, exec, restarts>>

-----------------------------------------------------------------------------
(* The loop, and an execution.                                             *)

\* list_due_cron_jobs.
IsDue(j) == job[j].there /\ job[j].enabled /\ job[j].next # NULL /\ job[j].next <= now

\* The loop reads the jobs that are due, the earliest first.
ReadDue ==
    LET due == {j \in Jobs : IsDue(j)}
    IN  /\ tick = <<>> /\ exec["loop"].stage = "idle"
        /\ due # {}
        /\ \E order \in SetToSeqs(due) :
              /\ \A i, k \in DOMAIN order : i < k => job[order[i]].next <= job[order[k]].next
              /\ tick' = [i \in DOMAIN order |-> [job |-> order[i], copy |-> job[order[i]]]]
        /\ UNCHANGED <<now, job, unfinished, exec, asked, restarts, changes>>

\* _execute_job up to the call of on_job: the job is marked as executing and a
\* row of cron_job_runs is inserted.
Begin(e, j, copy) ==
    /\ j \notin Executing
    /\ unfinished' = unfinished + 1
    /\ exec' = [exec EXCEPT ![e] = [job |-> j, copy |-> copy, stage |-> "turn", ended |-> 0]]

\* The next of the jobs that were due, unless a request executes it already.
ExecuteDue ==
    /\ tick # <<>> /\ exec["loop"].stage = "idle"
    /\ tick' = Tail(tick)
    /\ \/ Begin("loop", Head(tick).job, Head(tick).copy)
       \/ Head(tick).job \in Executing /\ UNCHANGED <<unfinished, exec>>
    /\ UNCHANGED <<now, job, asked, restarts, changes>>

\* run_job: a disabled job only when forced.  While the job is executing the
\* request does nothing, and answers that it ran.
RunNow(j, force) ==
    /\ job[j].there /\ (force \/ job[j].enabled) /\ exec["request"].stage = "idle"
    /\ Request
    /\ Begin("request", j, job[j])
    /\ UNCHANGED <<now, job, tick, asked, restarts>>

\* on_job returned, or raised: the one and the other only differ in the row.
TurnEnds(e) ==
    /\ exec[e].stage = "turn"
    /\ exec' = [exec EXCEPT ![e].stage = "recording"]

\* finish_cron_job_run.
RecordRun(e) ==
    /\ exec[e].stage = "recording"
    /\ unfinished' = unfinished - 1
    /\ exec' = [exec EXCEPT ![e] = [@ EXCEPT !.stage = "settling", !.ended = now]]
    /\ UNCHANGED <<now, job, tick, asked, restarts, changes>>

\* A mutant: a recurring job that has run wakes again.
SettledOn(row, copy, ended) ==
    IF copy.kind = "at"
    THEN IF copy.once THEN NoJob ELSE [row EXCEPT !.enabled = FALSE, !.next = NULL]
    ELSE [row EXCEPT !.enabled = TRUE, !.next = NextRun(copy, ended)]

\* What the execution makes of the row, from the copy it was given: a one-shot
\* is spent, whoever ran it; a recurring job goes on as it was then.
Settled(row, copy, ended) ==
    IF copy.kind = "at"
    THEN IF copy.once THEN NoJob ELSE [row EXCEPT !.enabled = FALSE, !.next = NULL]
    ELSE [row EXCEPT !.enabled = copy.enabled, !.next = Wake(copy, ended)]

\* delete_cron_job or update_cron_job_runtime; a row that is gone stays so.
Settle(e) ==
    LET j == exec[e].job
    IN  /\ exec[e].stage = "settling"
        /\ job' = [job EXCEPT ![j] = IF @.there THEN Settled(@, exec[e].copy, exec[e].ended) ELSE @]
        /\ exec' = [exec EXCEPT ![e] = Rest]
        /\ UNCHANGED <<now, unfinished, tick, asked, restarts, changes>>

\* The process stops: what is executing is cancelled, its row of cron_job_runs
\* and the job's time stay as they are.  start() repairs the enabled jobs that
\* have no time.
CronRestart ==
    /\ restarts < MaxRestarts
    /\ restarts' = restarts + 1
    /\ tick' = <<>>
    /\ exec' = [e \in Executors |-> Rest]
    /\ job' = [j \in Jobs |-> IF job[j].next = NULL THEN [job[j] EXCEPT !.next = Wake(job[j], now)]
                                                    ELSE job[j]]
    /\ UNCHANGED <<now, unfinished, asked, changes>>
=============================================================================
