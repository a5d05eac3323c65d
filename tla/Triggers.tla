------------------------------ MODULE Triggers ------------------------------
(***************************************************************************)
(* What starts a run of a session: a scheduled job, a chat message or the  *)
(* two requests of a user, one that posts a message and one that runs the  *)
(* session.  Each of the first two posts its message and then runs the     *)
(* session, under the lock that api/app.py keeps for it; a run answers     *)
(* the newest user message it finds, whoever posted it.                    *)
(*                                                                         *)
(* There is one session, bound to the chat: it exists already, or the      *)
(* first chat message creates it.                                          *)
(***************************************************************************)
EXTENDS CronJobs, Channels

CONSTANTS
    MaxRequests,     \* bound: requests of a user
    MaxEvents        \* bound: requests, deliveries, reloads and restarts in all

ASSUME TriggerAssumption == {MaxRequests, MaxEvents} \subseteq Nat

Starters == Executors \cup {"bridge", "user"}

VARIABLES
    session,     \* the chat is bound to the session, which exists
    log,         \* its user messages: whether their text is there, and a run
    lock,        \* which starter holds the session's lock
    turn,        \* what each starter is doing
    requests

turns == <<session, log, lock, turn, requests>>
vars  == <<cron, channels, turns>>

\* own is the message the starter posted, answers the one its run took.
NoTurn == [stage |-> "idle", own |-> 0, answers |-> 0, again |-> FALSE]

Init ==
    /\ CronInit /\ ChannelsInit
    /\ session \in BOOLEAN
    /\ log = <<>>
    /\ lock = NULL
    /\ turn = [e \in Starters |-> NoTurn]
    /\ requests = 0

SetTurn(e, new) == turn' = [turn EXCEPT ![e] = new]
Moves(e, stage) == SetTurn(e, [turn[e] EXCEPT !.stage = stage])

-----------------------------------------------------------------------------
(* Who starts a turn.                                                      *)

\* _execute_cron_job is called.
JobTurn(e) ==
    /\ exec[e].stage = "turn" /\ turn[e].stage = "idle"
    /\ Moves(e, "posting")
    /\ UNCHANGED <<cron, channels, session, log, lock, requests>>

\* _resolve_or_create_channel_session, and _process_channel_inbound goes on.
ChatTurn ==
    /\ bridge # None /\ turn["bridge"].stage = "idle"
    /\ session' = TRUE
    /\ Moves("bridge", "posting")
    /\ UNCHANGED <<cron, channels, log, lock, requests>>

UserAsks(stage) ==
    /\ session /\ turn["user"].stage = "idle" /\ requests < MaxRequests
    /\ requests' = requests + 1
    /\ Moves("user", stage)
    /\ UNCHANGED <<cron, channels, session, log, lock>>

-----------------------------------------------------------------------------
(* A turn.                                                                 *)

\* add_user_message stores the message and then, in a transaction of its own,
\* its text.
PostMessage(e) ==
    /\ turn[e].stage = "posting"
    /\ log' = Append(log, [text |-> FALSE, run |-> FALSE])
    /\ SetTurn(e, [turn[e] EXCEPT !.stage = "writing", !.own = Len(log) + 1])
    /\ UNCHANGED <<cron, channels, session, lock, requests>>

PostText(e) ==
    /\ turn[e].stage = "writing"
    /\ log' = [log EXCEPT ![turn[e].own].text = TRUE]
    /\ SetTurn(e, IF e = "user" THEN NoTurn ELSE [turn[e] EXCEPT !.stage = "waiting"])
    /\ UNCHANGED <<cron, channels, session, lock, requests>>

\* _run_agent_once: one run of the session at a time.
Acquire(e) ==
    /\ turn[e].stage = "waiting" /\ lock = NULL
    /\ lock' = e
    /\ Moves(e, "starting")
    /\ UNCHANGED <<cron, channels, session, log, requests>>

\* A mutant: the messages are answered in the order they came.
NextUnanswered == CHOOSE n \in 1 .. Len(log) :
                      \/ ~log[n].run /\ \A k \in 1 .. n - 1 : log[k].run
                      \/ n = Len(log) /\ \A k \in 1 .. Len(log) : log[k].run

\* The newest user message of the history the run has read.
Trigger == Len(log)

\* The run is created and takes its message, unless another run has.
Takes == Len(log) > 0 /\ ~log[Trigger].run

StartRun(e) ==
    /\ turn[e].stage = "starting" /\ Takes
    /\ log' = [log EXCEPT ![Trigger].run = TRUE]
    /\ SetTurn(e, [turn[e] EXCEPT !.stage = "running", !.answers = Trigger])
    /\ UNCHANGED <<cron, channels, session, lock, requests>>

\* What the turn came to: the caller of the service learns it.
Reports(e, ok) ==
    CASE e \in Executors ->
            /\ TurnEnds(e)
            /\ SetTurn(e, NoTurn)
            /\ UNCHANGED <<now, job, unfinished, tick, asked, restarts, changes, channels>>
      [] e = "bridge" ->
            \/ /\ HandledMessage(ok)
               /\ SetTurn(e, NoTurn)
               /\ UNCHANGED <<manager, reload, inbound, delivered, connects, cron>>
            \* When Langfuse is configured, _handle_one calls the workflow once more.
            \/ /\ ~ok /\ ~turn[e].again
               /\ SetTurn(e, [NoTurn EXCEPT !.stage = "posting", !.again = TRUE])
               /\ UNCHANGED <<cron, channels>>
      [] e = "user" ->
            /\ SetTurn(e, NoTurn)
            /\ UNCHANGED <<cron, channels>>

\* A mutant: a run that raises leaves the lock behind.
HeldOnError(ok) == IF ok THEN NULL ELSE lock

\* The lock is released on every way out.
LockAfter(ok) == NULL

\* The run that finds its message taken fails; so may any other before it takes
\* one, and the message stays for the next.
EndTurn(e) ==
    \E ok \in BOOLEAN :
        /\ \/ turn[e].stage = "starting" /\ ~ok
           \/ turn[e].stage = "running"
        /\ Reports(e, ok)
        /\ lock' = LockAfter(ok)
        /\ UNCHANGED <<session, log, requests>>

\* No timer ends the run: it waits for an approval, which only the run of a chat
\* is refused at once, or its agent has no limits and goes on.
Lingers(e) ==
    /\ turn[e].stage = "running"
    /\ Moves(e, "lingering")
    /\ UNCHANGED <<cron, channels, session, log, lock, requests>>

\* Until a user answers, or cancels the run.
UserAnswers(e) ==
    /\ turn[e].stage = "lingering"
    /\ Moves(e, "running")
    /\ UNCHANGED <<cron, channels, session, log, lock, requests>>

\* The process starts again: what was under way is gone, in every service.
Restart ==
    /\ CronRestart /\ ChannelsRestart
    /\ lock' = NULL
    /\ turn' = [e \in Starters |-> NoTurn]
    /\ UNCHANGED <<session, log, requests>>

-----------------------------------------------------------------------------

TurnStep(e) ==
    \/ PostMessage(e) \/ PostText(e) \/ Acquire(e) \/ StartRun(e) \/ EndTurn(e)

\* What a task of the process does of its own accord.
LoopStep == ReadDue \/ ExecuteDue

Work(e) ==
    \/ TurnStep(e)
    \/ e \in Executors /\ JobTurn(e)
    \/ e \in Executors /\ (RecordRun(e) \/ Settle(e)) /\ UNCHANGED <<channels, turns>>
    \/ e = "loop" /\ LoopStep /\ UNCHANGED <<channels, turns>>
    \/ e = "bridge" /\ ChatTurn
    \/ e = "bridge" /\ Take /\ UNCHANGED <<cron, turns>>

Reloads == (Current - 1) + Cardinality({q \in Reloaders : reload[q] # 0})
Events  == changes + restarts + connects + requests + Reloads
               + FoldSet(LAMBDA c, n : n + delivered[c], 0, Chat)
Room    == Events < MaxEvents

\* Of a recurring job nothing asks whether it is to be deleted after a run.
CronRequest ==
    \/ \E j \in Jobs, kind \in {"at", "every"}, once \in BOOLEAN :
          /\ session /\ (once => kind = "at")
          /\ Create(j, kind, IF kind = "at" THEN now + 1 ELSE NULL, once)
    \/ \E j \in Jobs : SetEnabled(j, TRUE) \/ SetEnabled(j, FALSE) \/ Delete(j)
    \/ \E j \in Jobs, force \in BOOLEAN : RunNow(j, force)

ChannelEvent ==
    \/ \E m \in 1 .. Current, c \in Chat : Deliver(m, c)
    \/ \E q \in Reloaders : StopAll(q)
    \/ Connect \/ Disconnect

ChannelStep ==
    \/ \E m \in 1 .. Current : ThreadEnds(m) \/ Dispatch(m) \/ Send(m)
    \/ \E q \in Reloaders : StartAll(q)

Next ==
    \/ \E e \in Starters : Work(e) \/ Lingers(e) \/ UserAnswers(e)
    \/ Pass /\ UNCHANGED <<channels, turns>>
    \/ ChannelStep /\ UNCHANGED <<cron, turns>>
    \/ Room /\ CronRequest /\ UNCHANGED <<channels, turns>>
    \/ Room /\ ChannelEvent /\ UNCHANGED <<cron, turns>>
    \/ Room /\ UserAsks("posting")
    \/ Room /\ UserAsks("waiting")
    \/ Room /\ Restart

\* The tasks of the process go on, and a run that waits for nobody comes to its
\* end.  A task that waits for the session's lock gets it, for the lock serves
\* those who wait in turn: it can go on again and again, and does.  Of users
\* nothing is assumed.
Fairness == \A e \in Starters : SF_vars(Work(e))

Spec == Init /\ [][Next]_vars /\ Fairness

-----------------------------------------------------------------------------
(* Properties.                                                             *)

\* The reply that goes back to a chat, or that a job's execution records, was
\* written with the message in view: the run that gives it took that message or
\* a later one, and its text was there, however posts and runs of the other
\* starters came between.
ReplySawItsMessage ==
    \A e \in Starters : turn[e].stage \in {"running", "lingering"} /\ turn[e].own > 0 =>
        turn[e].own <= turn[e].answers /\ log[turn[e].own].text

\* A job obeys the last request that switched it, whatever executions, forced runs
\* and restarts come after: a job that was stopped stays so and the loop does not
\* execute it, a recurring one that was started stays enabled, and one that is
\* enabled has a time to wake.  The exception is a request that meets an execution
\* under way, or due, with a copy of the row from before: the copy undoes it.
SwitchesAreObeyed ==
    \A j \in Jobs : job[j].there =>
        /\ asked[j] = "off" => ~job[j].enabled /\ exec["loop"].job # j
        /\ job[j].kind = "every" =>
              /\ asked[j] = "on" => job[j].enabled
              /\ job[j].enabled <=> job[j].next # NULL

\* Whoever has an approval to give gives it in the end, or cancels the run, and a
\* run without limits is cancelled.
UsersAnswer == \A e \in Starters : []<>(turn[e].stage # "lingering")

\* Where users answer, a job that is due is dealt with: it does not stay due for
\* ever behind another job, a request that executes it, a turn that waits or a
\* restart.
DueJobsRun == UsersAnswer => \A j \in Jobs : []<>~IsDue(j)
=============================================================================
