------------------------------- MODULE Outbox -------------------------------
(***************************************************************************)
(* The transactional outbox: the table outbox_events of                    *)
(* src/nexapilot/store/sqlite.py and the workers of outbox/worker.py.      *)
(*                                                                         *)
(* A runner is one execution of OutboxWorker.run_once: it claims a batch   *)
(* in one transaction, then handles the events one after another, awaiting *)
(* the handler and each database call in between.  The memory service and  *)
(* the task runtime own a worker each, with a background loop; and every   *)
(* task operation also calls run_once after its commit, under the worker   *)
(* id of the task runtime's loop (TaskRuntimeService._publish).            *)
(*                                                                         *)
(* Time is abstracted to what the code compares it with: whether the lease *)
(* of a claimed event has run out (stale) and whether the retry time of a  *)
(* pending one has come (due).                                             *)
(***************************************************************************)
EXTENDS Integers, Sequences, FiniteSets

CONSTANTS
    N,             \* bound: how many events are enqueued
    Publishers,    \* the task operations that may publish at the same time
    BatchSize,     \* batch_size
    MaxAttempts,   \* max_attempts
    MaxLapses,     \* bound: leases that run out under a runner still at work
    MaxDrops,      \* bound: batches dropped by a cancellation or a crash
    NULL

ASSUME OutboxAssumption ==
    /\ N \in Nat /\ MaxLapses \in Nat /\ MaxDrops \in Nat
    /\ BatchSize \in Nat \ {0} /\ MaxAttempts \in Nat \ {0}
    /\ Publishers \cap {"memory_loop", "task_loop"} = {}
    /\ NULL \notin {"memory", "task"}

Events == 1 .. N                 \* in the order of created_at and id

Loops   == {"memory_loop", "task_loop"}
Runners == Loops \cup Publishers
Worker(r) == IF r = "memory_loop" THEN "memory" ELSE "task"

\* Stand-ins for the event types: the memory service handles run.completed;
\* the task runtime handles the types of EVENT_TYPES, such as task.ready, and
\* transition_task also enqueues task.pending, which is not one of them.
Kinds == {"run.completed", "task.ready", "task.pending"}
Handles(w) == IF w = "memory" THEN {"run.completed"} ELSE {"task.ready"}

VARIABLES
    event,      \* the rows of outbox_events
    pc,         \* where each runner is
    batch,      \* the events each runner has still to handle, the current first
    dead,       \* mark_outbox_failed has read that the attempts are used up
    handled,    \* the events a handler completed for
    lapses, drops

vars == <<event, pc, batch, dead, handled, lapses, drops>>

NoEvent == [kind |-> "task.ready", status |-> "none", attempts |-> 0,
            owner |-> NULL, stale |-> FALSE, due |-> FALSE]

Init ==
    /\ event = [e \in Events |-> NoEvent]
    /\ pc = [r \in Runners |-> "idle"]
    /\ batch = [r \in Runners |-> <<>>]
    /\ dead = [r \in Runners |-> FALSE]
    /\ handled = {}
    /\ lapses = 0 /\ drops = 0

Held(e)     == \E r \in Runners : \E i \in 1 .. Len(batch[r]) : batch[r][i] = e
Current(r)  == Head(batch[r])
Owns(r, row) == row.status = "processing" /\ row.owner = Worker(r)

-----------------------------------------------------------------------------
(* The rows.                                                               *)

\* Inserted by the transaction that makes the change the event is about.
Enqueue(e, kind) ==
    /\ event[e].status = "none"
    /\ \A f \in Events : f < e => event[f].status # "none"
    /\ event' = [event EXCEPT ![e] = [NoEvent EXCEPT !.kind = kind, !.status = "pending",
                                                     !.due = TRUE]]
    /\ UNCHANGED <<pc, batch, dead, handled, lapses, drops>>

\* claimed_at <= stale_before.  A batch that nobody works on always lapses.
Lapse(e) ==
    /\ event[e].status = "processing" /\ ~event[e].stale
    /\ Held(e) => lapses < MaxLapses
    /\ event' = [event EXCEPT ![e].stale = TRUE]
    /\ lapses' = IF Held(e) THEN lapses + 1 ELSE lapses
    /\ UNCHANGED <<pc, batch, dead, handled, drops>>

\* next_retry_at <= now.
RetryDue(e) ==
    /\ event[e].status = "pending" /\ ~event[e].due
    /\ event' = [event EXCEPT ![e].due = TRUE]
    /\ UNCHANGED <<pc, batch, dead, handled, lapses, drops>>

Released(row) == [row EXCEPT !.status = "pending", !.owner = NULL, !.stale = FALSE]

Claimed(row, w) ==
    [row EXCEPT !.status = "processing", !.owner = w, !.attempts = @ + 1, !.due = FALSE]

\* A mutant: the lease of another runner is not respected.
ClaimableAnyway(row, w) == row.status \in {"pending", "processing"} /\ row.kind \in Handles(w)

Claimable(row, w) == row.status = "pending" /\ row.due /\ row.kind \in Handles(w)

\* A mutant: an expired claim is not released.
ReclaimedNever(row) == row

Reclaimed(row) ==
    IF row.status = "processing" /\ row.stale THEN [Released(row) EXCEPT !.due = TRUE] ELSE row

Exhausted(row) == row.attempts >= MaxAttempts

-----------------------------------------------------------------------------
(* run_once and _process.                                                  *)

\* claim_outbox_events: stale claims of any worker are released first, then
\* the oldest claimable events are taken, up to the batch size.
Claim(r) ==
    LET row(e)  == Reclaimed(event[e])
        ready   == {e \in Events : Claimable(row(e), Worker(r))}
        oldest  == {e \in ready : Cardinality({f \in ready : f < e}) < BatchSize}
    IN  /\ pc[r] = "idle"
        /\ event' = [e \in Events |-> IF e \in oldest THEN Claimed(row(e), Worker(r))
                                                      ELSE row(e)]
        /\ \E order \in [1 .. Cardinality(oldest) -> oldest] :
               /\ \A i, j \in DOMAIN order : i < j => order[i] < order[j]
               /\ batch' = [batch EXCEPT ![r] = order]
        /\ pc' = [pc EXCEPT ![r] = IF oldest = {} THEN "idle" ELSE "handling"]
        /\ UNCHANGED <<dead, handled, lapses, drops>>

\* On to the next event of the batch.
Advance(r) ==
    /\ batch' = [batch EXCEPT ![r] = Tail(@)]
    /\ pc' = [pc EXCEPT ![r] = IF Len(batch[r]) = 1 THEN "idle" ELSE "handling"]

\* An exception, or a cancellation, leaves run_once with the batch unfinished.
Abandon(r) ==
    /\ batch' = [batch EXCEPT ![r] = <<>>]
    /\ pc' = [pc EXCEPT ![r] = "idle"]

\* A mutant: an exception of the handler is swallowed.
HandleSwallowing(r) ==
    /\ pc[r] = "handling"
    /\ pc' = [pc EXCEPT ![r] = "marking"]
    /\ handled' \in {handled, handled \cup {Current(r)}}
    /\ UNCHANGED <<event, batch, dead, lapses, drops>>

Handle(r) ==
    /\ pc[r] = "handling"
    /\ \/ /\ handled' = handled \cup {Current(r)}
          /\ pc' = [pc EXCEPT ![r] = "marking"]
       \/ /\ pc' = [pc EXCEPT ![r] = "failing"]
          /\ UNCHANGED handled
    /\ UNCHANGED <<event, batch, dead, lapses, drops>>

\* mark_outbox_processed raises when the worker no longer owns the event, and
\* _process then reports that as a failure of the event.
MarkProcessed(r) ==
    /\ pc[r] = "marking"
    /\ IF Owns(r, event[Current(r)])
       THEN /\ event' = [event EXCEPT ![Current(r)] =
                            [Released(@) EXCEPT !.status = "processed"]]
            /\ Advance(r)
       ELSE /\ pc' = [pc EXCEPT ![r] = "failing"]
            /\ UNCHANGED <<event, batch>>
    /\ UNCHANGED <<dead, handled, lapses, drops>>

\* mark_outbox_failed reads the row before its write transaction begins; when
\* the worker does not own the event it raises, out of run_once.
ReadFailed(r) ==
    /\ pc[r] = "failing"
    /\ IF Owns(r, event[Current(r)])
       THEN /\ dead' = [dead EXCEPT ![r] = Exhausted(event[Current(r)])]
            /\ pc' = [pc EXCEPT ![r] = "writing"]
            /\ UNCHANGED batch
       ELSE Abandon(r) /\ UNCHANGED dead
    /\ UNCHANGED <<event, handled, lapses, drops>>

\* ... and writes it by id alone.
WriteFailed(r) ==
    /\ pc[r] = "writing"
    /\ event' = [event EXCEPT ![Current(r)] =
                    [Released(@) EXCEPT !.status = IF dead[r] THEN "dead_letter" ELSE "pending",
                                        !.due = FALSE]]
    /\ Advance(r)
    /\ dead' = [dead EXCEPT ![r] = FALSE]
    /\ UNCHANGED <<handled, lapses, drops>>

\* stop(), the cancellation of a publishing task, or a crash of the process.
Drop(r) ==
    /\ pc[r] # "idle" /\ drops < MaxDrops
    /\ Abandon(r)
    /\ dead' = [dead EXCEPT ![r] = FALSE]
    /\ drops' = drops + 1
    /\ UNCHANGED <<event, handled, lapses>>

-----------------------------------------------------------------------------
Process(r) == Handle(r) \/ MarkProcessed(r) \/ ReadFailed(r) \/ WriteFailed(r)

Next ==
    \/ \E e \in Events, kind \in Kinds : Enqueue(e, kind)
    \/ \E e \in Events : Lapse(e) \/ RetryDue(e)
    \/ \E r \in Runners : Claim(r) \/ Process(r) \/ Drop(r)

\* The background loops claim again and again; a runner that claimed goes on
\* (its handlers return); and time passes.
Fairness ==
    /\ \A r \in Loops : WF_vars(Claim(r))
    /\ \A r \in Runners : WF_vars(Process(r))
    /\ \A e \in Events : WF_vars(Lapse(e)) /\ WF_vars(RetryDue(e))

Spec == Init /\ [][Next]_vars /\ Fairness

-----------------------------------------------------------------------------
(* Properties.                                                             *)

\* Unless a lease runs out under its runner, no two runners work on one event:
\* the loop and the publishers may claim at any time, under one worker id.
ExclusiveUntilLapse ==
    lapses = 0 =>
        \A r, s \in Runners : \A i \in 1 .. Len(batch[r]), j \in 1 .. Len(batch[s]) :
            batch[r][i] = batch[s][j] => r = s /\ i = j

\* What a row's status says of the delivery of its event.
Phase(row) ==
    CASE row.status = "none"        -> "none"
      [] row.status = "pending"     -> "waiting"
      [] row.status = "processing"  -> "taken"
      [] row.status = "processed"   -> "delivered"
      [] row.status = "dead_letter" -> "given_up"

\* The rows of the outbox, the transactions of its workers and the batches they
\* hold implement the delivery of single events under a lease.
Promise == INSTANCE Delivery WITH
    MaxTries <- MaxAttempts,
    state    <- [e \in Events |-> Phase(event[e])],
    tries    <- [e \in Events |-> event[e].attempts],
    expired  <- {e \in Events : event[e].stale},
    handled  <- handled,
    overrun  <- lapses > 0

\* Every step of the workers, in batches, with leases that run out and reports
\* written by id alone, is a step of Delivery: nothing is recorded as processed
\* before a handler completed for it or given up before its last attempt, and
\* what was settled is reopened only by a handler that overran its lease.
ImplementsDelivery == Promise!Spec

\* Every event some worker handles is processed or given up in the end, also
\* after crashes, lost ownership and abandoned batches.
HandledKindsSettle ==
    \A e \in Events :
        event[e].status # "none" /\ event[e].kind # "task.pending"
            ~> event[e].status \in {"processed", "dead_letter"}
=============================================================================
