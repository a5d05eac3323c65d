-------------------------- MODULE MemoryProjection --------------------------
(***************************************************************************)
(* The asynchronous write path of the memory: the messages and runs of a   *)
(* session in store/sqlite.py, the run.completed events that ended runs    *)
(* leave in the outbox, the worker of memory/service.py with its three     *)
(* processors (episodic, semantic, core), each with a checkpoint for each  *)
(* session, and the endpoints of api/app.py that govern what was stored.   *)
(*                                                                         *)
(* A worker handles one event at a time, the oldest that is due; every     *)
(* read and write of the database is a step of its own.  What a user says  *)
(* is the one fact the extractor finds in the message, or NULL.  All       *)
(* sessions share a workspace, and all their facts one key; the finding of *)
(* a subagent's run is a fact with the run for a key.                      *)
(***************************************************************************)
EXTENDS Integers, Sequences, FiniteSets, FiniteSetsExt

CONSTANTS
    Chats,         \* primary sessions
    Children,      \* subagent sessions
    Workers,       \* the memory workers, one in each process
    Values,        \* what a user asks to remember
    MaxRuns, MaxPosts, MaxWrites,           \* bounds: of all sessions, and of each run
    MaxAttempts,   \* processing.max_attempts
    MaxCrashes, MaxFaults, MaxGovern,       \* bounds
    NULL

ASSUME MemoryAssumption ==
    /\ Chats \cap Children = {} /\ NULL \notin Chats \cup Children \cup Workers \cup Values
    /\ MaxAttempts \in Nat \ {0}
    /\ {MaxRuns, MaxPosts, MaxWrites, MaxCrashes, MaxFaults, MaxGovern} \subseteq Nat

Sessions   == Chats \cup Children
Runs       == 1 .. MaxRuns
Processors == <<"episodic", "semantic", "core">>

VARIABLES
    log,         \* the messages of each session, in the order of their sequence
    run,         \* the rows of runs
    event,       \* the run.completed events
    clock,       \* how many events there are: their order of creation
    checkpoint,  \* memory_checkpoints
    hand,        \* what each worker is doing
    episode,     \* the runs with a row in memory_episodes
    fact,        \* the rows of semantic_memories, in the order of insertion
    core,        \* the facts the core memory blocks name
    api,         \* a request that has still to rebuild the core memory
    reviewed,    \* the findings that were promoted
    seen,        \* which messages were handed to which processor with their own run
    crashes, faults, governed

conversation == <<log, run>>
projections  == <<checkpoint, episode, fact, core, reviewed, seen>>
bounds       == <<crashes, faults, governed>>
memory == <<conversation, event, clock, projections, hand, api, bounds>>

NoRun   == [session |-> NULL, status |-> "none", from |-> NULL, to |-> NULL]
NoEvent == [status |-> "none", attempts |-> 0, due |-> FALSE, owner |-> NULL, at |-> 0]
Idle    == [run |-> 0, processor |-> 1, stage |-> "idle", base |-> 0, read |-> {}]

ProjectionInit ==
    /\ log = [s \in Sessions |-> <<>>]
    /\ run = [r \in Runs |-> NoRun]
    /\ event = [r \in Runs |-> NoEvent]
    /\ clock = 0
    /\ checkpoint = [p \in 1 .. 3 |-> [s \in Sessions |-> 0]]
    /\ hand = [w \in Workers |-> Idle]
    /\ episode = {}
    /\ fact = <<>>
    /\ core = {} /\ reviewed = {}
    /\ api = [stage |-> "idle", read |-> {}]
    /\ seen = {}
    /\ crashes = 0 /\ faults = 0 /\ governed = 0

Numbers(r) == {n \in 1 .. Len(log[run[r].session]) : log[run[r].session][n].run = r}
Live(r)    == run[r].status \in {"queued", "running"}
Facts      == 1 .. Len(fact)
Active     == {f \in Facts : fact[f].status = "active"}

-----------------------------------------------------------------------------
(* Messages and runs.                                                      *)

Posted == FoldSet(LAMBDA s, n : n + Cardinality({i \in 1 .. Len(log[s]) : log[s][i].role = "user"}),
                  0, Sessions)

AddMessage(s, r, role, says) ==
    log' = [log EXCEPT ![s] = Append(@, [run |-> r, role |-> role, says |-> says])]

\* POST /sessions/{id}/messages: the message is stored whether or not a run is
\* under way, and belongs to no run yet.
Post(s, v) ==
    /\ Posted < MaxPosts
    /\ AddMessage(s, 0, "user", v)
    /\ UNCHANGED <<run, event, clock, projections, hand, api, bounds>>

LastUser(s) == Max({n \in 1 .. Len(log[s]) : log[s][n].role = "user"})

\* create_run and attach_message_to_run: the newest user message of the session
\* becomes the run's.  One run of a session at a time.
Queue(r, s) ==
    /\ run[r].status = "none" /\ \A q \in Runs : q < r => run[q].status # "none"
    /\ \A q \in Runs : run[q].session = s => ~Live(q)
    /\ \E n \in 1 .. Len(log[s]) : log[s][n].role = "user"
    /\ log[s][LastUser(s)].run = 0
    /\ run' = [run EXCEPT ![r] = [NoRun EXCEPT !.session = s, !.status = "queued"]]
    /\ log' = [log EXCEPT ![s][LastUser(s)].run = r]
    /\ UNCHANGED <<event, clock, projections, hand, api, bounds>>

\* start_run with input_sequence.
Start(r) ==
    /\ run[r].status = "queued"
    /\ run' = [run EXCEPT ![r].status = "running", ![r].from = Min(Numbers(r))]
    /\ UNCHANGED <<log, event, clock, projections, hand, api, bounds>>

\* The loop stores its assistant message, and later the results of tools.
Write(r) ==
    /\ run[r].status = "running"
    /\ Cardinality(Numbers(r)) <= MaxWrites
    /\ AddMessage(run[r].session, r, "assistant", NULL)
    /\ UNCHANGED <<run, event, clock, projections, hand, api, bounds>>

Ended(r) == [run[r] EXCEPT !.status = "ended", !.to = Max(Numbers(r))]
Answered(r) == Cardinality(Numbers(r)) > 1

\* An event in the transaction that ends its run.
Publish(r) ==
    /\ clock' = clock + 1
    /\ event' = [event EXCEPT ![r] = [NoEvent EXCEPT !.status = "pending", !.due = TRUE,
                                                     !.at = clock + 1]]

\* finish_assistant_run_with_outbox, for every way a run ends.
Finish(r) ==
    /\ run[r].status = "running" /\ Answered(r)
    /\ run' = [run EXCEPT ![r] = Ended(r)]
    /\ Publish(r)
    /\ UNCHANGED <<log, projections, hand, api, bounds>>

\* finish_run: what fails before the assistant message leaves no event.
FailEarly(r) ==
    /\ Live(r) /\ ~Answered(r) /\ faults < MaxFaults
    /\ run' = [run EXCEPT ![r] = Ended(r)]
    /\ faults' = faults + 1
    /\ UNCHANGED <<log, event, clock, projections, hand, api, crashes, governed>>

\* reconcile_abandoned_runs, after the process of the run is gone.  A run that
\* had not started has no input sequence, and neither has its event.
Reconcile(r) ==
    /\ Live(r) /\ crashes < MaxCrashes
    /\ run' = [run EXCEPT ![r] = Ended(r)]
    /\ Publish(r)
    /\ crashes' = crashes + 1
    /\ UNCHANGED <<log, projections, hand, api, faults, governed>>

-----------------------------------------------------------------------------
(* The worker.                                                             *)

\* run_once: stale claims are released, then the oldest event that is due is
\* claimed.  The claim of a worker that still works does not lapse here.
Claim(w, r) ==
    /\ hand[w].stage = "idle"
    /\ event[r].status = "pending" /\ event[r].due
    /\ \A q \in Runs : event[q].status = "pending" /\ event[q].due => event[q].at >= event[r].at
    /\ event' = [event EXCEPT ![r] = [event[r] EXCEPT !.status = "processing", !.owner = w,
                                                      !.due = FALSE, !.attempts = @ + 1]]
    /\ hand' = [hand EXCEPT ![w] = [Idle EXCEPT !.run = r, !.stage = "reading"]]
    /\ UNCHANGED <<conversation, clock, projections, api, bounds>>

\* mark_outbox_failed, when a processor raised.
Failed(r) == [event[r] EXCEPT !.owner = NULL,
                              !.status = IF event[r].attempts >= MaxAttempts THEN "dead_letter"
                                                                             ELSE "pending"]
GiveBack(w) ==
    /\ event' = [event EXCEPT ![hand[w].run] = Failed(hand[w].run)]
    /\ hand' = [hand EXCEPT ![w] = Idle]

RetryDue(r) ==
    /\ event[r].status = "pending" /\ ~event[r].due
    /\ event' = [event EXCEPT ![r].due = TRUE]
    /\ UNCHANGED <<conversation, clock, projections, hand, api, bounds>>

SessionOf(w)  == run[hand[w].run].session
Position(w)   == checkpoint[hand[w].processor][SessionOf(w)]
To(w)         == run[hand[w].run].to
Missing(w)    == run[hand[w].run].from = NULL

\* A mutant: an event is handled over a gap.
AheadNever(w) == FALSE

\* The messages before this event have not all been processed.
Ahead(w) == /\ ~Missing(w) /\ To(w) > Position(w)
            /\ run[hand[w].run].from > Position(w) + 1

\* On to the next processor, or the event is processed.
Proceed(w) ==
    IF hand[w].processor < 3
    THEN /\ hand' = [hand EXCEPT ![w] = [hand[w] EXCEPT !.processor = @ + 1,
                                                        !.stage = "reading", !.read = {}]]
         /\ UNCHANGED event
    ELSE /\ event' = [event EXCEPT ![hand[w].run] = [@ EXCEPT !.status = "processed",
                                                              !.owner = NULL]]
         /\ hand' = [hand EXCEPT ![w] = Idle]

\* IncrementalMemoryProcessor.__call__ up to the handler: an event without a
\* range is refused, one at or below the checkpoint is passed over, and one
\* that starts after the next message is refused.
Read(w) ==
    /\ hand[w].stage = "reading"
    /\ \/ (Missing(w) \/ Ahead(w)) /\ GiveBack(w)
       \/ /\ ~Missing(w) /\ To(w) <= Position(w)
          /\ Proceed(w)
       \/ /\ ~Missing(w) /\ To(w) > Position(w) /\ ~Ahead(w)
          /\ hand' = [hand EXCEPT ![w] = [@ EXCEPT !.stage = "handling", !.base = Position(w)]]
          /\ UNCHANGED event
    /\ UNCHANGED <<conversation, clock, projections, api, bounds>>

\* Of the messages after the checkpoint and up to the event's end, the run's.
Batch(w) == {n \in Numbers(hand[w].run) : hand[w].base < n /\ n <= To(w)}

Handling(w, p) == hand[w].stage = "handling" /\ Processors[hand[w].processor] = p
Saw(w) == seen' = seen \cup {<<hand[w].processor, SessionOf(w), n>> : n \in Batch(w)}
Handled(w) == hand' = [hand EXCEPT ![w].stage = "advancing"]

\* EpisodicProjector and upsert_episode: one row for the run, whatever was
\* there.  The batch has at least the message the event ends with.
ProjectEpisode(w) ==
    /\ Handling(w, "episodic")
    /\ episode' = episode \cup {hand[w].run}
    /\ Saw(w) /\ Handled(w)
    /\ UNCHANGED <<conversation, event, clock, checkpoint, fact, core, reviewed, api, bounds>>

ActiveOf(key) == {f \in Active : fact[f].key = key}

\* The status of one row.
Marked(f, status) == [fact EXCEPT ![f].status = status]

\* activate_semantic_memory: ADD, SUPERSEDE or, when the fact stands, NOOP.
Activate(value, r) ==
    IF \E f \in ActiveOf(0) : fact[f].value = value
    THEN UNCHANGED fact
    ELSE LET current == ActiveOf(0)
             retired == [f \in Facts |-> IF f \in current
                                         THEN [fact[f] EXCEPT !.status = "superseded"]
                                         ELSE fact[f]]
             version == IF current = {} THEN 1 ELSE 1 + Max({fact[f].version : f \in current})
         IN  fact' = Append(retired, [key |-> 0, value |-> value, status |-> "active",
                                      version |-> version, source |-> r, kind |-> "primary"])

Finding(r) == [key |-> r, value |-> NULL, status |-> "candidate", version |-> 1,
               source |-> r, kind |-> "subagent"]

\* A mutant: the replay of an event writes its candidate again.
PutAgain(r) ==
    LET same == {f \in Facts : fact[f].key = r}
    IN  IF same = {} THEN fact' = Append(fact, Finding(r))
        ELSE fact' = [f \in Facts |-> IF f \in same THEN Finding(r) ELSE fact[f]]

\* put_semantic_candidate_once: the id is the run's, and a row that is there,
\* whatever was decided about it, stays.
PutOnce(r) ==
    IF \E f \in Facts : fact[f].key = r THEN UNCHANGED fact
    ELSE fact' = Append(fact, Finding(r))

Said(w) == {n \in Batch(w) : /\ log[SessionOf(w)][n].role = "user"
                             /\ log[SessionOf(w)][n].says # NULL}
Concluded(w) == \E n \in Batch(w) : log[SessionOf(w)][n].role = "assistant"

\* SemanticProjector: what the user of a primary session said becomes active, a
\* subagent's last words become a candidate.
ProjectFacts(w) ==
    LET r == hand[w].run  s == SessionOf(w)
    IN  /\ Handling(w, "semantic")
        /\ \/ /\ s \in Chats /\ Said(w) # {}
              /\ \E n \in Said(w) : Activate(log[s][n].says, r)
           \/ s \in Children /\ Concluded(w) /\ PutOnce(r)
           \/ s \in Chats /\ Said(w) = {} /\ UNCHANGED fact
           \/ s \in Children /\ ~Concluded(w) /\ UNCHANGED fact
        /\ Saw(w) /\ Handled(w)
        /\ UNCHANGED <<conversation, event, clock, checkpoint, episode, core, reviewed,
                       api, bounds>>

\* A mutant: the blocks are built from every row that was not given up.
LivingFacts == {f \in Facts : fact[f].status \in {"active", "candidate"}}

\* What CoreMemoryBuilder.rebuild reads.  Every fact fits its token budget.
CoreFacts == Active

\* CoreMemoryProjector: rebuild reads the facts and then, in a transaction of
\* its own, replaces the blocks.
ReadCore(w) ==
    /\ Handling(w, "core")
    /\ hand' = [hand EXCEPT ![w] = [@ EXCEPT !.stage = "replacing", !.read = CoreFacts]]
    /\ UNCHANGED <<conversation, event, clock, projections, api, bounds>>

ReplaceCore(w) ==
    /\ hand[w].stage = "replacing"
    /\ core' = hand[w].read
    /\ Saw(w) /\ Handled(w)
    /\ UNCHANGED <<conversation, event, clock, checkpoint, episode, fact, reviewed, api, bounds>>

\* advance_memory_checkpoint never moves back.
Advanced(w) == Max({Position(w), To(w)})

Advance(w) ==
    /\ hand[w].stage = "advancing"
    /\ checkpoint' = [checkpoint EXCEPT ![hand[w].processor][SessionOf(w)] = Advanced(w)]
    /\ Proceed(w)
    /\ UNCHANGED <<conversation, clock, episode, fact, core, reviewed, seen, api, bounds>>

\* A database error in any of a processor's steps.
Fault(w) ==
    /\ hand[w].stage \in {"reading", "handling", "replacing", "advancing"} /\ faults < MaxFaults
    /\ GiveBack(w)
    /\ faults' = faults + 1
    /\ UNCHANGED <<conversation, clock, projections, api, crashes, governed>>

\* The worker's process stops, and with it a request; its claim lapses, and the next claim_outbox_events
\* makes the event pending again with the attempts it had.
Crash(w) ==
    /\ hand[w].stage # "idle" /\ crashes < MaxCrashes
    /\ event' = [event EXCEPT ![hand[w].run] = [@ EXCEPT !.status = "pending", !.owner = NULL,
                                                         !.due = TRUE]]
    /\ hand' = [hand EXCEPT ![w] = Idle]
    /\ api' = [stage |-> "idle", read |-> {}]
    /\ crashes' = crashes + 1
    /\ UNCHANGED <<conversation, clock, projections, faults, governed>>

-----------------------------------------------------------------------------
(* The endpoints that govern the memory.                                   *)

Governs == api.stage = "idle" /\ governed < MaxGovern /\ governed' = governed + 1
Rebuild == api' = [stage |-> "reading", read |-> {}]

\* forget_semantic_memory: any row, in whatever status.
Forget(f) ==
    /\ Governs /\ Rebuild
    /\ fact' = Marked(f, "deleted")
    /\ UNCHANGED <<conversation, event, clock, checkpoint, episode, core, reviewed, seen, hand,
                   crashes, faults>>

Promotable(f) == fact[f].status = "candidate"

\* promote_semantic_memory: a candidate becomes active.  Its key is its run's,
\* so there is no active fact for it to supersede or to repeat.
Promote(f) ==
    /\ Governs /\ Rebuild
    /\ Promotable(f)
    /\ fact' = Marked(f, "active")
    /\ reviewed' = reviewed \cup {f}
    /\ UNCHANGED <<conversation, event, clock, checkpoint, episode, core, seen, hand, crashes, faults>>

DeleteEpisode(r) ==
    /\ Governs
    /\ r \in episode
    /\ episode' = episode \ {r}
    /\ UNCHANGED <<conversation, event, clock, checkpoint, fact, core, reviewed, seen, hand, api,
                   crashes, faults>>

\* POST /memory/core/rebuild.
RequestRebuild ==
    /\ Governs /\ Rebuild
    /\ UNCHANGED <<conversation, event, clock, projections, hand, crashes, faults>>

\* The rebuild that answers a request, in the two transactions it takes.
RebuildRead ==
    /\ api.stage = "reading"
    /\ api' = [stage |-> "replacing", read |-> CoreFacts]
    /\ UNCHANGED <<conversation, event, clock, projections, hand, bounds>>

RebuildReplace ==
    /\ api.stage = "replacing"
    /\ core' = api.read
    /\ api' = [stage |-> "idle", read |-> {}]
    /\ UNCHANGED <<conversation, event, clock, checkpoint, episode, fact, reviewed, seen, hand,
                   bounds>>

\* search_semantic_memories finds active facts only.
Searchable == Active

\* What ContextManager.build may put before the model: the facts of the core memory
\* blocks and of the search, and the episodes of ended runs, those of subagents and
\* their last words included.
Recalled == [facts |-> core \cup Searchable, episodes |-> episode]
-----------------------------------------------------------------------------

ProjectionNext ==
    \/ \E s \in Chats, v \in Values : Post(s, v)
    \/ \E s \in Children : Post(s, NULL)
    \/ \E r \in Runs, s \in Sessions : Queue(r, s)
    \/ \E r \in Runs : Start(r) \/ Write(r) \/ Finish(r) \/ FailEarly(r) \/ Reconcile(r)
    \/ \E r \in Runs : RetryDue(r) \/ DeleteEpisode(r)
    \/ \E w \in Workers, r \in Runs : Claim(w, r)
    \/ \E w \in Workers : Read(w) \/ ProjectEpisode(w) \/ ProjectFacts(w) \/ ReadCore(w)
    \/ \E w \in Workers : ReplaceCore(w) \/ Advance(w) \/ Fault(w) \/ Crash(w)
    \/ \E f \in Facts : Forget(f) \/ Promote(f)
    \/ RequestRebuild \/ RebuildRead \/ RebuildReplace

-----------------------------------------------------------------------------
(* Properties.                                                             *)

TypeOK ==
    /\ \A s \in Sessions : \A n \in 1 .. Len(log[s]) : log[s][n].run \in {0} \cup Runs
    /\ \A r \in Runs : run[r].status \in {"none", "queued", "running", "ended"}
    /\ \A r \in Runs : /\ event[r].status \in {"none", "pending", "processing", "processed",
                                                "dead_letter"}
                       /\ event[r].attempts \in 0 .. MaxAttempts + MaxCrashes
    /\ episode \subseteq Runs /\ core \subseteq Facts
    /\ \A f \in Facts : fact[f].status \in {"candidate", "active", "superseded", "deleted"}

\* A processed event was read in full by every processor, save for what the
\* user had posted while another run of the session was still writing: a crash
\* between a projection and its checkpoint, a retry, or an event that overtakes
\* another never makes a checkpoint pass over a run.
PostedDuring(n, q) == /\ run[q].status = "ended" /\ run[q].from # NULL
                      /\ run[q].from < n /\ n < run[q].to
ProcessedWasRead ==
    \A r \in Runs : event[r].status = "processed" =>
        \A n \in Numbers(r), p \in 1 .. 3 :
            \/ <<p, run[r].session, n>> \in seen
            \/ \E q \in Runs \ {r} : run[q].session = run[r].session /\ PostedDuring(n, q)

\* What was decided about a fact stands.  No replay of an event and no request
\* brings back a row that was superseded or deleted, or makes a candidate again of
\* one that was promoted.  And a value that no active row holds is remembered
\* (again) only for a message that was not handled before: while the event of the
\* message is handled for the first time.  An event that is given out again, after
\* a crash or a failure between the projection and its checkpoint, is the one
\* exception: it repeats what the user may have had forgotten, or have replaced,
\* since, as a new row.
Remembered(v) == \E f \in Active : fact[f].value = v
Hears(w, v) ==
    /\ Handling(w, "semantic")
    /\ \E n \in Said(w) : /\ log[SessionOf(w)][n].says = v
                          /\ \/ <<2, SessionOf(w), n>> \notin seen
                             \/ event[hand[w].run].attempts > 1
GovernanceIsFinal ==
    [][/\ \A f \in Facts :
             /\ fact[f].status = "active" => fact'[f].status # "candidate"
             /\ fact[f].status = "superseded" => fact'[f].status \in {"superseded", "deleted"}
             /\ fact[f].status = "deleted" => fact'[f].status = "deleted"
       /\ \A v \in Values :
             ~Remembered(v) /\ Remembered(v)' => \E w \in Workers : Hears(w, v)]_memory

\* As a fact, a subagent's finding reaches the model only after a reviewer promoted
\* it, through whichever of the search and the core memory blocks, whatever was
\* replayed, superseded or rebuilt since.  Nobody reviews the episode of its run,
\* which shows its last words beside the facts.
FindingsAreReviewed == \A f \in Recalled.facts : fact[f].kind = "subagent" => f \in reviewed
=============================================================================
