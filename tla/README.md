# NexaPilot: models, checks and proofs

This directory is a verification project for NexaPilot (`src/src/nexapilot`, below
just by file name): a local personal-agent runtime in Python, one asyncio process
or several over one SQLite database. It holds TLA+ models of the parts that decide
what becomes of a goal, a run and an event, TLC configurations that check them on
small instances, and proofs about them for TLAPS.

`PROJECT.json` names, for every definition that models code, the lines it models.

## 1. The system

| Part | State it keeps | Operations | What is hard | What makes it correct |
|---|---|---|---|---|
| **Task runtime** (`task_runtime/service.py`) | rows of `goals`, `task_plans`, `plan_tasks`, `plan_task_dependencies`, audit events | create a goal, replan, pause and resume, reorder, promote due retries, take over, move a task through its states with the cascades that follow | long sequences of legal calls; several rows changed by one transaction; callers with old revisions | no task before its dependencies; an open goal can always be closed; truthful plan statuses; exact audit; a revision for every change |
| **Outbox** (`outbox/worker.py`, `store/sqlite.py`) | rows of `outbox_events`; the batch each runner holds in memory | enqueue (inside the transaction that makes the change), claim, handle, mark processed, mark failed | a batch claimed once and handled slowly; two runners under one worker id; a read outside the write transaction; cancellation and crash | at-least-once delivery, counted attempts, exclusive claims until a lease lapses, every event settled |
| **Runs** (`store/sqlite.py`, `run_lifecycle.py`) | rows of `runs` and `session_leases` | create, start, heartbeat, checkpoint, approval, cancel, finish, reconcile | several processes; leases; crashes; failing transactions | one worker per session; final states final; every run ends, but for named exceptions, with its event and without its lease |
| **Session loop** (`loop/session_loop.py`, `loop/interrupt.py`) | the control of a run in memory; one interrupt signal per session | guard, model round, tool batch, stop, exception handlers, heartbeat task | cancellation at any await; state read before an await and used after it | a run ends with the status its reason deserves |
| **Cancellation** (`api/app.py`) | none | cancel a run, interrupt a session | three steps, none atomic with another | stops the run that was meant and no other |
| **Permission** (`permission/service.py`) | rows of requests and approvals; futures in memory | ask, reply, cancel the session's prompts | a prompt is stored before its future exists; parallel prompts | a reply reaches the prompt; a cancelled run does not wait |
| **Delegation** (`agents/service.py`) | child sessions, runs, attempts, execution slots | run a child for a task, a batch of them, time out, cancel | a child's result against a task that changed meanwhile; a parent that is cancelled | no delegation returns as if all were well while its attempt runs; a child has one run at a time |
| **Provider gateway** (`llm/gateway.py`, `store/sqlite.py`) | rows of `llm_calls`, attempts and circuits | stream with fallback, retry, deadlines, half-open probes | many runs over one circuit; partial output; cancellation between two rows | no second answer after partial output; budgets; a ledger that does not lie; a single probe |
| **Tool calls** (`loop/session_loop.py`, `artifacts.py`) | parts, operations, artifacts, tool messages | prepare, ask, act, store an outcome; batches one after another or in parallel | a crash or a cancellation between any two rows; a batch refused as a whole | what was done is on record and had consent; the model is asked again only with every call answered |
| **Memory** (`memory/*.py`, `store/sqlite.py`) | checkpoints, episodes, versioned facts, core blocks; an index of memory files | project ended runs, govern facts; sync the index; fit the history into the budget | events out of order, repeated or missing; files that change during a sync; histories too long | no message skipped; a decision about a fact stands; a finding is a fact only when reviewed; a fresh index is right; a request the provider accepts |
| **Cron** (`cron/service.py`) | jobs and their runs | claim due jobs, run, recover | copies read long before they are written back; restarts | a job obeys the request that switched it last; where users answer, a due job is dealt with |
| **Agent workspaces** (`agents/workspaces.py`) | worktrees and their rows | create, resume, retain, inspect, release, reconcile | files and rows change separately | no row without files, no work lost |
| **Channels** (`channels/*.py`, `api/app.py`) | adapters, threads, queues | deliver, bridge, dispatch, connect, reload | threads that outlive their adapter; reloads that overlap | a reply was written with its message in view |
| **MCP client** (`mcp/client.py`) | connections to servers of tools | connect, disconnect, add | requests for one server overlap | what is listed can be called; what is open can be closed, but for three named leaks |
| Tools, event bus, Daytona, evaluation, knowledge base, guards, hooks, config, HTTP API, CLI, web UI, skills | little or none | | | see section 6 |

How they meet:

- A *run* is created by the API, a channel, cron or a delegating agent;
  `AgentService` lets one run of a session proceed per process, `session_leases`
  one per database. The session loop asks the gateway for a model answer, executes
  tools, which may ask for permission, change the task runtime or delegate to a
  child run.
- Ending a run writes the status, the message and an outbox event in one
  transaction. The memory service's worker handles that event later. The task
  runtime enqueues an event with every change of a task, and has a worker too.
- Cancellation is a row in the database, a signal in the memory of one process
  and a rejection of its prompts, in this order.
- After a crash nothing in memory is left: leases run out, the reconciler ends
  abandoned runs and claimed events are claimed again.

## 2. Modules and their order

| Module | Models | Status |
|---|---|---|
| `TaskGraph` | the graph functions of the task runtime | done |
| `TaskRuntime` | the whole task runtime, for one goal | done |
| `TaskRuntimeProofs` | theorems about `TaskRuntime` and `SpecValidation` | done |
| `SpecValidation` | the two graph loops of the task runtime, step by step | done |
| `Delivery` | the abstract promise of an outbox: single events under a lease | done |
| `Outbox` | the outbox, its workers and publishers; implements `Delivery` | done |
| `RunLifecycle` | runs, leases, session loop, cancellation, reconciler | done |
| `ToolCalls` | the tool calls of a run: permissions, effects, outcomes, artifacts | done |
| `ProviderGateway` | routes, calls, attempts, fallback, budgets, partial output, circuits shared by runs | done |
| `AgentWorkspaces` | worktrees and their rows | done |
| `Delegation` | composes `TaskRuntime` and `AgentWorkspaces` with the calls that delegate a task | done |
| `MemoryProjection` | the memory's worker over the events of ended runs, and the requests that govern facts | done |
| `MemoryIndex` | the index of the memory files | done |
| `ContextSelection` | the history that is sent to the model | done |
| `CronJobs`, `Channels` | scheduled jobs; the path of chat messages | done |
| `Triggers` | composes `CronJobs` and `Channels` with the session whose runs they start | done |
| `McpServers` | connections to servers of tools | done |
| `OutboxProofs` | theorems about `Outbox`, the refinement of `Delivery` among them | done |
| `RunLifecycleProofs` | theorems about `RunLifecycle` | done |
| `ToolCallsProofs` | theorems about `ToolCalls` | done |
| `ServicesProofs` | theorems about `Triggers`, with `CronJobs` and `Channels`, and about `McpServers` | done |
| `MemoryProofs` | theorems about `MemoryIndex`, `MemoryProjection` and `ContextSelection` | done |
| `ProviderGatewayProofs` | theorems about `ProviderGateway` | done |
| `DelegationProofs` | theorems about `Delegation`, with `AgentWorkspaces` | done |

The order was: what decides the state a user sees first, then the components that
consume its events, then what starts runs. `MC...` modules give an instance to TLC;
`MCMemory` and `MCServices` also put modules that share no state into one run, where
a behaviour takes the steps of one of them.

### Correspondence

**TaskRuntime.** One variable per table (`goal`, `plan`, `task`, `deps`) and
`events`, the audit rows of the latest transaction. Goals share nothing, so there
is one goal with all its plans. Each method of the service is a `BEGIN IMMEDIATE`
transaction and hence one action; a check that raises rolls back and is a guard.
`TransitionTask` is the whole of `transition_task`: the new row, the children it
unlocks, the descendants that fail with it, and the closing of plan and goal. The
row is written by small operators (`Start`, `Leave`, `Move`, `Assign`, `Bump`), so
that a lemma can be proved about each. Left out: titles, positions, priorities,
payloads, next_attempt_at (a task that waits may be due at any time),
`plan_tasks.lease_until` (nothing reads it).

**SpecValidation.** `Visit` and `Decide` are the queue of `_validate_specs`; `Fail`,
`Scan`, `Rescan` are the loop of `transition_task` over the dependency rows, read in
any order. `TaskRuntime` uses the functions of `TaskGraph` instead; this module
shows that they are the same, and `Ways`, `Leads` and `WaitFor` say what they stand for.
Its names begin with `Loops` where `TaskRuntime` has the same ones.

**Outbox.** A *runner* is one execution of `run_once`. The background loops of the
memory service and of the task runtime are runners, and so is each operation that
publishes right after its commit: `_publish` uses the worker id of the task
runtime's loop, so `Worker` maps both to "task". `Claim` is the transaction that
releases stale claims and takes a batch; `Handle`, `MarkProcessed`, `ReadFailed`,
`WriteFailed` are the awaits of `_process`. `mark_outbox_failed` reads before its
transaction begins, hence two actions. Time is what the code compares it with:
`stale` (the claim is older than the lease) and `due` (the retry time has come).

**RunLifecycle.** `run` and `lease` are the tables, `proc` the control of the loop
of each process, `signal` its interrupt manager, `canceller` what its cancel handler
still has to do. `proc[p].pc` names the place in `_run_session_with_trace`:
guard (database first, then the signal), checkpoint, model, checkpoint, tools,
checkpoint. Each transaction and each read that is acted on later is an action.
`CancelTask` is asyncio's cancellation of the task, at any await; `CancelOpening` is one
that comes while the message is on its way to its table, `OpenFault` an error there
(`_finish_assistant` then raises, for the message it names is not there), and
`CancelEnding` one that comes while the run is being finished. `Unlimited` are the runs of
primary agents, whose `max_turns` is none. `live` says that `lease_until` is ahead;
`Expire` ends it. A crashed process gets the owner "gone": owner ids are never used twice.

**ProviderGateway.** `circuit` is `provider_circuits`, `calls` and `attempts` the
ledger of each run, `state` says whose provider state the messages of a run hold, and
`stream[r].pc` is the place in `ProviderGateway.stream` and `_run_call`: planned and
created (before the `try`), attempting and acquiring (the head of the loop over
attempts), starting (granted by the circuit, not yet a row), started (its row is committed,
the `try` around it not yet entered), streaming, then completing (the attempt is finished,
the call is not), succeeded (the circuit is not told), failing (the handler of errors has
the error, its row is not written), recording and recorded (written, the circuit told of it
or not), failed (the error has left the call). `Cancel` ends the call wherever it comes,
but the attempt only inside the `try`: in started and in failing it stays as it is.
`Close` is asyncio's closing of a generator that the loop left by `break`, at any later
time; it is an error like others inside the `try`. `FallbackOn` is the route's
`fallback_on`. A transaction on a circuit is an action of its own, since all runs
share it; the rows of a call are written by its own stream only and change with its
control. `BeginStream` takes any targets of the route that the router may leave,
`FailAttempt` any error the adapter may raise; errors are grouped by what the code
makes of them (retried, fallen back from, both, neither).

**ToolCalls.** `call[c]` is one tool call with everything stored about it (part,
operation, artifact, message, prompts), `loop` the turns of `_run_session_with_trace`
as far as they decide which calls are made. The steps of a call follow
`_prepare_tool_call`, `_execute_prepared_tool_call` and `_persist_tool_outcome`;
`AskPrompts`, `Register`, `SetWaiting`, `Resume`, `Resolve` and `AddApprovals` are the
awaits of `PermissionService.ask`; the tool `task` asks for the permission "task", and a
call of a parallel batch may rest on an "always" given to a call beside it. A bash call
without a command in it asks nothing (`bare` of `Contracts`). `Act` is
where the tool does something, before it returns or raises. A call that is cut off stays
as it is, `dropped`, and `ReconcileRun` is what the reconciler writes about it. `run[r].how`
says how a run ended; "stopped" is the end of a run whose parent's signal ("timed_out",
"parent_cancelled") came with the cancellation, which the code records as completed.

**AgentWorkspaces, Delegation.** `row` is `agent_workspaces`, `disk` what git holds.
Every git command and every update of a row is a step. `Delegation` is
`execute_task` with `_execute_task` and `resolve_child_session`; `call[d].pc` names
the await. It uses `TransitionTask` of `TaskRuntime` unchanged, with the revision it
read before. The child's run is seen from outside. `UserEdits` is what the API and the
tool `taskplan` let their callers do: give the task any status that `transition_task`
allows, as any actor, take it over, reorder the plan. `Cancel` is the poll that finds the
parent interrupted or the child's time used up; `ParentCancelled` is a cancellation of the
parent's own task at any of its awaits, after which the child's run goes on by itself
(`orphan`). `ResumeFails` and `RetainFails` are git failing in an inspection.

**MemoryProjection.** `log` holds the messages of each session by sequence, `event` the
outbox rows of the runs, `hand[w]` what a worker does: read the checkpoint, handle the
batch, write the projection, advance the checkpoint, each a transaction of its own, for
three processors in turn. A fact is one key with values; what an extractor finds in a
message is given with the message. `Recalled` is what the context shows the model: the
facts of search and core blocks, and beside them the episodes, those of subagents and their
last words included. `Hears` says of a worker that it handles a message for the first
time, or an event that is given out again. **MemoryIndex** has the files beside the index:
`sync` holds the scan of a sync, and what it decides by is the scan, not the file.
**ContextSelection** counts tokens of requests, calls, states and results. A selection is
a function from the runs that are shown to what is shown of them; `Selected` is a step of
`_select_recent_units`, which takes a unit as it is, cut (`TruncateUnit`), or with its
newest rounds only (`CompactToolCycles`), whichever fits first.

**CronJobs, Channels, Triggers.** `exec[e].copy` is the row of a job that an execution
works with, `tick` the due jobs the loop still has. `asked[j]` remembers the request that
switched the job last, "crossed" when it met a copy of the row (`Copies`) from before, which
will be written back over it. `manager[m]` is one
`ChannelManager` with its adapter, dispatcher and websocket threads. In `Triggers`,
`turn[e]` is a starter (the cron loop, a request to run a job, the bridge, a user) on
its way through `_run_agent_once`: it posts its message, waits for the lock, and its
run takes the newest message of the session, or fails before it does. A run that asks for
an approval (`PermissionService.ask` waits without a timeout unless a channel asks), or that
no limit ends, is `lingering` until a user answers or cancels it, with the lock held.

**McpServers.** One server, its row in the tables of `MCPManager`, the connections
that are open, and the requests that are on their way through `connect`, `disconnect`
or `add_server`. `left` remembers each connection that a step left open for nobody, and
which step it was; `crossed` says that two requests overlapped.

## 3. Runs

| Run | Question | Bounds |
|---|---|---|
| `retries` | Do owners, plan statuses and revisions stay right through retries, takeovers, pauses and replans? | 2 tasks, 2 plans, 2 attempts, 2 starts of a task |
| `graphs` | No task before its dependencies, no forgotten goal, no false completion, an exact audit? | every dependency graph over 3 tasks, 2 plans, 1 attempt |
| `spec_validation` | Do the loops compute what graph theory says, in every order? | every graph over up to 3 keys, dependencies on unknown keys and on oneself included |
| `outbox` | Do the workers implement `Delivery`, are claims exclusive, does every handled event settle? | 2 events, both loops and a publisher, 2 attempts, 1 lapsed lease, 1 dropped batch |
| `run_races` | With two processes: does an ended run stay ended, is it published, is the lease free, is the session exclusive? | 2 processes, 2 runs, one of them without limit, 1 turn, 1 cancellation, 1 crash, 1 expired lease |
| `run_ends` | Does every run end, but for the named exceptions? | 1 process, 2 runs, one of them without limit, 1 turn of up to 2 calls, 1 interruption, 1 crash, 1 expired lease, 1 failing transaction |
| `child_timeout` | (violated) is a child that timed out not recorded as completed? | 1 process, 1 run |
| `tool_calls` | Is what was done on record, with consent, is the model asked again only with every call answered and never after a cancellation, and is a completed run with an unanswered call always one its parent stopped? | 1 run, 2 calls in 1 or 2 batches, 2 rule sets, 5 kinds of tools, 2 events among cancellation, crash, failures |
| `gateway` | With shared circuits, retries, fallbacks and cancellations: one speaker, a truthful ledger, nothing left running but by the two cancellations named, budgets kept, one probe? | 2 runs, 2 targets, 2 streams of a run, every budget and the threshold 2 |
| `delegation` | Does no delegation return as if all were well while its attempt runs, has a child one run at a time, and does a release take nothing from a child? | 2 delegations of 1 task, in 1 call or 2, 2 units of interference (an edit is 1; a release, an inspection or a crash is 2), any cancellations of the parent and failures of git |
| `memory` | Is every message read, does what was decided about a fact stand, is a finding a fact only when reviewed, is a fresh index right, is a selection sound? | 1 chat, 1 child, 2 workers, 2 runs, 2 posts, 2 attempts, 1 crash, 1 fault, 1 request of governance; 2 files, 3 edits, 1 failing embedding, 1 restart; 2 requests and 3 rounds of 2 sizes |
| `services` | Has a reply its message in view, does a job obey the request that switched it last, are due jobs dealt with where users answer, do the tables of a server name what is open, and what is left open by whom? | 2 jobs, 1 chat message that may come twice, 2 managers, 3 requests, deliveries, reloads and restarts; 3 requests to a server, 2 at a time |

Why the bounds are enough: a cascade needs a task, one that depends on it, and one
that depends on that or on two; three tasks give every such shape. Two plans give a
superseded and an active one; no rule compares more than two. Two events in a batch
are the least with which one waits while the other is handled; the budget of two
attempts separates "may be retried" from "is given up", and a lapse and a drop are
each needed once to break an ownership. Two processes and two runs are the least
with which a lease changes hands; no transaction reads more than its own run and
the lease. Two targets are the least with a fallback, two runs the least that share a
circuit; the largest case of `gateway` opens a circuit by the failures of both runs
and probes it while an older attempt is still to answer. Two calls are the least of a
parallel batch, and of two rounds; an "always" of one is used by the other. Two
delegations are the least with which one takes another's end for its own, or resumes a
child that another left at work; two edits stop a task and start it again. Two runs of
a session are the least of which one's event overtakes the other's, and two workers the
least with which an event is handled again while somebody else decides about its fact. Two
jobs are the least with which one waits behind the other in the serial loop; three requests
switch a job, execute it, and switch it back. Two files are
enough for a sync that is half done; three edits write, change and change back a file.
In `MCMemory.cfg` the sizes 1 and 3 and the two limits are chosen so that the newest
run fits in full, cut, compacted or not at all. Two managers are what a reload makes of
one; two requests to a server are what can overlap.

The largest runs have 5.7 million distinct states (`tool_calls`), 4.0 million (`gateway`),
2.7 million (`run_races`) and 1.8 million (`memory`); `delegation` has 1.4 million, `run_ends`
0.6 and `services` 0.45, the last two with liveness.

`RevisionTellsChange`, `TaskAuditIsExact` and the other action properties are evaluated
on every step; `View` of `MCTaskRuntime` drops revisions and events from the identity
of states because no action reads them. `View` of `MCRunLifecycle` drops the signal of a
process that has no run to stop, which the next run clears, and `View` of
`MCProviderGateway` the provider state of a run that begins no further stream, and whose it
was: only whether there is any is asked.

`CHECK_DEADLOCK FALSE`: the bounded models stop when every bound is used up, and the
real system stops when nothing is requested.

### Fairness

- *Outbox*: the loops claim again and again (`OutboxWorker._loop` sleeps and
  repeats), a runner that holds a batch goes on (handlers return), and time passes.
  Publishers need not come, and handlers may fail every time: an event is then given
  up. `HandledKindsSettle` rests on this alone.
- *RunLifecycle*: a run that is requested goes on (providers have deadlines, tools
  have timeouts), a process that died is restarted, leases run out, the reconciler
  runs periodically. Users need not answer and nobody need cancel. So `EveryRunEnds`
  excepts a run that waits for an answer (`AwaitsUser`), a run without limit whose model is
  asked again and again (`AsksTheModel`: `max_turns` of a primary agent is none), and a run
  that its living process has given up (`GivenUp`: its final transactions failed, its
  handler was cancelled in turn, or its message was never written).
- *Triggers*: each starter goes on, strongly fair because it shares a lock: the waiters
  of an `asyncio.Lock` are served in turn, so a starter that can take it again and again
  takes it. A turn ends because the run in it does, unless the run lingers: it waits for an
  approval without a timeout, or has no limit. Nothing is assumed of users, so a run that
  lingers may linger for ever, and then holds the lock of its session and the serial loop
  of the jobs. `DueJobsRun` is therefore stated under `UsersAnswer`, that no turn lingers
  for ever; without it TLC finds it violated. Requests, messages, reloads and the clock
  need not come.
- The other specifications state none, and have no liveness property.

### What the violated run shows

`child_timeout`: a child stopped with "timed_out" or "parent_cancelled" reaches
`_finish_assistant`, which maps reasons it does not know to "completed";
`docs/guides/subagents.md:38` says that a timeout remains a distinct terminal state.

### Divergences seen while modelling

The models do what the code does, and the properties are stated so that they hold of
it. What follows is behaviour that a reader of the docs would not expect; each is a
behaviour of the module named.

*TaskRuntime.* `transition_task` closes the plan of the task it moves, and with it the
goal, without asking whether that plan is the active one: after a replan, finishing the
old plan's last task ends the goal while the new plan has open tasks, and `ready_tasks`
then returns none of them. A descendant that is paused while its parent is cancelled is
skipped by the cascade and can be left waiting for ever.

*Outbox.* `task.pending` events have no handler and stay pending.

*RunLifecycle.* `cancel_run` records the cancellation of one run and then signals the
*session*: if the run ended in between and the next one has passed its clearing of the
signal, the next one is stopped, as cancelled by the user. A run whose final
transaction fails twice stays active until the process is restarted, because the
reconciler leaves out its own process (`GivenUp` in `EveryRunEnds`). So does a run that is
cancelled, or fails, while its assistant message is being added (`session_loop.py:364-374`):
`_finish_assistant` raises for a message that is not there. And so does one whose handler is
cancelled in turn. The run of a primary agent has no limit of turns
(`session_loop.py:403-407`): its end is up to the model. A run that is
cancelled before it starts fails, and one that is cancelled at its end completes:
`RUN_TRANSITIONS` is not enforced. An exception inside a run with tracing is taken for
a failure of the tracer, and the run is executed a second time.

*ProviderGateway.* The probe of a half-open circuit reports only a success or a
retryable failure. One that is cancelled, closed or refused reports nothing, no other
attempt has its id, and the row stays half-open, across restarts too. The router keeps a
request with provider state at the provider of the first alias, which after a fallback
is not the one that made the state. When the budget of the run is used up between two
attempts, the call stays in status "retrying". The row of an attempt is committed as running
before the `try` that would end it (`gateway.py:398-416`), and its handler of errors writes
the failure at an await (`512-523`): a cancellation at either place ends the call as
cancelled and leaves the attempt running for good, since `reconcile` ends attempts of
abandoned runs only (`RunningIsReal` names both).

*ToolCalls.* A reply ends the prompt for all patterns it names, the ones after the one
it was given for included. Reconciling an old run closes the pending prompts of the
whole session, those of a later run too. A task that is cancelled leaves its prompt
pending and its operation executing. A cancellation inside a tool leaves calls without
an answer in the history; when it comes with the signal "timed_out" or "parent_cancelled"
the run is recorded as completed all the same (`session_loop.py:951-961`, `688-702`,
`1267-1279`), with calls unanswered. A prompt is stored before its future is registered: a
cancellation in between misses it.

*Delegation.* The guard against a changed task reads the revision again just before
each transition, so that a delegation may record its end for an attempt that is not its
own. An error between the start of the task and the child's run leaves the task running.
A child that its parent stopped at a timeout, and that returns a result, is recorded as a
completion of the task, although `docs/guides/subagents.md:38` keeps a timeout apart. The
API and the tool `taskplan` (`tools/taskplan.py:170-182`) may start and complete a task
that has no child: nobody follows such an attempt, and a completion need not be a result.
When the parent's own task is cancelled (`agents/service.py:558`) its child goes on by
itself, nobody reads how it ends, and the task stays running; cancelled while git adds the
worktree, it leaves the workspace's row "provisioning" until the next start.
A release that overlaps the resumption of a child may take its directory.

*MemoryProjection.* A message that is followed by another before a run starts, or whose
run failed before its first answer, is in no event: every later event of the session is
refused for the gap, retried and given up, while
`docs/architecture/context-and-memory.md` says that a failed event remains retryable.
The event of a run that was reconciled before it started has no range and is refused
too. A message that is posted while another run writes lies below the checkpoint and is
passed over (the exception in `ProcessedWasRead`). An event that is given out again, after
a crash or a failure between the activation of a fact and the checkpoint, adds the fact
again as a new active row when it was forgotten or superseded in between, although
`docs/architecture/context-and-memory.md:28` calls the retry safe by idempotency (the
exception in `GovernanceIsFinal`). The last words of a subagent reach the model without
review, as the episode of its run (`memory/context.py:372-383`); `FindingsAreReviewed` is
about facts. Core blocks that are rebuilt twice at a time may name a forgotten fact. The episode of a run comes
back after its deletion when the event is replayed.

*MemoryIndex.* A file that is touched without a change, or changed and changed back
during a sync, leaves the index stale for ever: every search then schedules a sync that
finds nothing to do. One file whose chunks collide ends every sync before the files
after it. The sync an archive asks for is refused while another runs.

*ContextSelection.* `docs/architecture/context-and-memory.md:48` calls the budget a hard
constraint, but after a provider has refused its state the loop sends the whole history,
past the Context Manager. The budget of an overflow retry is the configuration's, which
can be larger than the limit of a subagent that overflowed. A newest unit without tool
results that cannot be cut to fit is left out while older ones are kept.

*CronJobs, Triggers.* What a request changes in a job while it executes, or while the loop
has it among the due jobs, is undone when the execution writes its copy
(`cron/service.py:205-227`): a job that was stopped runs again, one that was started stays
stopped (the exception in `SwitchesAreObeyed`). A job's run that asks for an approval waits
without a timeout (`permission/service.py:136`), and one of a primary agent has no limit
(`agents/registry.py:65-70`): either holds the lock of its session, and the jobs behind it in the
serial loop, until a user answers or cancels it. Running a one-shot by hand spends it; running a job that
executes answers that it ran. A due job that was deleted since the loop read it is
executed. A one-shot enabled after its time is enabled and never wakes. When two
messages are posted before the first run, that run answers the newest, the other run
fails, and the older message is never answered. With tracing, a chat message that failed
is processed twice.

*Channels.* Overlapping reloads leave a manager that nobody stops; a connect during a
reload leaves an adapter; a websocket thread may outlive its adapter and deliver; the
message a dispatcher has taken is lost when a reload cancels it.

*McpServers.* Three steps leave a connection open that nobody can close, and
`ConnectionsAreKept` names them. Two need no overlap of requests: a second transport of a
remote server that fails (`mcp/client.py:148-150`, `185-188`), and an addition over a server
that is connected (`323-327`). The third, a `connect` that registers over a connection,
needs one. An addition that fails leaves the status "connecting", a disabled
one the status "disabled" over a connection that stays.

## 4. Properties worth a second look

- `OpenGoalHasOpenTask` relates goal, plan and tasks: whatever is cancelled, failed,
  retried or taken over, an open goal has a task that could still close it. It holds
  only together with `DepsComplete` and `OnePlanActive`: see the proof.
- `ImplementsDelivery` says all that the outbox promises: the abstract specification has
  neither workers nor batches, and every step of them, with claims that are released for
  others and reports that are written by id alone, is a step of single events under a
  lease. Until a lease runs out under its handler (`overrun`) the promise is strict; after
  that, what a late report may do is one action, `ReportLate`.
- `ExclusiveUntilLapse` says what the shared worker id still guarantees: everything,
  until one lease lapses under its runner.
- `EndedIsFinal` covers the zombie: a process that lost its run may still heartbeat,
  checkpoint, ask, resume and finish, and none of it changes the ended row.
- `ExclusiveUntilStall` is the most that `session_leases` gives: when a process
  sleeps through its lease it may go on beside its successor, as `heartbeat_run`
  looks at its own run only.
- `SingleProbe` is what is left of "a single attempt probes": old attempts that answer
  late may close the circuit under the probe, so the property counts only attempts let
  in since the circuit opened.
- `LedgerTellsCauses` ties the ledger to the barrier: a call counts as failed exactly
  when a fallback from it was safe.
- `EffectsAreOnRecord` is about every place a call can be cut off, and what the
  reconciler makes of it; `ConsentBeforeEffect` about what of one call's consent may be
  used by another.
- `RunningIsReal` takes the two places where a cancellation finds the row of an attempt and
  not its handler for what they are: the attempt stays running, and the ledger tells so,
  for the call is cancelled. Any other row left running would violate it.
- `NextRoundIsAnswered` has a second part for runs that completed: an unanswered call in one
  is found only where the parent stopped the run, which its finish reason tells and its
  status does not.
- `AttemptIsFollowed` is about the calls: whoever gave the task which status in between, a
  delegation whose attempt still runs has not returned as if all were well. Of attempts that
  the API or `taskplan` started it says nothing, since no call follows them.
- `OneRunPerChild` rests on the busy set alone: a delegation that resumes a child checks it
  several steps before the run starts, and another delegation, or an orphan of a cancelled
  call, may have started one in between; then the run raises.
- `GovernanceIsFinal` is about rows and about values. A row never comes back. A value that
  no active row holds is remembered only for a message that was not handled before, or by
  an event that is given out again: that exception is the divergence above, and it is as
  narrow as the code allows.
- `SwitchesAreObeyed` follows one request over any number of executions, forced runs and
  restarts, and excepts only a request that met a copy of its row. `Copies` are the
  executions under way and the due jobs the loop still has.
- `DueJobsRun` states what it needs from outside, `UsersAnswer`; see the fairness.
- `ConnectionsAreKept` accounts for every open connection: somebody can close it, or one of
  three named steps left it; the history says which, and that one of them needs requests
  that overlap.
- `ProcessedWasRead` is the reason for the refusal of gaps: without it an event that
  overtakes another moves the checkpoint past messages nobody has read.
- `FreshIndexIsRight` holds because the row of a file takes the time of the *scan*, so
  that a file that changes later is stale; with the time of the storing it does not.
- `ReplySawItsMessage` holds although a run takes whatever message is the newest: see
  the divergences for what that costs.

## 5. Proofs

The task runtime, the outbox, the life of a run, its tool calls, the provider gateway,
delegation with its workspaces, what starts runs, the connections to servers of tools and the
memory have theorems.
Each proof is of a specification for every value of its constants; the runs of
section 4 check the same properties on small instances.

### Task runtime

`TaskRuntimeProofs` proves, for any set of tasks, any number of plans, attempts and
starts and any actors, under `TaskRuntimeAssumption` (the bounds are natural numbers,
at least 1 where the code has a first plan and a first attempt; NULL is not an actor;
no task is named like the other rows):

| Theorem | States |
|---|---|
| `InvariantHolds` | `Spec => []IInv` |
| `TypeCorrect` | `TypeOK` |
| `NoTaskBeforeItsDependencies` | `DepsComplete` |
| `NoForgottenGoal` | `OpenGoalHasOpenTask` |
| `SingleActivePlan` | `OnePlanActive` |
| `CompletionIsTruthful` | `CompletedPlanIsDone` |
| `OwnershipAndBudget` | `OwnerRuns`, and `RetryWithinBudget`: what waits for a retry has an attempt left |
| `ConflictsAreSeen` | `RevisionTellsChange` |
| `AuditIsExact` | `TaskAuditIsExact` |
| `PlansAreAcyclic` | `AcceptsExactlyAcyclic`, of `LoopsSpec`, for every finite set of keys |
| `CascadesAreWhole` | `CascadeReachesAllBelow`, of `LoopsSpec`, for every finite set of keys |

`IInv` is the conjunction of these and of `RowsOK`, which is what makes them
inductive: a goal that exists names a plan that exists, tasks in use belong to plans
that exist, their dependencies are in the same plan, and a task that was never
inserted has no status. `OpenGoalHasOpenTask` alone is not inductive: to see that a
transition leaves an open task in the active plan one needs that the plan is closed
exactly when the last task turns terminal (`Closing`), that a transition touches only
tasks of its own plan (`Unlocked` and `Doomed`, by `RowsOK`), and that a retry of a
failed task reopens nothing that is recorded as completed (`CompletedPlanIsDone`).
`DepsComplete` is inductive because `completed` is never left.

The argument is one lemma per action. Lemmas about the row operators come first
(`BumpRow` ... `AssignRow`), then what a transition does to every row
(`RowsAfterTransition`, `FieldsAfterTransition`, `StatusAfterTransition`), then what
it does to plan and goal (`Closing`), then the invariant. The actions that touch
neither statuses nor plans share `QuietStepKeepsIInv`. There the graph
functions are used through one fact only, that they return tasks of the set they are
given; what they compute is the matter of the last two theorems.

`RevisionTellsChange` and `TaskAuditIsExact` are about steps. Both follow from one look
at each action under `IInv`, in the `...Tells` lemmas: a task that is inserted had no
status before; the task of a transition is not among those it frees or fails
(`TransitionTells`, where a completion comes only from states after `pending`), so no row
is written twice; and each event names the status its row has before and after
(`TrueEvent`, `AuditByParts`).

The two loops over the dependencies are proved right for every graph. Three descriptions
of each meet: the loop of the code (`SpecValidation`), the rounds `TaskRuntime` computes
with (`TaskGraph`), and the ways through the dependencies (`Ways`, `WaitFor`), which say
what is meant. The rounds give the least set that is closed under the rule of a round
(`VisitedIsLeast`, `BelowIsLeast`): sets that grow round by round have settled after as
many rounds as they can have members (`RoundsSettle`). So do the ways (`LeadsIsLeast`),
hence their bound leaves none out and `Below` is `WaitFor` (`BelowIsLeads`). A task waits
for itself exactly when some tasks wait for each other, a `Knot` (`LoopIsKnot`: of such
tasks, one for which the fewest others are reached would reach fewer still), and these are
what the rounds of `Visited` never reach (`VisitedUnlessKnot`). The loops need
`LoopsInv`: a key is queued once, its count is the number of its dependencies that have
not left the queue, what has left it is in `Visited`; and a scan that has added nothing
has read no row that would add a task. With the queue empty, what has left it is closed,
hence all of `Visited` (`QueueEmpty`); with no row left that adds a task, the blocked
tasks are closed, hence all that wait (`ScansReachAll`).

What an induction over the natural numbers is needed for is stated as a *set* of numbers
(`NatInduct`), and that the recursive functions exist at all is proved by it (`Iterates`).

### Outbox

`OutboxProofs` proves, for any number of events and publishers, any limit of attempts
and batch size, and any number of lapses and drops, under `OutboxAssumption`:

| Theorem | States |
|---|---|
| `Invariance` | `Spec => []IInv` |
| `ClaimsAreExclusive` | `ExclusiveUntilLapse` |
| `OutboxIsADelivery` | `Spec => ImplementsDelivery`: the outbox implements `Delivery` |

`IInv` is `TypeOK`, `RowsOK` (only a claim has a lease), `RunnersOK` (what a runner
marks was handled, what it gives up has used its attempts), `BatchesOK` and
`ExclusiveUntilLapse`. The last is not inductive alone: a claim takes rows that are
pending or whose lease ran out, so one must know that, until a lapse, every event of
every batch is `processing` under a live lease (`BatchesOK`); then the events a claim
takes are in no batch. A step that only takes events off the front of batches keeps
exclusiveness (`ShrinkingIsExclusive`), which covers every report.

The refinement maps each row to its `Phase` (`Promise` in `Outbox`); the runners and
their batches are what it hides. `Invariance` is needed in two places: that what is
marked was handled, and that what is given up has no attempt left, also when a report
is written by id alone for an event that another runner has claimed meanwhile. Every
write to one row is then a step of `Delivery` (`RowStepRefines`), and a claim, which
takes several rows in one transaction, is the step of `Delivery` that starts several
deliveries. `Fairness` is not refined: `Delivery` promises safety.

### Runs

`RunLifecycleProofs` proves, for any processes, any number of runs and turns, and any
number of cancellations, crashes, stalls and faults, under `RunLifecycleAssumption`
(the bounds are natural numbers; NULL and the mark of a process that is gone are two
different values and not processes):

| Theorem | States |
|---|---|
| `InvariantHolds` | `Spec => []IInv` |
| `TypeCorrect` | `TypeOK` |
| `OneWorkerUntilStall` | `ExclusiveUntilStall` |
| `EndsArePublished` | `EndedRunIsPublished` |
| `LeaseIsNeverLeftBehind` | `LeaseNamesOwnedRun` |
| `TheEndIsFinal` | `EndedIsFinal` |

`IInv` has, beside `TypeOK` and `LeaseNamesOwnedRun`, three parts that no run's
property says. `WorkersHold`: until a stall or a fault, whoever works on the session
heartbeats, owns its run and has the lease; two workers then have one lease, hence one
run, hence are one process (`Apart`). That is what makes `ExclusiveUntilStall`
inductive: a start or the reconciler can only take a lease that is not live. `RowOK`:
a run that ended with a message has its event. `ProcOK`: a process that has not opened
its message has a run without one, and a process whose run has ended has the event in
place; without these, opening a message on a run that the reconciler ended in between
would break `EndedRunIsPublished`.

The argument is again one lemma per action. `Preserved` reduces `IInv'` to the
processes, rows and lease that changed; `QuietStep`, `OwnRowStep`, `TableStep` and
`MoveStep` are its forms for a step that changes no row, only the row of one's own run,
only rows, and only one process. `EndedRow` says what all three endings leave of a row.
`EndedIsFinal` then follows action by action: each write names the statuses it applies
to, and none of them is terminal.

### Tool calls

`ToolCallsProofs` proves, for any tools called, rules of a session, number of runs, calls
and turns, limits and events from outside, under `ToolCallsAssumption` (what is called is
a tool of `Contracts` or none, a rule set decides every permission, the bounds are
natural numbers):

| Theorem | States |
|---|---|
| `InvariantHolds` | `Spec => []IInv` |
| `TypeCorrect` | `TypeOK` |
| `EffectsAreRecorded` | `EffectsAreOnRecord` |
| `ConsentComesFirst` | `ConsentBeforeEffect` |
| `NoRoundWithoutAnswers` | `NextRoundIsAnswered` |
| `CancelIsSeenBeforeTheNextRound` | `CancelStopsNextRound` |

None of the four properties is inductive. `IInv` says for each place of a call what its
rows hold there (`RowOK`: `AskOK` while it asks, `RecordOK` while it is stored, `EffectOK`
once it acted), where calls are (`RoundOK`: what is in flight is of the round in progress,
and every other call of the loop's run is answered; `OrderOK`: a call begins after those
before it were answered, or beside them), what an approval rests on (`ApprovalsOK`), and
what is still to be asked (`ConsentOK`: each permission is allowed or in the sequence that
is left). Consent is then what remains when nothing is left to ask. An approval may come
from a call numbered later only when both are in one parallel batch
(`ApprovedIsAllowed`, by `OrderOK`): a sequential batch has at most one call begun
and not yet answered. `Counted` bounds the round of a call, which a cancellation of a run
that no loop works on is compared with.

The argument is `RowStep` for a step of one call, in the forms `PlainStep` (it asks
nothing) and `AskStep`; `RowsStep` for the steps that only rewrite rows (a cancelled
session, the reconciler); `StopStep` for every way the loop stops, which drops what is in
flight; `LoopStep` and `QueuedStep` for the turns. That a tool asks for what it asks for,
once each, is `AsksAll` and `AskingOnce`, by the four shapes the sequence can have.

### Provider gateway

`ProviderGatewayProofs` proves, for any runs, any number of targets and any budgets,
under `GatewayAssumption` (each bound is a positive number):

| Theorem | States |
|---|---|
| `InvariantHolds` | `Spec => []IInv` |
| `TypeCorrect` | `TypeOK` |
| `OneAttemptSpeaks` | `OneSpeaker` |
| `CausesAreTold` | `LedgerTellsCauses` |
| `NothingIsLeftRunning` | `RunningIsReal` |
| `BudgetsAreKept` | `WithinBudgets` |
| `ProbesAreSingle` | `SingleProbe` |

The properties speak of rows, and rows are only right because of where the stream that
writes them is. `IInv` says for each run (`RunOK`) which places go with plans and output
(`PlaceOK`); that what was said was said by the newest attempt, and that the flag the
code keeps for it is true to that (`SpeakersOK`); the status of the newest call in each
place (`LastOK`); that a fallback starts from the newest call, which failed
(`PlannedOK`); and how budgets and rows add up, where an attempt that was granted counts
before its row exists (`Ahead` in `BudgetOK`). For each circuit (`CircuitOK`) it says who
probes: an attempt that was let in and not told of since. No one probes an open circuit,
and one attempt at most a half-open one. Which attempt may be running in each place is
`RunningOK`: the newest, from the commit of its row to the writing of its end, or one of a
call that was cancelled, which no later step of the stream touches.

There is a lemma for each action. `RunFacts` and `OneRun` are their frame: a step
of one run leaves the rows of the others alone, and a circuit only needs another look when
a stream starts to probe. `FinishCallStep` and `FinishAttemptStep` are about the rows that
end, `NewRow` and `LastRow` about sequences that grow, `BudgetKept`, `NewCallBudget` and
`NextRoute` about the sums. `RaiseStep` is what all failures have in common, and
`CircuitsStep` is for the circuits of a step that opens none and lets nobody in.
`FirstTarget`, that some plans have a first one, rests on the well-foundedness of `<`.

### Delegation

`DelegationProofs` proves, for any number of delegations of the plan task, any tasks, plans
and attempts, and any number of edits by users, releases, inspections and crashes, under
`DelegationAssumption` (the delegated task is a task, the agent and the user are actors,
NULL is neither an actor nor a delegation, the bounds are natural numbers, at least 1 where
the task runtime has a first plan and a first attempt):

| Theorem | States |
|---|---|
| `DelegationInvariantHolds` | `Spec => []DelegationInv` |
| `AttemptsAreFollowed` | `AttemptIsFollowed` |
| `ChildrenRunAlone` | `OneRunPerChild` |
| `ReleasesTakeNothing` | `ReleaseTakesNothing` |
| `RetainedAreThere` | `RetainedIsThere` |

`DelegationInv` has four parts. `WorkInv` is about the workspaces alone: a release that has
inspected holds the lock, one that has marked the row has made it something else than
retained, and whoever retains has seen the directory and holds the lock. That is why a
retained row has its directory, although provisions, resumptions and inspections write the
row without the lock. `CallInv` says what a call holds at each of its places: a child that
is not a session yet is the call's own, a run that is active has its child in the busy set,
and a child has one run at a time (`OneRunPerChild`), so that the end of one run frees no
child of another. `PlanInv` is `AttemptIsFollowed` with the type of the
row it needs, and that no call has a later attempt than the task: a new attempt, whoever
starts it, has a number that no call has. `SafeOK` joins calls and workspaces: unless a release and a delegation have
raced for the child, no release is under way beside a delegation that prepares the child or
runs it, whoever prepares it has its directory (`Equipped`), and a release that has counted
the commits on the branch has counted all there are. `ReleaseTakesNothing` alone would not
do: the guard of a release looks at the busy set, and a child is busy only after its
directory was made or found and several other steps.

The argument has a layer for each part, and at the end one lemma per action that joins
them. `WorkStep` is for a step of one workspace, `CallKept` for a step of one call; `Milder`
says that a step makes no delegation prepare a child it did not prepare, `StandsOn` that a
call that stood for an attempt still does, and `TaskGoesOn` that a step leaves the attempt
as it is or begins a new one, which holds of every transition (`Transitions`), whoever asks
for it. Three actions choose or find a child instead (`Turns`).
`OneChildStep` then reduces an action to the child it touches, and `CallOnlyStep` is its
form for those that touch none. `LinkFollows` and `RecordFollows` are the two steps that
change both the task and the call that answers for its attempt.

### What starts runs, and servers of tools

`ServicesProofs` proves, for any number of jobs, deliveries, requests, events and
restarts, and any requests for servers of tools under way together:

| Theorem | States |
|---|---|
| `TriggersInvariantHolds` | `Spec => []TriggersInv` |
| `RepliesSawTheirMessages` | `ReplySawItsMessage` |
| `JobsObeySwitches` | `SwitchesAreObeyed` |
| `McpInvariantHolds` | `McpSpec => []McpInv` |
| `ToolsHaveTheirConnection` | `ConnectionsAreKept` |

`TriggersInv` has `CronInv` for the jobs and `TurnInv` for the session. A reply is given
at the end of a turn of several steps, so `Fits` follows the message of a turn from the
row that is stored (`own`) over its text to the run that takes it or a newer one
(`answers`); the log only grows, and a text that is stored stays. `CronInv` says of every
row that it obeys the last request (`Obeys`), and of every copy of a row there is that it
agrees with that request too (`Agrees`), unless the request was marked as crossed: what an
execution writes back (`Settled`) comes from a copy read before the turn, and would undo
what the row has obeyed since. A request that meets no copy leaves none that disagrees, and
every copy that is read later is of a row that obeys. `LoopWants` adds that the loop holds
copies of enabled jobs only, so that it executes none that was stopped.

`McpInv` has, beside `ConnectionsAreKept`, `Mine` (the connection of a request is open,
and neither the tables nor another request has it: whoever closes a connection closes
nobody else's) and `Alone` (as long as no two requests overlapped, a request works alone,
and on a server that is not connected unless it adds it). By `Mine` each step that drops a
connection is one of the three that `left` names; by `Alone` a registration over a
connection, before requests overlapped, is one of an addition (`LeftAfter`).

### Memory

`MemoryProofs` proves, for any files and texts, any sessions, workers and values, and any
number of runs, attempts, edits, crashes, faults and requests, and for any sizes, levels
and limits, under `IndexAssumption`, `MemoryAssumption` and `ContextAssumption`:

| Theorem | States |
|---|---|
| `IndexInvariantHolds` | `IndexSpec => []IndexInv` |
| `FreshIndexesAreRight` | `FreshIndexIsRight` |
| `ProjectionInvariantHolds` | `ProjectionSpec => []ProjectionInv` |
| `ProcessedEventsWereRead` | `ProcessedWasRead` |
| `FactsInvariantHolds` | `ProjectionSpec => [](ProjectionInv /\ FactsInv)` |
| `FindingsStayReviewed` | `FindingsAreReviewed` |
| `HeardInvariantHolds` | `ProjectionSpec => [](ProjectionInv /\ FactsInv /\ HeardInv /\ NoValue)` |
| `DecisionsStand` | `GovernanceIsFinal` |
| `ContextInvariantHolds` | `ContextSpec => []ContextInv` |
| `SelectionSound` | `SelectionIsSound` |

`IndexSpec`, `ProjectionSpec` and `ContextSpec` are the specifications of the three parts
alone, which the run puts side by side.

The index is right when it is fresh because of what its rows say in between (`IndexInv`):
each file, row and scan is a version of the file, named by the time of its edit
(`Version`); a row with the time the file has now stands for chunks of its text
(`FileOK`); and what a sync read of a file that has not changed since its scan is that
file's text (`Reading`). `Reading` is what a row written at the end of a sync rests on,
since its time is the scan's and its text was read later.

`ProcessedWasRead` compares an event that is done with the messages of its run.
`ProjectionInv` carries this over the steps in between: below a checkpoint every message
was seen, or was posted while a run it does not belong to was writing (`Covered`,
`CheckpointOK`); the processors before a worker's have passed its event, its batch begins
at or below the checkpoint and leaves no gap, and once handled it has been seen
(`HandOK`); an event that is processed is below all three checkpoints (`PassedOK`).
`AdvanceCovers` is the heart of it: between the checkpoint and the end of the event there
are only messages of the batch and messages of others. A checkpoint may have been moved by
another worker in the meantime, hence `hand.base`, where the batch was read, is only known
to be at or below it. `Grows` and `Works` say what steps of the conversation and of the
workers have in common.

`FactsInv` says of every set of facts that is, or was read to become, the core memory that
a subagent's facts in it were promoted. It is kept because of `FactsGoOn`: in no step does
a row become active unless it is promoted or is new and a primary session's. That is also
the first part of `GovernanceIsFinal`, but for the rows a step marks (`RowsMarked`) or adds
(`RowAdded`). For its second part, on values, `HeardInv` says when a message counts as
handled: the event of its run was given out, and whoever handles that event for the first
time is past the semantic processor (`HeardOnce`), which needs that the event in a worker's
hand is that worker's (`HeldOK`). So a worker that hands the processor a message it was
handed before has an event that was given out again. Other steps remember no value that is
not remembered: they mark a row that was active or a candidate (`MarkedValues`), and a
candidate has none of the values users give (`NoValue`).

What is sent is computed by folds of the community modules: a selection from the newest run
to the oldest, and costs as sums. `FoldExists` shows once that a fold over the subsets of a
finite set is a function, by an induction stated over a *set* of subsets (`SubsetInduct`);
`SumsGrow` and `SumWith` are what is used of sums, and `SelectRecentIs` says which function
the selection is. Then `Shown` says what may be shown of a unit, and each way to cut one
keeps it and fits what is left (`TruncatedIs`, `CompactedIs`, `TruncateUnitFits`);
`SelectingFits` carries this, and the budget, over the steps of the selection. That the run
under way is not left out rests on `TruncateUnitFinds`: when its bare request fits, some
compaction of it does, and it is the first to be tried. `ContextInv` adds what the loop
keeps of the units: their calls are numbered, and only a run that waits for a tool has a
call to answer, so no result is without one.

### Only model-checked

- `HandledKindsSettle`, `EveryRunEnds`, `DueJobsRun`: liveness, which rests on fairness and
  `ENABLED`.

## 6. Not modelled

- In `RunLifecycle`: the second execution of a run after a failure of the tracer, runs with
  `durable_run` switched off, the parts of a message as they stream in, and the run
  steps that are written beside the rows and decide nothing. What a batch of tools does
  is in `ToolCalls`, what a request contains in `ContextSelection`.
- In `ToolCalls`: asks with several patterns (the patterns of a permission match each
  other), what hooks change, the text of outcomes, and the deletion of a session's
  artifacts.
- In `ProviderGateway`: which targets a request fits (any subset may be left), the
  expansion of a target into transports (two plans are two targets), a missing
  adapter, budgets of tokens and cost, prices, `half_open_owner` (no attempt ever
  holds the id it compares), and a second cancellation inside the handlers of the first.
- In `Delegation`: the semaphore of a subagent type, the assembly of its tools, and the
  text of a summary.
- In `MemoryProjection`: what the rule-based extractor matches, ranking, scores and
  decay of facts, the token budget of the core blocks, several workspaces. In
  `MemoryIndex`: two edits within a millisecond, and the ranking of hits.
- In `CronJobs` and `Channels`: the periods of schedules (one unit for all recurring
  kinds), more than one chat, the permission rules of a channel's session, the deletion
  of a session.
- In `McpServers`: the calls of tools, which change nothing there, and the cancellation
  of a request.
- *Tools* are functions of their input and the outside world; their contracts,
  permissions and outcomes are in `ToolCalls`. The *event bus* only feeds views and
  hooks. *Daytona*: a session gets its sandbox when it is created, by a call that does
  not wait; the rest is an external service. *Evaluation and feedback*: batches one after
  another, and single transactions over one row. *Knowledge base*: stateless HTTP
  clients. *Guards*: stateless checks. *Hooks and observability*, *configuration*,
  *HTTP API*, *CLI and web UI*, *skills*: parsing, formatting and requests to the
  components above.
