# CoFlowAi, specified

TLA+ modules for [CoFlowAi](../src/README.md), a Python framework that runs agents and
workflows durably: an execution is checkpointed, may pause for a human, may crash, and is
resumed by whichever process comes next. The modules model the parts of the program where
steps of several actors meet, and the pure parts those steps rest on; TLC checks them on
small instances, and TLAPS proves the safety properties of the runtime, the workers, agents,
parallel nodes, nested definitions, event stores, streams and permissions for every value of their constants, among
them that the runtime's record implements the documented status machine, that each event store
implements an append-only log, and that a stream gives the response a call without streaming
gives.

Paths below are relative to `src/coflowai/` unless they name a repository document.

    Part 1  inventory: components, state, operations, hazards
    Part 2  the modules and how they correspond to the code
    Part 3  the runs, their bounds, fairness, and what they show
    Part 4  the proofs
    Part 5  where code and documents disagree
    Part 6  what is only model-checked, what is left out, and the plan

## 1. Inventory

| component | state it keeps | operations | module |
|---|---|---|---|
| Execution runtime (`runtime/runtime.py`) | `_running`, `_executables`, `_policies` per process; one `ExecutionRecord` and a local context per call | `run`, `resume`, `approve`, `reject`, `cancel`, `_drive` and what it ends in; `stream`; `fork`, `replay` | Runtime; Streams; Composition |
| Status machine (`core/types.py`) | the record's status | `_transition` | ExecutionStatus, ExecutionLifecycle |
| Workflow engine (`workflows/workflow.py`, `node.py`) | completed nodes, last output and hash in the context's state | `execute`, the node kinds | Composition (nested nodes), Runtime and Workers (linear), Fanout (parallel) |
| Compiler (`workflows/compiler.py`, `graph.py`) | none | `compile`, node ids, `signature` | Compiler |
| Human approval (`approvals/approval.py`) | a ledger in the context's state | `HumanApproval.execute` | Runtime |
| State stores (`state/`, `persistence/`) | records, checkpoints, lock leases | save, read, `acquire_lock`, `release_lock`; `latest_checkpoint`, `checkpoint_at_step` | Runtime; Composition |
| Job queue (`distributed/queue.py`) | pending list, in-flight set, dead letters | `enqueue`, `dequeue`, `ack`, `nack`, `recover` | JobQueue |
| Workers, service (`distributed/worker.py`) | each worker's loop, the registry of executables | `submit`, `submit_resume`, `run_once`, `WorkerPool.stop`, `wait` | Workers |
| Agents (`agents/agent.py`) | conversation in the state, loop counters | `execute`, `_run_tools`; `execute_stream`, `_build_context` | Agents; Streams |
| Tool executor (`tools/executor.py`, `core/retry.py`) | idempotency ledger in the state, rate windows | `execute` | Agents |
| Model gateway (`models/gateway.py`) | none; counters of the context | `call`; `stream` | Agents; Streams |
| Model registry (`models/registry.py`) | models in order of registration, a default | `register`, `unregister`, `select`, `resolve` | Compiler |
| Contexts and budgets (`core/context.py`, `policies/policy.py`) | counters, cancel flag, deadline | `child`, `merge_from`, `absorb_parallel`, the checks | Runtime, Agents, Fanout, Composition, Streams |
| Events and replay (`events/`, `persistence/`, `runtime/replay.py`) | append-only logs with sequence numbers, subscribers | `append`, `read`, `publish`, `ReplayTrace.from_events` | EventLog, EventStores |
| Context builder (`context/builder.py`) | none | `build` | ContextBuilder |
| Permissions (`policies/permissions.py`) | none | `allows`, `missing`, `intersect` | Permissions |
| Providers (`providers/`, `models/streaming.py`) | what has been read of a stream | translation of requests, responses, streams | Providers |
| Observability, CLI, plugins, fakes | | counters, entry points | not modelled |

How they interact. A client calls the runtime directly, or hands a job to
`ExecutionService`, which saves the record and queues the job; a worker leases the job and
calls the runtime. `Runtime._drive` takes the execution's lock in the state store and runs
the workflow on an `ExecutionContext`; the workflow checkpoints before and after each node
and gives each node a child context whose counters are folded back. A node may be an
agent, which asks the gateway for model responses and the tool executor for tool calls,
all of which check the budgets of their context; an approval, which raises
`ApprovalRequired` up to `_drive`; or a sequence, a router, a loop, a parallel node or another
workflow, which have child contexts of their own. All of them emit events, and an emit
waits for the event store and the subscribers. A streamed execution is four generators in
one another, `Runtime.stream`, `Agent.execute_stream`, `ModelGateway.stream` and the
adapter's, which run when their consumer asks. Everything that survives a process is in the state store, the event store and the queue.

What is hard. Each await is a place where another task of the same process, or another
process, takes a step; the code reads records and checkpoints before it holds the lock,
writes checkpoint, record and lock with separate requests, takes jobs and leases them with
separate requests, and any request may raise, any process may die and any task may be
cancelled. Leases expire by the clock. `PROJECT.json` lists the hazards, each at its line,
with the property that would notice.

## 2. The modules

### ExecutionStatus, ExecutionLifecycle

The statuses, the transition table and the resumable statuses of `core/types.py`, and the
specification that is written in the table: a record appears, and moves along it. It is the
abstract specification of the stored record, which Runtime implements (`StatusMachine`).

### Runtime

One execution id on a durable store, and any number of overlapping calls to the runtime on
it. Each call is an asyncio task of a worker process; an action is the code between two
awaits that touch shared state, and `pc[c]` names the store request it makes next.

| in the module | in the code |
|---|---|
| `stored`, `latest`, `lock` | the record's status, the newest checkpoint, the lock lease, in the store |
| `running`, `executables` | `Runtime._running`, `_executables` of each process |
| `rec[c]`, `ctx[c]`, `cancelled[c]`, `cur[c]` | the call's copy of the record, its context's state (completed nodes, approval ledger, workflow hash), its cancel flag, the node its loop is at |
| `Run`, `Resume`, `ReadRecord`, `ReadCheckpoint`, `ResumeRefused` | `run`, `resume` up to `_drive` |
| `Decide`, `DecideRead`, `DecideCheckpoint`, `DecideSave` | `approve`, `reject`, `_decide`, which then resumes |
| `CancelRegistered`, `CancelStored`, `CancelRead`, `CancelSave` | the two paths of `cancel` |
| `Register`, `Acquire`, `AcquireRefused`, `Start`, `Cleanup`, `Release` | `_drive` |
| `NextNode`, `CheckpointBeforeNode`, `NodeSucceeds`, `NodeRaises`, `AskApproval`, `RejectedNodeSkipped`, `CheckpointAfterNode` | `Workflow.execute` and `HumanApproval.execute` |
| `CompleteSave` ..., `PauseCheckpoint`, `PauseSave`, `FailCheckpoint`, `FailSave` | `_complete`, `_pause_for_approval`, `_fail` |
| `StoreRaises`, `TaskCancelled`, `DeadlinePasses`, `LeaseExpires`, `Crash` | what the environment does |

`StoreRaises` makes a request raise without having been applied; failing event emits take
the same exits as the request next to them. `_transition` and its failures are part of the
actions that call it. Stores that copy what they are given are modelled (SQLite, Postgres,
Redis); the in-memory store hands out its own objects and never suspends, and is not.
`Release` deletes the lease whoever holds it, as `release_lock` does: its owner argument
has the same default everywhere. `Start` includes the compiling at the head of `Workflow.execute`,
which looks at the registry of its process and may raise; only then the hash is in the context.
Run is given a fresh id; a redelivered run job, which
reuses one, is in Workers.

### JobQueue and Workers

`JobQueue` has the requests `RedisJobQueue` makes as operators on `pending`, `processing`
(the in-flight set), `overdue` (entries whose visibility timeout has passed) and `dead`.
`Workers` composes them with the worker loop, `ExecutionService` and `recover()`: a worker
is at `popped` between `brpop` and `zadd`, at `nackRemove`/`nackPush` between the two
requests of `nack`, and a recoverer holds in `rpc` what it removed and has not pushed. The
runtime is seen from outside: a drive takes the lock, does nodes 1..N, checkpoints each and
ends. `CancelTask` is `WorkerPool.stop` cancelling a worker in the middle of something.
The lease of a lock runs out by the clock (`LeaseExpires`), under a worker that drives too unless
`LeaseCoversHolder` says otherwise, since nothing calls `extend_lock`; `Unlock` may then free the
lock of the next holder. `VisibilityLapses` is the timeout of the job's own lease.
`InMemoryJobQueue` makes the same steps without the windows. Decision jobs go through
`Runtime._decide`, modelled in Runtime, and are not repeated.

### Agents

One agent as the node of a workflow, with the gateway and the tool executor. `pc` is the
place in the loop of `Agent.execute`; `state` has the calls of the last response without
results (`open`) and the remembered outputs (`ledger`); `used` is the counters of the
agent's context; `task[c]` is the progress of a tool call. `saved` is the latest
checkpoint's state and counters.

| in the module | in the code |
|---|---|
| `Iterate`, `NotConverged`, `Answer`, `RepairAnswer`, `AskTools`, `CollectResults` | the loop of `Agent.execute` |
| `Fail` | its `except Exception`: `merge_from`, then `Runtime._fail` saves a checkpoint |
| `CheckModelBudget`, `ModelAccounted`, `ModelAnswers`, `ModelFails` | `ModelGateway.call`, `_call_one`, `_account`, `run_with_retry` |
| `AnswerUnannounced`, `EmitFails` | events that cannot be stored: after an answer was counted, where `call` may go on to a fallback model, and anywhere else |
| `StartCall`, `OverBudget` | `_run_tools`: semaphore or sequence, and the task group that cancels |
| `CheckCall`, `TakeEffect`, `Return`, `Replay`, `RaiseInTool`, `ReportFailure` | `ToolExecutor.execute`, `_run`, `_retry_policy`, the ledger, `_finish`, `_failure` |
| `DeadlineCancels`, `Crash` | `_with_deadline`; a lost process, or a cancelled drive, which saves nothing |

Budgets of tokens and cost are checked beside those of calls and in the same form; they are
left out. The rate limiter is one of the reasons a call is in `Refused`.

### Fanout

`ParallelNode.execute`: branches that queue for a semaphore, child contexts whose counters
start at the parent's, `absorb_parallel`, the task group of `fail_fast` and the gather
without it. A branch is an agent making model calls (without fallback models, see Agents) or an
approval nobody has decided. A failed execution may be resumed, and then all branches run again.

### EventLog and EventStores

`EventLog` is what a log promises a reader: an event is there once, nothing is taken back,
a publisher's events stay in order, and, where the store can keep it, numbers are dense or
at least unique. `EventStores` is `EventPublisher.publish` on each of the five stores.
`TakeNumber` and `StoreEvent` are the requests of an append (count the rows, select the
maximum or `incr`; then the line, the row or `rpush`), `ListExecution` is Redis' third;
`holder` is the asyncio lock of the in-memory, JSON-lines and SQLite stores, one per
process. `rows` are in the order `get_events` returns them: `PlaceOf` is the `ORDER BY
sequence` of the SQL stores. Subscribers are numbered as they have subscribed, `todo[p]` are
those a publish has still to call, and `CallSubscriber` is one round of its loop, for the
first of them, which may raise. `CancelTask` is a task cancelled while it awaits the store or
a subscriber; with `ThreadStores` it is `_SqliteBase._run`, where a cancelled task gives the
lock back while its thread is still in the database. A publisher first tells something that opens
no step, as `execution.created` does, then a start (`Type`). `Trace` is `ReplayTrace.from_events`:
what comes before the first start is in no step.
`Promise` says which numbers each store can promise: dense with one process, and for SQLite
only if no task is cancelled in an append.

### Permissions, Compiler, Composition, Outcomes

`Permissions` and `Compiler` are pure operators: wildcards and intersection; node ids, the
leaves of a tree, the checks of `compile`, the signature a hash is made of, the registry and
capability routing. Definitions are trees of records; `Levels` and `Within` are the nodes of a
tree down to `MaxDepth`, so that what walks a tree is a function on its nodes.

`Composition` runs such a tree. A call of `execute` is a frame on `stack` with its context
(`input`, `step`, `calls`) and its place in its node (`at`, `current`); all contexts share
`state`.

| in the module | in the code |
|---|---|
| `state.completed`, `.conversation`, `.hash` | the namespaced keys of `Workflow.execute`, the agents' conversations |
| `Refuse`, `SkipNode`, `StartNode`, `ReturnCurrent` | `Workflow.execute`: compile, `_verify_resume_compatibility`, the loop with its checkpoints |
| `SequenceStep`, `Route`, `LoopRound`, `Transform` | the other nodes of `workflows/node.py` |
| `CallAgent` | an iteration of `Agent.execute`: one model call, after which the agent answers, raises or goes on (`Iterations`); it merges what it used when it ends |
| `Return`, `Raise`, `RaiseThrough` | what a node's result or exception does on the way out, up to `_complete` and `_fail` |
| `Child`, `Merged` | `ExecutionContext.child`, `merge_from` |
| `IsRecorded`, `Answer` | `ModelGateway._override_for`, `_apply_override` |
| `Resume`, `Fork`, `RebindModel`, `Crash`, `ChangeRegistry` | `Runtime.resume` (perhaps with a changed definition), `Runtime.fork`, `_rebind_model`, the environment |
| `spent`, `lost` | history: model calls made, and those a crash forgot, which an agent under way had not merged yet (`Unmerged`) |

A leaf appends its name to its input, so an output tells every step it went through, and
`Eval` in `Outcomes` says what a definition means without stacks, checkpoints or keys; `SameOutcome`
and `ForkAsAsked` compare the two there. The status machine,
lock and deadline are in Runtime and not repeated; what happens between the requests of a
checkpoint is there, too.

### ContextBuilder, Providers, Streams

`ContextBuilder` is `ContextBuilder.build` in steps: relevance, caps, the rounds of the loop
that shrinks the least important section, the order. Messages are records with their
tokens. `Providers` says for each adapter (`Kinds`) what a request's messages become
(`ToWire`), what a service answers and the events it streams (`Wire`, from how the adapter
reads them), and how events are put together: by the adapter (`Read`) and by
`StreamAccumulator` (`Accumulate`). "emulated" is `emulate_stream`; "bare" is a provider
that only yields chunks and no response of its own.

`Streams` composes both with `Runtime.stream`, `Agent.execute_stream` and
`ModelGateway.stream`. At `held`, `calls` and `final` the generators wait for their consumer,
which takes the chunk or closes them; elsewhere they run and a `CancelledError` may come
(`BreakOff`). `Settles` is the `except BaseException` of `Runtime.stream`; `Complete`, `CompleteSave`,
`CompleteCheckpoint` and `FailCheckpoint`, `FailSave` are `_complete` and `_fail` request by request
(`Write` says what each writes), with `completed` for the copy of the record in memory, which refuses
to fail once it is completed. `StoreFails` is a request of theirs that raises, before or after what it
writes is there, `EmitFails` an event of the agent or the gateway, and `Expire` the deadline, at which
`ensure_alive` looks before a step, a call and a tool and at every chunk. `ShrinkSections`
is one round of the builder's loop, so that a loop without end (`Stuck`) is one in the model.

### The MC modules

MCRuntime and MCWorkers: the assignment of calls to processes, the symmetries, and views that
leave out the local state of a call or worker that has none any more. MCComposition and
MCStreams: the definitions, registries, answers and settings that are run. MCComposition also has
TLC evaluate the hypotheses of the theorems about Composition for its definitions and for all
that a resume or a fork may make of them.

### Mutants

Operators whose comment starts with "Mutant" are the forms a likely bug would give the
definition that follows them. The specifications never use them. For each property,
`PROJECT.json` names one that breaks it: the property has been seen to fail.

## 3. The runs

| run | instance | question |
|---|---|---|
| RuntimeConcurrent | 3 overlapping calls of any kind, 2 nodes of which 1 is an approval, 2 definitions, 1 crash, 1 failing request | Do overlapping calls exclude each other, act on approvals only, leave nothing running and keep one definition (unless an attempt fails before it compiles)? |
| RuntimeSerial | 4 calls one after the other, 3 nodes, an approval in the middle, 2 crashes, 2 failing requests | Does the record implement the documented machine, is a pause always decidable, is checkpointed work kept? |
| RuntimeLiveness | 2 processes, 2 calls, 1 crash, 2 failing requests | Does every call end, and does the lock come back? |
| Workers | 3 workers, 1 recoverer, 2 executions (one of which nobody can run), 2 attempts, 2 disturbances, locks that may run out under a worker | Is every job delivered, none twice, and does `wait()` return unless a job was given up? |
| WorkersExposed | 2 workers, run and resume job of one execution, 2 disturbances anywhere, raising callback, short visibility | What still holds in every window: bounded deliveries, and one driver as long as the lease of the lock covers a drive |
| Agents | 3 tool calls, 2 at a time, budgets of 2, a retry, a fallback model, a repair, any event that cannot be stored, 2 resumes, 1 crash | Are side effects neither retried nor forgotten, are budgets overrun by no more than slots and fallback models, does the loop end? |
| Fanout | 3 branches, 2 at a time, one perhaps an approval, with and without `fail_fast`, 1 resume | Is usage added up once, overspending bounded, does the node end? |
| EventStores | 2 publishers of 2 events, 2 subscribers, each of 5 stores, one process or two, 1 crash, failing request, cancelled task or unsubscription | Is every store an append-only log, does everyone hear everything once, does a replay tell everything from the first step on, does no lock stay taken? |
| Composition | 10 nested definitions, agents of 1 or 2 model calls, 2 failing leaves or crashes, 2 resumes (perhaps with a changed definition), 1 fork from any step (as it was, or with another input, model or response), 1 change of the registry | Has a completed execution the outcome of an undisturbed one, are nodes completed once, is usage kept but for agents a crash cut off, does a fork do what it is asked, does compile find what resolve needs? |
| Streams | 6 adapters, with and without a schema, 6 prompt budgets, 5 policies, 3 answers, 2 failures of provider, store or event, early ends or cancellations, a deadline at any time, a consumer that may close at any chunk | Is the answer the whole answer, usage counted once, every request well formed, every record settled that could be stored? |
| WorkersRedelivery, EventsCollide | see part 5 | a promise of a document that the code does not keep |

Why the bounds suffice for the cases in question. Three overlapping calls give two that
race and one that set the stage (a run that fails or pauses, then a resume against an
approve, a cancel against both). Two nodes around one approval have work before and at
the gate; the third node of RuntimeSerial is work after it. Two crashes or
failing requests hit a call and the call that recovers from it. Three workers and two
disturbances let a job fail twice, which is `MaxAttempts`: it is given up with its record still
running, and `WaitReturns` says so.
Three tool calls with two slots and a budget of two are the smallest case in which a call
passes the check beside one that spends the last of the budget, and one more waits. Three
branches with two slots need a slot given back. The node is entered with nothing spent, with one
call spent, and with a budget that is already overspent.

Two publishers with two events each (`MaxEvents`) give every order of four appends, of which the
first opens no step and the last may come before or after the other's start, and one fault hits any
of them. The definitions of Composition put every kind of node inside a workflow and inside
another kind, with two nodes of one name, two workflows of one name, an agent and a workflow
in a loop, agents that name a model, need a capability or are refused; none is deeper than
`MaxDepth`, 3 levels below its root; two disturbances and
two resumes let a resume fail again. An agent of two calls is the smallest that has something to lose
in a crash between them. The settings of Streams take one thing to its limit at
a time: each adapter with two rounds and a schema, each way the prompt may be too long, each
limit of the policy. Two faults let the save of a completed record fail, and then the failing of that.
Answers have text in two pieces, a call with its arguments in two pieces,
and two calls, one without arguments.

RuntimeSerial bounds the calls in progress to one (`MaxActive = 1`): `CompletedNeverRerun`
holds for callers that do not overlap only. RuntimeConcurrent takes leases to outlive their
holders (`LeaseCoversHolder`), and so does WorkersExposed for `OneDriver`. Part 5 says what happens otherwise. Workers exposes to crashes and failures only
the places at which the queue protects a job; WorkersExposed exposes all of them, and
checks what survives that. In the configurations with `CHECK_DEADLOCK FALSE` workers stop, publishers have
published, executions are settled and streams are over, and the system really comes to rest;
elsewhere a last step that changes nothing says so, or idle workers poll.

Fairness. A task that is at a store request gets its answer, a task the event loop has is
run, a lease or a visibility timeout passes (a clock), `submit` goes on to queue the job,
and somebody calls `recover()` - nobody in the repository does, so job liveness rests on
the deployment. Weak fairness of these steps is enough. In EventStores a publisher's
requests are answered and its lock is handed over (weak fairness of each publisher's steps:
the lock is free again after two steps of its holder, and each publisher takes it twice at
most). In Streams the generators run when they are asked, and a consumer takes the next chunk
or closes, if only because the event loop closes a generator nobody has any more. No fairness
is given to clients, resumes, deadlines, stops, crashes or failing requests. In Workers,
`VisibilityCoversWork` lets a visibility timeout pass only for a job nobody works on any more; it
is a parameter of the queue, 300 s unless said otherwise. The lease of the lock, 60 s, has no such
condition there: it may run out at any time after it was taken.

## 4. The proofs

`RuntimeProofs` begins with `Spec => []TypeOK`; `TypeOK` is not inductive, because a call
at `execute` must be at a node, so `Typed` adds `CurInRange`: while a node is being worked on,
`cur` is one. Each of the other theorems has one strengthening that is inductive together with
`Typed`:

| theorem | property | strengthening, and why it is needed |
|---|---|---|
| TypeCorrect | `TypeOK` | `CurInRange` |
| DriversExclude | `MutualExclusion`, assuming `LeaseCoversHolder` | `LeaseHeld`: a call in the body of `_drive` is the one the store has the lease of; two holders would be one |
| ActionsAreApproved | `ApprovalBeforeAction` | `ApprovalsRecorded`: an approved entry in the context of a call on its way to driving, or in the newest checkpoint, was once written by a decision; a decision about to be written is the one exception. No lock is used, so it survives expired leases |
| TransitionsAccepted | `TransitionsNeverRefused` | `RecordCopies`: what a call's copy of the record says while it is at each request, however old the copy is |
| DecisionsFindCheckpoint | `DecisionFindsCheckpoint`, assuming `CheckpointEnabled` | `WaitingHasCheckpoint`: the checkpoint is written before the status |
| HashIsKept | `HashNeverChanges` | `OneStarter` and `OneVersion`: one call creates the record, and until there is a checkpoint it is the only one that can drive; afterwards, as long as no checkpoint without a hash was saved (`hashes`), every call on its way to driving has the definition of the newest checkpoint |
| ExecutionsSettle | `NothingLeftRunning` | `Attended`: while nothing crashed or raised, a record that says created or running has a call that will change it. The first call finds the lock free, because until it has driven nobody else gets past its reads; so `acquire_lock` never refuses it |

The last theorems of the module are about calls that do not overlap (`MaxActive = 1`; part 5 says
why not more). They rest on `OneActive`: what a call read is still true when it writes.

| theorem | property | strengthening, and why it is needed |
|---|---|---|
| RecordFollowsLifecycle | `StatusMachine`, the refinement of ExecutionLifecycle | `CopyCurrent`: the copy of the record a call works with is the stored one, but for a completion whose save raised; then each of the requests that write the record is a move of the table, and every other action a stutter |
| CompletedWorkIsKept | `CompletedNeverRerun` | `Remembers`: what any checkpoint recorded is in the newest one and in the context that came from it, and the chosen node is not among it |
| PausesAreDecidable | `PausedIsDecidable`, assuming `CheckpointEnabled` | `Paused`: from `_pause_for_approval` on the newest checkpoint has a request for a node that is not completed, and only a decision about it is saved over it |

`AgentsProofs` does the same for Agents, with `Shaped` (types, tool calls only while the
agent waits for them, the agent only while the execution is driven):

| theorem | property | strengthening, and why it is needed |
|---|---|---|
| SideEffectsNeverRetried | `NeverRetried` | `Unretried`: a call on its way to a tool that must not be retried has had no effect yet |
| RememberedEffectsReplayed | `RememberedNeverRedone` | `Remembered`: the saved ledger is part of the ledger, and what it remembers is not on its way to the tool |
| ToolBudgetOverrun | `ToolCallsBounded` | `InFlight`: the counter plus the calls past the check and not yet counted stays below budget plus slots, and those calls hold slots |
| TypeCorrect | `TypeOK` | `Counting`: the steps of all runs are bounded, because each resumed run counts at most one too many before `check_steps` fails it |
| ModelBudgetHolds | `ModelBudgetOutlivesResumes` | `Budgeted`: while no process is lost, the counter of the running agent, or of the checkpoint a failure left, is the number of calls ever made, which stays below the budget and the position in the chain of fallback models; every way out of a run that can be resumed from saves it |

`WorkersProofs` proves the safety of the queue and its workers, with `Typed` (types, and a
worker at work holds a job), for any number of callers of `recover` too:

| theorem | property | strengthening, and why it is needed |
|---|---|---|
| DriversApart | `OneDriver`, assuming `LeaseCoversHolder` | `LockKept`: the store has the lock of a worker that drives under its name, so that nobody else acquires it and no late release hits it. The lease of 60 s is not renewed, hence the assumption; no window is spared, and the leases of jobs may lapse under the work |
| DeliveriesStayBounded | `DeliveriesBounded` | `LapsedRecovered` (what `recover` has read or removed had lapsed), `PendingFew` (a pending entry has a delivery to spare) and `OthersBounded` (leased, dead-lettered or with a worker at work, it has at most all of them) |
| JobsNotLost | `NoJobLost`, assuming `Protected` | `NoneLost`: a job is pending, leased or dead-lettered, in the hand of a worker, or with a caller of `recover`; and the sets that are counted are finite. `Protected` spares the two-request windows of `dequeue`, `nack` and `recover`, where the property is false |
| DeliveredOnce | `OneDelivery`, assuming `Undisturbed` | `NoneDoubled`: a job whose timeout never passed is in one place (the pending list, the dead letters, a `nack` or `recover` about to put it back, or a lease together with the worker under it) and nowhere once it is acknowledged. `Undisturbed` says that `on_result` does not raise and nobody is struck between `ack` and `on_result`, where `run_once` would `nack` a job it has acknowledged; all other windows are exposed |

`FanoutProofs` is about parallel nodes with any number of branches, slots, resumes and any budget.
`absorb_parallel` is a sum over a finite set, defined by recursion over subsets; as no induction
theorem can be used, `AddsExists`, `AddsAlike` and the lemmas after them take a smallest subset
for which a claim fails (`WFMin` on the strict subset ordering) and refute it.

| theorem | property | strengthening, and why it is needed |
|---|---|---|
| TypeCorrect | `TypeOK` | `Spending`: counters never go below what the node began with, so the sum of the branches' usage is a number |
| AllUsageAbsorbed | `UsageAbsorbed` | `Counting`: in a first run every call made is in the context or with one of the branches (`Total(Used, Branches)`) |
| SpendingIsBounded | `OverspendBounded` | `Spending`: each branch used at most `Left`, an approval nothing, and all calls made are those of the runs before plus the branches' |

`CompositionProofs` is about definitions that nest in any way, with any number of failures, crashes
and resumes, and any decisions, conditions, revisions, registries and overrides. The definitions
are those of a set `D` with `Programs(D)`: workflows that are trees of at most `MaxDepth` levels,
among them all that may be run and all that a resume or a fork with a model may make of one. What
`RebindModel` does is never used, only that it stays in `D`. `InShape` says how the stack lies in
the definition (`Nested`): its frames are at nodes one level below another, and what a workflow
calls has the id of the node the workflow is at; there are frames as long as the execution runs;
frames, memories and checkpoints have their types. A step of `Drive` is an `Enters`, `Skips`, `Continues`, `Returns` or `Raised` (`Acts`), and each
property is carried through these five. `Unwound`, what an exception leaves in the root context, is a
recursive function on the stack; that it exists and what it does at each frame is shown by a
smallest counterexample (`RaisesExists`, `UnwoundFacts`).

| theorem | property | strengthening and hypotheses, and why they are needed |
|---|---|---|
| TypeCorrect | (`InShape`) | it is inductive |
| WorkflowNodesComplete | `CompletedOnce`, assuming `NamesApart` of every definition | `Recorded`: what was ever recorded as done is in the newest checkpoint and in the memory, and the node an enclosing workflow is at is not. A workflow within one of its own name could record the node its encloser is at; two beside one another cannot |
| NoUsageLost | `UsageKept`, assuming that a revision makes no definition one of workflows and leaves only | `Kept`: the innermost frame has counted exactly the calls that are not lost with an agent a crash cut off, no other frame counts more, and the newest checkpoint counts what the innermost frame does or, while an agent is under way, what its caller does. Without the condition usage lost below a sequence could come under a revision for which none may be missing |
| CompiledAgentsFindModels | `CompiledFindsModel` | `Admission`: while a call is on the stack that has begun, the definition compiles against the models there are, or these have changed; `CompiledResolves` is the fact about `compile` and `resolve`, which find agents in different ways |

`EventStoresProofs` is about each of the five stores, with any number of publishers, processes,
subscribers and faults:

| theorem | property | strengthening, and why it is needed |
|---|---|---|
| TypeCorrect | (`Typed`) | it is inductive |
| SubscribersHear | `EveryoneHears` | `PublishInv`: where a publisher is tells how many events it has begun (`Walking`); an event is stored when its append is over and not before its last request (`Storing`); a subscriber has heard of what is behind the publisher, once, and is in `todo` for what it has still to hear of (`HeardOnce`, `HeardAll`); `Listing` is the set of executions of Redis |
| StoresAreLogs | `ImplementsLog`, the refinement of EventLog | `Inv` adds how numbers are found: who is about to store holds the lock (`Locking`); a store that promises dense numbers has them, and who is about to store has the next one, or on PostgreSQL one that is not ahead (`Numbered`); what `incr` gave out is nobody else's (`Counted`); the rows of SQLite are sorted and a publisher's next number is above its own rows' (`Sorted`), so that what is read between others' rows is still after its publisher's own. Every step either writes one row (`Writes`), which is a `Log!Write` at `PlaceOf`, or leaves the log alone (`Rests`) |
| ReplayTellsAll | `TraceTellsAll` | `InOrder`, which follows from the refinement: a publisher's events are read in the order it published them. `Told`, of the first rows of the log: the steps so far tell the rows from the first start (`Opens`) on, and there are none as long as there is no start; `FirstFacts` identifies that row with `FirstStart` of the property |

`Trace` is a fold over the rows and `FlattenSeq` a recursive function. `ReplayExists` and
`ReplayAt` show for this fold, and `TellsAt`, `FlattenIs` for the flattening, that the function
exists and what it does at each row, again by a smallest counterexample; `ToldOn` is the step
from one row to the next.

`StreamsProofs` is about a streamed execution, for any agents, adapters and answers in any fragments,
any budgets and any number of failures, early ends and cancellations:

| theorem | property | strengthening, and why it is needed |
|---|---|---|
| SameAsWhole | `SameResponse` | `Fed`: as long as the stream is not cut, the events still on the wire lead (`Reads`) from what the adapter and the gateway have put together to the whole answer (`Goal`); when they are over, the adapter has it, and the gateway its text and the calls nobody held back |
| UsageCountedOnce | `UsageOnce` | `Fed` again, for the tokens; `Settled`: the agent's context has what its answers cost, the execution's has nothing until the agent is done, and all of it once it is completed, before a store hears of that; `Affordable`: the budget was looked at before the call that is being read |

`WireLeads` is the heart of it: for each adapter, reading the events of an answer from nothing leads
to the answer. It is put together from its parts with `ReadsOn` (texts, calls, fragments of calls,
usage; the prefix of a sequence grows by one element, `PrefixGrows`), and `ReadsFirst` takes one
event off the wire. `FlattensExists`, `FoldingExists` and `FoldingAt` show for the flattening of
fragments and for the two loops over calls that these functions exist and what they do at each
element, by a smallest counterexample; `ResponseIsWhole` is what the gateway makes of it, with or
without a forced tool call.

Assumptions: `RuntimeAssumption`, `AgentsAssumption`, `WorkersAssumption`, `FanoutAssumption`,
`EventStoresAssumption`, `CompilerAssumption`, `CompositionAssumption` and, for Streams,
`StreamsAssumption` and `SummaryAssumption` only (the
constants have their types; `None` is none of the values; there are finitely many workers, callers
of `recover`, branches, publishers and subscribers; a model answers with a text, calls and two
counts of tokens), plus what the theorems name; a response asks for finitely many tools. Calls,
processes, nodes, definitions, jobs, crashes, failing requests and the events of a publisher are
unbounded. That a publisher's events alternate between one that opens no step and a start is the
shape of the model (`Type`). Every step lemma goes through the actions one by one.

`Permissions` proves `LeastPrivilege`: what an intersection of permission sets allows, both
sets allow, whatever wildcards they have. It rests on `EverythingGrants`, that `*` grants
every permission, so that the short cuts of `intersect` are sound.

## 5. Where code and documents disagree

Two of these have a run whose counterexample is the behaviour of the code:

* WorkersRedelivery: a redelivered run job starts from nothing ("a redelivered job resumes
  rather than duplicating work", `distributed/worker.py:7-9`).
* EventsCollide: two emits of one execution that overlap compute the same number on
  PostgreSQL, and the second insert raises, which fails the execution
  (`persistence/postgres.py:5`, "concurrent appends can't collide").

The following were found with the models too. Each can be reproduced by changing a constant
of a run as said and checking the property:

* `resume` picks its checkpoint before it holds the lock and reruns nodes a newer checkpoint
  has completed (repository README, line 207, "Completed nodes are skipped, never rerun"):
  `CompletedNeverRerun` with RuntimeConcurrent.
* The 60 s lock lease is not renewed and an execution may run for 300 s (lines 244-245, "two
  workers can never drive the same execution"): `MutualExclusion` with
  `LeaseCoversHolder = FALSE` in RuntimeConcurrent, `OneDriver` with the same in WorkersExposed.
  Nothing calls `extend_lock`.
* A drive that fails to compile leaves a checkpoint without a hash, as the hash is stamped after
  `compile` (`workflows/workflow.py:172`, 181). Two overlapping resumes with different definitions
  both pass the comparison with it, and the execution goes on under one definition and then the
  other (260, "Rule 9: never resume against an incompatible workflow"): `HashNeverChanges` of
  Runtime without its condition on `hashes`.
* `cancel` reads a record, and a driver begins it before the cancelled copy is saved; the driver
  then overwrites the cancellation with its own copy (`core/types.py:136`, "Explicitly enforced
  state machine"): `StatusMachine` with the constants of RuntimeConcurrent.
* A job given up after its last attempt leaves its record running, and nothing tells `wait()`
  (`distributed/worker.py:251-254`): `WaitReturns` without `GivenUp`.
* When the save in `_complete` fails (`runtime/runtime.py:535`), `_fail` is refused the transition
  from completed to failed (616-626) and the stored record stays running: `NothingLeftRunning` and
  `StreamSettles` except it.
* A retryable error of the store while an answer is reported (`models/gateway.py:239-249`) is
  taken for one of the model (73-76): the answer is lost after it was counted, and the next
  fallback is called without a look at the budget. `ModelBudgetOutlivesResumes` with the bound
  `MaxModelCalls`.
* A crash loses what the agent under way has used, all of its model calls: it is merged only when
  the agent returns or raises (`agents/agent.py:150-182`), and no checkpoint is taken between its
  iterations. `UsageKept` without `lost`.
* A worker lost between `brpop` and `zadd` loses the job (`distributed/queue.py:8`, "Delivery
  is at-least-once"): `NoJobLost` with `"popped"` added to `Exposed` in Workers.
* An approval as a branch of a parallel node is filed under failures and the execution
  completes undecided (`approvals/approval.py:3`, "pauses the execution *durably*"):
  `ApprovalPauses` in Fanout.
* Nested workflows do collide (`workflows/workflow.py:175`, "so nested workflows never
  collide"): completed nodes are kept under the workflow's name and conversations under the
  node's id, so the second round of a workflow in a loop skips all its nodes, and two
  workflows with an agent of one name share its conversation. `SameOutcome` without
  `KeysApart` in Composition (`NestedRounds`, `SameNode`).
* `fork(from_step=0)` takes the last checkpoint of step 0 (`runtime/runtime.py:371`, "re-run
  from the very beginning"): transforms that precede the first agent stay completed.
  `ForkAsAsked` without its condition on the first node.
* `_rebind_model` copies agents and workflows only (`runtime/runtime.py:679`, "whose agents use a
  different model"): agents in sequences, routers, loops and parallel nodes keep their model in
  a fork with another. `ForkAsAsked` without `OnlyWorkflows`.
* The signature of a router has its keys and not their targets (`workflows/node.py:208`): a
  resume against another target passes the check. `SameOutcome` without `~Unnoticed`.
* The context builder spins for ever when a summary is no shorter than what it stands for
  (`context/builder.py:156`): the rounds change nothing, and no await lets another task run.
  `StreamSettles` without `Stuck`. It drops instructions that are larger than their share
  altogether (149-152), and gives up over the budget at the first section its own cap has
  emptied (158-160): `PromptSound` without its last two alternatives. Without a summariser
  the conversation has gaps, and a shortened one may begin with the result of a call that is
  gone, which some services refuse: `WireSound` without its condition.

## 6. What is not proved, not modelled, and planned

Only model-checked: liveness (`EveryCallEnds`, `LockIsReturned`, `JobsSettle`, `WaitReturns`,
`AgentStops`, `NodeEnds`, `PublishEnds`, `StreamSettles`), which needs ENABLED and is out of the
prover's reach; `SameOutcome` and `ForkAsAsked`; and `PromptSound` and `WireSound` of Streams.
`SameOutcome` and `ForkAsAsked` compare an execution with what RECURSIVE operators compute, which
the prover cannot use (`Outcomes` is a module of its own for that reason), and what these compute
would have to be shown by induction over trees. `PromptSound` and `WireSound` are about what `SelectSeq` and
`SortSeq` make of sections and messages, which the prover knows nothing of; where a proof needed
such a loop (`Remaining`), it is written as a fold.
Every other safety property the runs
check is proved, some under the conditions named in part 4. `TypeOK` is checked for Runtime and
proved for Runtime, Agents and Fanout; those of Workers and Composition are part of `Typed` in
`WorkersProofs` and of `InShape` in `CompositionProofs`.

Things the models show and no property promises.

* A remembered tool output that is `None` counts as no hit, so `RememberedNeverRedone` excludes
  such calls. An *idempotent* side effect is retried after it took effect; the key that should
  make this harmless is passed as metadata, which the two sandboxes of the repository drop.
* A deadline leaves no trace of what the running agent spent; a timed-out execution is final,
  so nothing builds on it. With `fail_fast`, a raising branch loses the usage of all branches,
  which is why `OverspendBounded` grows with the resumes. Sequence, router and loop nodes do
  not merge what a raising child used (`UsageKept` is about workflows and leaves, nested in any way), and neither does
  a failed or closed stream (`UsageOnce` is about completed ones).
* `recover()` ignores `max_attempts`, so `DeliveriesBounded` is about jobs it never touched.
* `Runtime.stream` takes no lock. Its deadline is looked at by `ensure_alive` at every step, call
  and chunk (`models/gateway.py:157`), never by a timer of the runtime;
  once it has passed, the record ends as timed out (`runtime/runtime.py:639`). A `CancelledError` inside leaves the
  record as it was; one before its `try`, or a store that fails there, leaves the execution in
  `_running` for ever, so that `cancel` flags a context nobody has. A consumer that closes at
  the last chunk gets a failure checkpoint into a completed execution. `cancel` does not reach
  a streaming agent, which looks at a context of its own.
* A replay files an event that ends a step under the step started last, whoever started it, and
  has no place for what precedes the first start. `TraceTellsAll` says no more than that.
* `ApprovalPauses` of Fanout says what the documents promise; no run checks it (see part 5).
* A stream that ends early, or whose service reports an error as an event, is taken for a
  complete answer (`cut` in Streams). A provider without a response of its own counts no tokens.
* `child(input=None)` falls back to the enclosing input, so that a node after a transform that
  returned `None` gets the workflow's input; `Eval` says the same.
* An agent that neither names a model nor needs a capability is not checked by `compile`.

Not modelled: the in-memory state store and queue, which do the modelled steps without the
windows between them; serialisation; the prompts and tool results a fork may override; the other side of a provider, its credentials and HTTP retries;
memories, sandboxes and rate windows, which appear as what they may answer; observability, CLI,
plugins and test fakes.

Plan, in this order:

1. An abstract queue (a bag of jobs, each acknowledged at most once) that Workers with
   protected windows implements; two callers of `recover()`.
2. Streams: the messages of a request as a fold, and `WireSound` proved of it for conversations
   that are not shortened; a reference for the outcomes of Composition that is a function on trees,
   and `SameOutcome` proved of it for definitions whose keys are apart.
3. The remaining overrides of `fork`; a resume after a
   broken-off batch of tool calls, with what each service says of such a conversation.
