# Tracecat: TLA+ models of the workflow engine and what surrounds it

Tracecat runs automation workflows: graphs of actions with branches, error
paths, scatter/gather and do-while loops, executed as Temporal workflows by
Python workers, with Redis, PostgreSQL and an object store beside them. This
directory models the parts of it whose correctness depends on order: which
coroutine runs next, which message arrives late, which process dies.

Paths below are relative to the repository's root; `scheduler.py`,
`workflow.py`, `common.py` and `schemas.py` are under `tracecat/dsl/`, and
`tracecat_ee/` is `packages/tracecat-ee/tracecat_ee/`.

## 1. Inventory

### The parts, their state and how they interact

| part | state | operations | talks to |
|---|---|---|---|
| **DSLInput** (`common.py`, `schemas.py`) | the action statements, immutable | validation of structure and scopes, adjacency, loop regions | read by the scheduler |
| **DSLScheduler** (`scheduler.py`) | queue, indegrees, edge markers, completed tasks, exceptions per task and per stream, streams, open-stream counters, loop indices, action contexts | `start()`, one coroutine per task, handlers for success, error, skip, scatter, gather, loops, the reset between iterations | awaits activities; calls `DSLWorkflow.execute_task` |
| **DSLWorkflow** (`workflow.py`) | permit flags, heartbeat task, execution counter, tier limits | run, execute a task, child workflows in batches, retry-until, permits, error handler workflow | Temporal activities and child workflows |
| **Tier permits** (`tiers/`) | a Redis sorted set per organization and scope; cached limits | acquire, heartbeat, release, count; TTL | called through activities by DSLWorkflow |
| **Case triggers** (`cases/triggers/`) | Redis stream and consumer group, lock keys, done keys, workflow status of comments | publish, read, claim idle, process, dispatch, acknowledge | starts workflows; one consumer per API process |
| **Executor pool** (`executor/backends/pool/pool.py`) | worker processes, active-task counters, recycling flags, lock | start, acquire, release, recycle, replace, shut down | runs the actions |
| **Durable agent, approvals, sessions** (`tracecat_ee/agent/`, `agent/session/`) | `curr_run_id`, approval rows, the workflow's expected calls and decisions, dedup keys | chat turn, record requests, submit decisions, wait, persist, execute, dismiss | Temporal updates, Redis, database |
| **Interactions** (`tracecat_ee/interactions/`) | interaction states in the workflow and in the database | prepare, wait for response, handle response | answers come through webhooks as Temporal updates |
| **Registry artifact cache** (`executor/registry_artifacts.py`) | mounts and directories on disk, a lock per key and process, the mount switch | look up, download, mount, extract, fall back | shared disk, object store |
| **Workflow schedules** (`workflow/schedules/`, `db/session_events.py`) | rows; Temporal schedules; callbacks after commit | create, update, delete, import, delete with the workflow | Temporal |
| **Platform registry sync** (`registry/sync/`, `db/locks.py`, `admin/registry/`) | versions, current version, artifacts, an advisory lock | elect, decide, sync, build, promote, select | PostgreSQL, object store |
| **Services** (cases, agents, skills, integrations, auth, tables, ...) | database records | CRUD, mostly one transaction each | HTTP API |
| **Sandbox, storage, expressions** | none of their own | run a process, store a value, evaluate a template | used by the above |

### What is hard

* **Interleaving.** Coroutines share dictionaries and interleave at every
  await; API and executor processes share Redis keys, a disk, a database.
* **Ordering.** Activities complete in any order; callbacks after commit run in
  the background in any order; a submission may reach a later turn than the one
  it was meant for.
* **Reset.** A loop iteration resets six dictionaries by hand, and scatters
  inside it create and remove streams.
* **Partial failure.** An error in a stream becomes a skip that must reach the
  right gather; a mount fails, then an extraction, then a download; a
  replacement process starts and its socket does not appear.
* **Late, lost and repeated calls.** Permit activities time out and are still
  executed; the Redis client repeats a command whose reply was lost; an activity
  that was given up commits after its retry.
* **Crashes.** A terminated workflow runs no `finally` clause; a consumer dies
  between dispatch and acknowledgement; an extraction is cut off half way.
* **Stale reads.** Decisions are written from a copy and read again; the
  version to promote was compared minutes earlier; a check for pending approvals
  precedes the start of a run.

`PROJECT.json` lists these under `hazards`, each with the line where it bites
and the properties that would notice.

### What makes each part correct

* Scheduler: a task is scheduled once per iteration and stream, after all of its
  dependencies are decided, and takes one of its paths; a gather waits for all
  streams and loses no error; loops run one iteration at a time and at most
  `max_iterations`; the cap of pending tasks holds; `start()` returns, and
  reports success only if nothing failed and nothing was left behind.
* Permits: never more permits than the limit, nor more running workflows as long
  as heartbeats arrive; a released permit stays released; waiters are served even
  after holders die.
* Case triggers: what is acknowledged was dispatched (at-least-once delivery);
  extra dispatches are owed to faults; every entry is acknowledged in the end,
  as long as a consumer is left and poison does not fill its claims.
* Pool: slots are counted exactly and stay within capacity; a worker has one
  process and one entry; every call ends.
* Approvals: calls are executed only by decisions of someone who saw them; the
  first submission decides; what a run waits for is pending in the database;
  accepted decisions are executed.
* Interactions: the row says what the action went on with; an accepted answer
  is returned.
* Artifact cache: what is returned is whole and stays so; one download per
  process; every request is served while a candidate is left.
* Schedules: Temporal mirrors the rows; nothing is left of a deleted workflow.
* Platform sync: the current version has its artifact; rollbacks are kept,
  nothing is downgraded, and the shipped version becomes current.

## 2. Modules

| module | what it is |
|---|---|
| `DSLGraph`, `DSLScheduler` | the static workflow and its validation; the scheduler that runs it |
| `MCDSLScheduler` | small workflows and the definitions that give the constants their values |
| `TierPermits` | semaphore, activities and the holders of permits |
| `CaseTriggers` | publisher, stream, consumers, keys, dispatch |
| `CaseEventDelivery` | abstract specification: at-least-once delivery; `CaseTriggers` implements it (`ImplementsDelivery`) |
| `ExecutorPool` | the warm workers of an executor |
| `AgentApprovals` | composition of chat turns, submissions, the durable workflow and its approval manager |
| `Interactions` | interactive actions of a workflow, their rows and the answers |
| `RegistryArtifacts` | requests of several processes for one artifact |
| `WorkflowSchedules` | rows, callbacks and Temporal schedules of one workflow |
| `PlatformSync` | the startup sync of several API processes |
| `MC...` | values for constants that a cfg cannot write down |
| `..._proofs` | theorems about `DSLScheduler`, `CaseTriggers`, `ExecutorPool`, `AgentApprovals`, `RegistryArtifacts`, `WorkflowSchedules`, `PlatformSync`; `DSLWorkflow_proofs` is about `TierPermits` and `Interactions`, what a workflow keeps beside its scheduler |

A definition `X_1` or `X_2` just before `X` is `X` with a plausible slip (an
off-by-one, a dropped guard, a missing reset). No specification uses it; putting
it in the place of `X` must violate the property `PROJECT.json` pairs it with.

In all modules a step is what one coroutine does from one await to the next, or
one command of Redis, one transaction, one attempt of an activity. Errors,
crashes, lost replies and cancellations are counted in `faults` (or `crashes`,
`cancels`) and bounded, so that a property can speak of behaviours without them.

### DSLGraph

`Refs`, `Action`, `DependsOn`, `JoinStrategy`, `HasRunIf` are the fields of the
action statements; `Rank` is the alphabetical order that makes `adj`
deterministic. `Workflows` holds several `DSLInput`s, so that one run covers
them all: a behaviour starts by choosing one. `ActionScope` and `ParentScope`
are what `_assign_action_scopes` computes (as a recursive function over the
dependencies instead of a walk with a queue; on a valid workflow every
dependency gives the same scope, which `ScopeDependenciesValid` demands).
`ValidStructure` is `validate_structure` without its checks of titles, unique
refs and expression references. It is an assumption (`ValidDSL`), evaluated by
TLC for every workflow that is run and used by the proofs for all others.
Four more assumptions say without recursion what proofs need of it, and TLC
evaluates them beside the recursive definitions for every workflow that is run:
`RefsAreSlugs` (a ref matches `SLUG_PATTERN`, so no ref is called like the root
scope), `ScopesDefined` (the recursive functions satisfy their equations),
`AcyclicDSL` (what the topological walk of the validation finds) and
`SynchronizedDSL` (what `_validate_loop_scope_synchronization` finds: whatever
starts in a loop leads to its `loop_end`).

### DSLScheduler

The variables are the scheduler's dictionaries, under their names. `edges` is
two sets, `visited` and `skipped`; every other edge is pending. A stream id is a
sequence of `<<scatter, index>>`. Three variables describe control: `main`
(where `start()` is), `inflight` (the spawned coroutines, each with the await it
has reached) and `delivered` (the coroutines whose activity has ended in this
activation).

| action | code |
|---|---|
| `Spawn`, `Wait`, `AllCompleted`, `Stop`, `ReturnExceptions` | the loop and the end of `start()` |
| `Begin` | `_schedule_task` up to its first await: propagated skip, `run_if`, reachability, dispatch by kind |
| `EvaluateRunIf` | the `run_if` activity returned |
| `ExecuteDone` | an action ended: success path, error path, platform failure |
| `LoopStartDone`, `LoopEndDone` | the two loop handlers; the latter with `_reset_loop_iteration_state` |
| `ScatterCollection`, `ScatterItem`, `ScatterDone` | `_handle_scatter`: the collection arrives, one stream per step (`cooperative` yields after each), then the counter |
| `GatherItem`, `GatherFinalized`, `EmptyGatherFinalized` | `_handle_gather` and `_handle_gather_result` |
| `Cancelled` | `task.cancel()` by `start()` and what the coroutine does with it |
| `Activate` | Temporal delivers some completions (external) |

Within an activation the model lets coroutines run in any order, which is more
than asyncio does (first in, first out); a property that holds here holds there.

Results are data. The exception is the list a gather assembles in the parent's
action context, because its length and its survival from one iteration to the
next decide whether the next write raises: each element is `unset`, `item`,
`error` or `old`, and `final` tells a finalized (perhaps externalized) list.

Left out: `start_delay`, `wait_until` and the scatter interval (they prolong an
await), `retry_until` (`workflow.py:760`; repeats the execution of one task,
counting each attempt), and the contents of contexts.

### TierPermits

`permits` maps the members of an organization's two sorted sets to the age of
their score, capped at the TTL; `ops` holds the operations that activities have
been asked for and Redis has not executed; `pc` is where each workflow, or the
task of each action, is. The three scripts and `get_count` are one atomic step
each (`RedisAcquire`, `RedisHeartbeat`, `RedisRelease`, `GetCount`); the limit an
acquire uses was read earlier, possibly from the stale cache, so it is any
member of `Limits`. A holder's side is `SendAcquire`, `AcquireReturns`,
`AcquireFails`, `SendHeartbeat`, `Finish`, `ReleaseReturns`, `ReleaseFails`,
`Terminate`, `Again`. An activity may be lost before it reaches Redis (`Lose`)
or fail for the workflow and be executed later. The clocks of the workers, which
supply `now`, are assumed to agree, and `now` is taken as the time of the script.

`HeartbeatsArrive` says that every permit in use is refreshed within a TTL. The
code sends a heartbeat every 60 s against a TTL of 300 s and only logs a failed
one, so this is an assumption about the platform, not something the code
ensures. It is a constant: `CountBounded` and `ReleasedStaysReleased` are proved
without it, `WorkflowsHoldPermits` and `WorkflowsWithinLimit` only with it.

### CaseTriggers and CaseEventDelivery

`entry` says where each stream entry is (an event may have two: `xadd` is
repeated after a lost reply), `locks` and `done` are the keys, `me[c]` the local
state of consumer `c`: its batch, message, workflow, and the flags `should_ack`
and "an exception is on its way". `dispatched` counts the executions asked for,
`starting` holds the background starts of `create_workflow_execution_nowait`,
which die with their process, `runs` what Temporal accepted.

| action | code |
|---|---|
| `Publish` | `publish_case_event_payload` and the failure branch of `create_comment` |
| `Read`, `ClaimIdleMessages`, `EnsureGroup` | the loop of `run()`; a claim offers the lowest ids that are idle (`Offered`) and takes them all |
| `Handle`, `Begin`, `LoadConfigured`, `NextTrigger`, `Commit` | `_handle_message`, `_process_message` |
| `Exists`, `Lock`, `SetDone`, `Unlock` | the keys around a dispatch |
| `DispatchConfigured`, `DispatchExplicit`, `CommitExplicit` | `_dispatch_workflow`, `_dispatch_selected_workflow` |
| `Ack` | `xack` |
| `DispatchRaises`, `Raise`, `AckRaises`, `RunRaises`, `Crash`, `Restart`, `Vanish`, `GrowIdle`, `ExpireLock`, `ExpireDone`, `Start` | what can go wrong, and the process around |

An error in the loop of `run()` itself ends the consumer's task (`pc` is `ended`);
the process lives on, and only a restart of the process brings a consumer back.
A claim comes only after a read that found nothing, as in the code; its two
commands, `xpending_range` and `xclaim`, are one step.

A `world`, chosen at the beginning and never changed, fixes what the environment
is like: which events happen, which are ignored (malformed, of a deleted case,
made by a workflow) or not entitled, the state of the definitions, and whether
consumers are `prompt`, that is, never slower than the 300 s of `lock_ttl` and
`claim_idle_ms`. With slow consumers a lock may expire under its holder.

`CaseEventDelivery` promises, without streams, consumers and keys, that an event
stays *owed* until everything it wants was dispatched; that it is then settled
and prompt consumers dispatch nothing more; and that only a failed publication or
a vanished stream voids it. The refinement mapping (`DeliveryState`) reads an
event's state off its entries.

### ExecutorPool

A `WorkerInfo` is identified with the process it was made for; `id` gives the
worker id, `workers` is the list `_workers`. `Start` is `start()`, `Acquire` and
`GiveUp` are `_get_available_worker()` with its 30 s limit, `Release` is
`_release_worker()` after the task has ended in any way, `Terminated`, `Spawn`,
`Ready`, `SpawnFails` are the awaits of `_recycle_worker()`, `Cancel` a
cancellation at an await, `Die` a process that dies by itself, and `Shutdown`,
`StopWorker`, `FinishShutdown` the walk of `shutdown()` over a list that others
change.

### AgentApprovals

`Runs` are chat turns, each with its workflow, `Submissions` requests to
continue; a submission stands for its decisions. `Validate`, `StartRun` are
`run_turn`, `CreateSession` is the activity that stores the run id again;
`AgentTurn`, `RecordRequest`, `Recorded`, `HandleDecisions`, `ApplyDecision`,
`ExecuteTools`, `NextTurn` are the loop of `DurableAgentWorkflow` with the manager
(rows are written one by one); `Send`, `LoadSession`, `CheckPending`, `Dedup`,
`Update`, `Undo` are `_continue_with_approvals`, with `validate_responses` as the
guard of the update. A submission may decide any of the calls that are pending;
one of `Dismissals` denies all of them, and when that fails, for any reason,
deletes the rows it saw one by one (`DeleteRow`, `delete_approval`).

The two activities write their rows one by one. `AttemptTimesOut` gives an
attempt up at its `start_to_close_timeout`: what it had still to write goes to
`late` and the next attempt begins with the first row. `LateWrite` commits such a
row at any later moment, which may reset a decided row to pending or create a
placeholder. `End` is a run that times out, fails or is terminated; its memory is
gone, its rows and late writes stay.

### Interactions

`status` and `data` are the state in the workflow, `record` the row, `late` the
writes of attempts that were given up and may still commit. `Prepare`, `Created`,
`RunAction`, `Answered`, `Updated` are `maybe_interactive` with
`prepare_interaction` and `wait_for_response`; `Failed` is an attempt of an
activity (three at most), `Accept` and `Reject` are `receive_interaction` with
`validate_interaction` and `handle_interaction`. `disturbed` holds the
interactions that were answered early or twice, or have a late write. No caller
passes a timeout, so the `TIMED_OUT` branch cannot be reached and is not there.

### RegistryArtifacts

The disk (`image`, `mounts`, `extracted`, `untarred`) is shared, `owner` and
`disabled` are per process. `Request` and `Look` are the lookup without the lock,
`Acquire` and `Relook` the one with it, then `Fetch`, `Mount`, `Fill`, `Publish`,
`FetchTarball` and the failing counterparts follow `materialize` through its
candidates. `Cancel` leaves behind what commands and threads go on doing,
`Crash` and `Restart` what a dead process or a rebooted host leaves on disk.

### WorkflowSchedules

A request commits a row and starts a callback (`CreateSchedule`,
`UpdateSchedule`, `DeleteSchedule`), the import of the workflow several at once
(`ImportSchedules`: every row is replaced, with `commit=False`). `UndoneImport`
is an import whose commit fails after the release of its savepoint has started
the callbacks: the rows stay, the callbacks run. `RunCallback` and `LoseCallback` are what
becomes of it; `ListSchedules`, `CleanUp`, `DeleteWorkflow` are
`delete_workflow`. `SpecOf` and `Respec` are the two translations of
`bridge.py`. `careless` holds schedules that had an update the two sides read
differently, `hasty` those whose requests overtook a callback, lost one, or were undone.

### PlatformSync

`Start` tries the advisory lock; `Decide`, `Try`, `Sync`, `SyncFails`, `Unlock`
are `_sync_as_leader` with its retries; `Build`, `Check`, `Promote` the
background task; `Choose` the selection by an administrator, `Stop` the end of a
process. A commit may give the session another connection (`Committed`; `moved`
records it), and the lock stays with the old one until the pool recycles it
(`Recycle`). `pinned` says that the last selection was made while no startup was
under way and all shipped versions were recorded.

## 3. Runs

| run | instance | shows |
|---|---|---|
| `Failures` | diamond with an error path; scatter with an error path in the body and an independent branch; scatter whose gather raises. Eleven actions may fail, two as platform errors, execution limit 4, results externalized | the cap of pending tasks holds, a task is scheduled once and opens one path (scatters and gathers aside), an exception that was recorded makes `start()` fail |
| `Scopes` | six workflows: scatters of 0 to 3 items, a scatter in a scatter, a loop in a loop, a loop in each stream, a scatter in a loop | counters and markers agree after each reset, loops and gathers are barriers, iterations are bounded, every error is at its index, streams are counted exactly, actions run in their scope, success is complete, `start()` returns |
| `Permits` | two workflows, one action of a loop, limit 1, TTL of two ticks | limit of permits and of running workflows, finality of release, service of waiters |
| `Triggers` | two consumers, two events, two workflows, five worlds, one of them with poison in front of another event, one fault | acknowledged is settled, duplicates need faults, refinement of `CaseEventDelivery`, every entry is acknowledged, also behind poison that leaves room in the batch |
| `Pool` | four calls, two workers with two slots, recycling after two tasks, one crash, one cancellation, five processes | slots, one process and entry per worker, an undisturbed recycle ends in a replacement, every call ends |
| `Approvals` | two chat turns that may overlap; one asks for an approval and then for two, the other for one; decisions and a dismissal, one fault | who decides, what is recorded, that what is waited for is pending, that what is accepted is executed |
| `Interactions` | two interactions, three answers, four failed attempts | row and result agree, accepted answers are returned |
| `InteractionEarly` | the same without faults; violation | section 5, 2 |
| `Artifacts` | three requests in two processes, three faults | what is returned is whole, one download, every request served |
| `Schedules` | two schedules, four requests with twelve bodies and two remote schedules, one lost callback or undone import | mirror, no double trigger, no orphans |
| `Platform` | two processes of one or two releases, three starts, three faults, one selection | artifact of the current version, rollback kept, no downgrade, promotion |
| `NestedSkip` | one workflow; violation | section 5, 1 |

`TypeOK` of each module is not a run's property; for the modules with proofs it
is a theorem.

### Bounds

* Workflows of four to seven actions, chosen so that each handler meets each
  other one: error path into an any-join, skip into a gather, loop inside
  scatter, scatter inside loop, nested scatters, nested loops.
* Collections of 0 to 3 items: empty, one stream that is first and last, enough
  streams for a middle one. `max_iterations` 2 or 3: a first, a repeated and a
  refused iteration. `max_pending_tasks` 2 and a spawn batch of 2 (16 in the
  code), so that cap, batch and queue run out in different orders. Execution
  limit 4: reached in the middle of a scatter.
* Permits: with a limit of 1 two workflows already compete; other limits and
  more holders are covered by the theorems. Ages stop at the TTL, so time needs
  no bound.
* Triggers: two consumers are enough for every race on a job; one fault at any
  of some twenty places. The fault may also duplicate the poison, which then
  fills the batch of two; any number of faults, consumers, events and workflows
  is covered by the theorems. The worlds separate settings that do not interact.
* Pool: two tasks fill a worker, four fill the pool; a worker is recycled after
  two; five processes allow three replacements.
* Approvals: a second turn of a run, and a second run, is what a delayed
  submission or a late write can hit wrongly; two submissions compete, one of
  them a dismissal; the turn with two tool calls lets one row be written and the
  other not. What each turn asks for is the constant `Asks`.
* Interactions: three failed attempts exhaust one activity, the fourth hits the
  next one.
* Artifacts: two requests in one process compete for the lock, the third has a
  process of its own and only the disk in common.
* Schedules: create, two updates and a deletion of one schedule, or work on
  another beside it; an import replaces one by the other.
* Platform: an old and two new versions, so that there is one to go up to and
  one to go down to.

Beyond these bounds the theorems of section 4 speak for every safety property;
for the properties of scatters and loops they do so for the classes of workflows
named there.

### Fairness

* Scheduler: `WF_vars(Next)`. Every activity has a start-to-close timeout, so
  Temporal eventually delivers an outcome for each, and it keeps running a
  workflow that can make progress. Nothing obliges a loop to end: its condition
  may hold for ever, and `Terminates` rests on `max_iterations`. `Failures` uses
  the same fairness for `FailureIsReported`.
* Permits: weak fairness for each step a workflow takes by itself, for each
  operation under way and for time. Nothing obliges a workflow to give up, to be
  terminated, or to lose an operation.
* Triggers: weak fairness only. A consumer's task runs, time passes (locks
  expire, pending entries grow idle), and the deployment replaces a process that
  is gone. Nothing restarts a consumer whose task has ended while its process
  lives (`api/app.py:246` creates it once): the property then promises nothing.
  Nothing makes a claim take a particular entry: `xpending_range` offers the
  lowest ids, poison comes back each time, and the entries behind it are reached
  because the property leaves out poison that fills the batch. Fairness never
  forces a fault.
* Pool: the waits have time limits (30 s for a slot, 300 s on the worker, 5 s for
  SIGTERM, the startup timeout of a socket).
* Approvals: weak fairness of the steps of each workflow, because Temporal keeps
  workflows going and retries activities. Nobody has to decide or to chat; no run
  has to end, and an attempt that was given up need not write. Timeouts of
  attempts are bounded by `MaxFaults`, so a retry succeeds in the end.
* Interactions: Temporal keeps workflows and activities going; nobody has to
  answer.
* Artifacts: the event loop runs tasks whose await is over; `asyncio.Lock` wakes
  its waiters in order, hence strong fairness of `Acquire`.
* Platform: processes are started and their tasks run.
* Schedules: nothing is assumed; only safety is checked.

## 4. Proofs

TLAPS checks these for every value of the constants that satisfies the named
assumptions.

`DSLScheduler_proofs` (the assumptions of `DSLGraph`, and `SchedulerConstants`), for
every valid workflow:

* `TypeCorrect`: every table of the scheduler stays well formed. The invariant
  is split into six groups (control, marks, errors, scopes, loops, rest), each
  building block of an action has a lemma that says which groups it keeps, and an
  action's lemma combines those of its parts. Validation is needed where the
  code relies on it: a `loop_end` closes the scope of a `loop_start`
  (`LoopEndCloses`), so that the index it stores belongs to a task.
* `PendingIsBounded`: at most `max_pending_tasks` coroutines. Only `Spawn` adds
  coroutines, and the batch it takes is bounded by the room that is left.
* `LoopsAreBounded`: every index is below `max_iterations`. Inductive together
  with the fact that only a `loop_end` waits for a condition, and with the
  validated fact that no two `loop_end`s close the same scope.
* `PathsAreExclusive`: no task but a scatter or a gather opens a success and an
  error path. Inductive together with two facts (`PathsOK`, `AwaitFits`): what is
  visited is an edge of the task that marked it, and a coroutine makes only the
  awaits of its kind, so that the outcome of a task overwrites all markers of its
  edges, also those an earlier iteration left. The first attempt, without the
  exception, failed on the gather, and section 5 says why.

For workflows without scatters (`Unscattered`: any acyclic graph of ordinary
actions and loops in loops, with joins, `run_if`, error paths, failures and
limits):

* `UnscatteredScheduledOnce`, `UnscatteredIndegreesMatch` and
  `UnscatteredLoopBarrier`, from the invariant

      OneWorkflow /\ NoStreams /\ MarkedInOrder /\ IndegreesMatchEdges /\ ScheduledOnce

  Tasks begin within one workflow, in the root stream; edges are marked when their
  source is *over* and before their destination begins. A task is over when it
  has ended in the iteration the loops around it are in: `completed_tasks` alone
  does not tell, because the `loop_end` that starts an iteration is put into it
  after the reset. Hence the edges a task marks had no marker, the number
  subtracted from an indegree is the number of pending edges it loses, and
  whatever gets to zero has not begun. The reset needs two facts about a region.
  It is entered by its `loop_start` and left by its `loop_end` only
  (`LoopRegion`), so the edges the reset clears are those the new iteration will
  mark. And when the `loop_end` runs, nothing else of the region is queued or
  running (`RegionEmpty`): otherwise follow the dependencies of what is, and of
  the `loop_end`, backwards; everything there is over (`SynchronizedDSL`). None of
  the properties is inductive without the others.
* `UnscatteredSuccessIsComplete`, from `NothingWaits` in addition: until the
  workflow fails, whoever is over has decided all its edges, and a task whose
  edges are decided has been queued. If `start()` reported success with actions
  left, one of these would depend on none of the others (`AcyclicDSL`) and would
  have been queued.

For workflows with scatters in scatters (`Regular`): no loops; scatters and
gathers are not `Fallible`, need one dependency that was not skipped (`any`, or
one dependency at most) and do not `raise`; no limit on executions; a scatter is
closed by one gather, and what runs in its streams leads to that gather. Actions
fork, join, fail, handle errors, are skipped and start subflows as they like, and
a scatter may be skipped or have an empty collection. What fails outside the
class is listed below under "Model-checked only".

* `RegularGatherBarrier`, `RegularOpenStreamsExact`, `RegularExecutesInScope` and
  `RegularScheduling`, from the invariant `RInv` of eight parts:
  where tasks begin (`PlacesOK`: in a stream of their own scope, or adrift behind
  a scatter that was skipped), counters and markers (`CountsOK`, `MarkersOK`: an
  edge is marked once, by the task, stream or gather it leaves), streams
  (`StreamsOK`: prefix-closed, each with the scatter that made it), the counters
  of a scatter (`ScattersOK`), awaits (`AwaitsOK`), `FreshOK` (while a scatter
  still creates streams nothing in them is past its first await, which is why
  `open_streams` may be set last) and `GathersOK` (what `open_streams` counts, and
  who finalizes a list).

  A step of a coroutine is described once, by what it leaves alone (`Keeps`), the
  edges it marks and the tasks it queues (`Grown`) and what becomes of its own
  streams (`Own`); these three imply every part but the last, which is shown for
  steps that close nothing (`QuietStep`), for `CloseStream` and for the
  publication of a list. The argument that makes the barrier hold is `Alone`: when
  the gather of a stream begins, nothing else is left in the stream or below it,
  because the dependencies of the gather, followed backwards, are all that runs
  there, and each of them has ended (for a nested scatter: its gather has stored
  the final list, and its streams are quiet). Once `start()` stops, the invariant
  is given up and the barrier is kept by itself (`StoppingKeeps`): a cancelled
  coroutine queues tasks in its own stream only.

  TLC checked `RInv` before the proof, on a scatter whose body forks, joins, fails
  and handles errors and on the nested scatters of `MCDSLScheduler`, both with
  empty collections (206,559 states).

* `RegularErrorsKept`, from `FailuresOK` in addition: once the gather of a stream
  that failed has closed it, the list has the error at the index of the stream, or
  an item if the gather was reached. For this each step is also described by what
  becomes of its stream (`Upshot`: it records an error, or visits edges behind one
  outcome, in a new stream or behind a gather) and of the lists (`Quiet`,
  `Recorded`, `Published`). A gather goes on to its items only if an edge into it
  was visited (`Entered`, kept in `AwaitsOK`); otherwise it records what
  `_handle_gather_skip_stream` finds in `stream_exceptions`. An error cannot come
  after that, because nothing else is left in the stream (`Alone`).
* `UnforkedErrorsGathered`, for regular workflows in which, below scatters, at most
  one action follows each outcome of an action, each scatter and each gather
  (`Unforked`; error handlers, joins and nesting remain). The invariant `TokensOK`
  says that a stream has one path: at most one task in it has been reached and not
  passed (`Holds`), none if the stream failed. A scatter is passed when its gather
  has stored the list, so the path goes through the streams below and comes back.
  A gather is never passed in its own stream, hence one that was reached is in a
  stream that did not fail. While `start()` stops, both results are kept by the
  barrier (`StoppingErrors`): what is cancelled is in none of the streams of a
  gather that is being finalized.

  TLC checked `FailuresOK` and `ErrorsKept` on the forking workflows above, and
  `TokensOK` and `ErrorsGathered` on unforked ones with nested scatters and error
  handlers (2,029,392 states).

`DSLWorkflow_proofs` (`PermitConstants`, `InteractionConstants`). The inductive
invariant of the permits is

    TypeOK /\ CountBounded /\ AcquiresMatch /\ ReleasesMatch /\ FreedIsGone
           /\ (HeartbeatsArrive => WorkflowsHoldPermits)

`AcquiresMatch` and `ReleasesMatch` say where a workflow is while an acquire or a
release of its own is under way: no release can strike a running workflow, and
no acquire can bring back a permit that was released. From it follow
`CountIsBounded`, `ReleaseIsFinal`, `RunningHoldsPermit` and
`RunningWithinLimit`; the last maps the running workflows into the members of
the set.

The inductive invariant of the interactions is

    InteractionTypeOK /\ (\A i \in Interactions \ disturbed : AnswerFacts(i))

`AnswerFacts(i)`: no late write is on its way; a completed interaction holds an
accepted answer that was meant for it; while the row is being saved the workflow
still has the answer that is being written; and once the action has gone on, the
row is the one with that answer. Every action that could break a part of it puts
`i` among the disturbed. Hence `InteractionsRecorded` (`ReturnedIsRecorded`) and
`InteractionsTyped`.

`ExecutorPool_proofs` (`PoolConstants`). The inductive invariant is

    Flags /\ Tables /\ Holding /\ OldAreGone /\ LastIsRecycled /\ Listed
          /\ SlotsExact /\ NoTaskOnRecycled

`Flags` and `Tables` are `TypeOK`. `OldAreGone`: of the processes of a worker id
all but the last were marked and have exited. `LastIsRecycled`: a task that
recycles, until it spawns, works on the last process of its worker, which has
exited when the replacement is spawned. `Holding`: a worker is recycled by one
task. With these a replacement meets no living sibling, and a cancelled recycle
finds the counter it decrements again at zero, because nobody executes on a
marked worker. Hence

* `SlotsAreExact`: `active_tasks` is the number of tasks that execute, within
  capacity;
* `RecycledIsIdle`: nobody executes on a worker marked for recycling;
* `ProcessIsUnique`: one live process and one entry per worker id;
* `PoolTyped`;
* `MarkedIsRecycled` (`UndisturbedRecycle`), with a second invariant on top,
  `RInv`: until something is cancelled, crashes or is shut down, tasks execute on
  and recycle listed workers, a listed worker lives until it is marked, and a
  replacement is neither listed nor marked while it starts. A marked worker is
  then alive when its process is told to terminate, so that `terminate()` does
  not raise and the task that marked it goes on to recycle it.

`PlatformSync_proofs` (`SyncConstants`). The inductive invariant is

    Flags /\ Tables /\ BuildsRecorded /\ BuiltIsUploaded /\ ExpectedIsLower
          /\ LeaderHolds /\ CurrentHasArtifact /\ PinnedIsQuiet

`BuiltIsUploaded` and `BuildsRecorded` carry the artifact from the build to the
promotion; `ExpectedIsLower` says that the version a sync compared with is not
above its own, and is what remains of the guard minutes later; `PinnedIsQuiet`
says that after a pinned selection nobody syncs, and whoever builds builds the
version that is current. Hence

* `CurrentIsBuilt` (`CurrentHasArtifact`), `PromotionIsUpwards` (`NoDowngrade`),
  `RollbackIsKept` (`RollbackKept`, an action property), `LeaderIsOne`
  (`OneLeader`: one leader as long as no session has changed its connection) and
  `SyncTyped`.

`CaseTriggers_proofs` (`CaseTriggerConstants`). The inductive invariant is

    TypeOK /\ Local /\ OfflineUnusable /\ DoneSettled /\ Progress
           /\ AckedIsSettled /\ Hands /\ Sections /\ Bounds

`Local`, `Progress` and `DoneSettled` carry a dispatch from the step that makes
it to the acknowledgement: what a consumer has been through is settled, a done
key tells the truth, and `should_ack` is only still set if every workflow so far
is settled. `Hands` and `Sections` are for prompt consumers: no two have a
message in hand, and whoever dispatches holds the lock. `Bounds` charges the
dispatches of a workflow, made and about to be made, to faults. Hence

* `AcknowledgedIsSettled` (`AckedIsSettled`), for prompt and slow consumers;
* `DuplicatesBounded` (`DuplicatesNeedFaults`). The proof corrected the bound:
  one fault per extra dispatch is enough only while the event has one entry
  (section 5);
* `Implements` (`ImplementsDelivery`): every step is a step of
  `CaseEventDelivery` or leaves its variables unchanged, under the mapping
  `DeliveryState`, action by action;
* `Typed`.

`WorkflowSchedules_proofs` (`ScheduleConstants`: among others, `None` is not a
row, a status or a set of schedules). The inductive invariant is

    TypeOK /\ NoDouble /\ (\A s \in Schedules \ hasty : Orderly(s))
           /\ (~exists => no schedule has a row) /\ Rows \subseteq used

`Orderly(s)`: a schedule whose requests waited has at most one callback, which
owes exactly the difference between row and Temporal, and agrees when there is
none. An import starts several callbacks at once; that its new ids are not those
of the rows it deletes (`Rows \subseteq used`) gives each schedule one. Hence `RowsMirrored` (`Mirrored`), `NothingOrphaned` (`NoOrphans`) and
`Typed`.

`AgentApprovals_proofs` (`ApprovalConstants`: no submission is called
`"pending"`, and no run or submission is `None`). The inductive invariant is

    TypeOK /\ (\A r : RunFacts(r)) /\ (\A c : SightedFacts(c) /\ RowFacts(c))
           /\ LateFacts /\ Faultless

`RunFacts` says what the manager of a run expects and holds in each step of the
loop. `RowFacts` follows the rows of a turn from the first write to the wait:
what is written is pending, unless a dismissal took it away, and an attempt that
starts again does not undo that. It needs `LateFacts`: a decision that may still
be written late is about a call its run does not wait for any more. `Faultless`
says that without faults the submissions that passed the deduplication have keys
of their own, so that one of them reaches a turn, and that only a run that has
ended leaves late writes. Hence `SightedDecide` (`DecidedBySighted`, with any
faults), `FirstSubmissionWins` (`FirstWins`), `WaitingCanBeSeen`
(`WaitingIsVisible`, with any timeouts, late writes, ends and dismissals) and
`Typed`.

`RegistryArtifacts_proofs` (`ArtifactConstants`: `None` is neither a task nor a
format). The inductive invariant is

    TypeOK /\ Whole /\ Requests /\ ReturnedUsable /\ Faultless

`Whole`: no half-extracted directory is ever visible, because it is filled
elsewhere and renamed. `Requests`: which candidates a request has left in each
step, that one request per process is between `Acquire` and release, and that a
request that is done has a path. `Faultless`: without faults a download leaves
something the second look finds, also if the sidecar appears later. Hence
`ReturnedIsUsable`, `OneDownload` (`DownloadedOnce`) and `Typed`.

Model-checked only:

* Liveness (`Terminates`, `WaitersAreServed`, `EveryMessageAcked`,
  `FailureIsReported`, `EveryTaskEnds`, `AcceptedIsExecuted`, `AcceptedIsReturned`, `Served`,
  `TargetPromoted`): fairness and ENABLED are out of the prover's reach.
* `ErrorsGathered` for streams that fork. It is false of some of them: one branch
  may fail while the other reaches an `any` gather, which then records the item and
  not the error; `RegularErrorsKept` says that nothing worse can happen. The run
  `Scopes` checks streams that do not fork, also with loops in them or around them
  and with gathers that raise.
* The scheduler with scatters outside `Regular`, and loops in or around scatters.
  There the properties fail on particular valid workflows, so each hypothesis is
  needed: a gather or scatter that fails, or whose join is not satisfied, goes on in
  its own stream instead of the one its successors belong to; a branch that does
  not lead to the gather may outlive it; two gathers of one scatter each count the
  stream as closed; a limit that fails a body action before its first await meets
  an `open_streams` that is not set yet; and the reset of a loop keeps skip streams
  and old lists (section 5). The runs `Failures` and `Scopes` check instances.
* `SuccessIsComplete` with scatters: `NestedSkip` refutes its second part even for
  a regular workflow.

## 5. Where the code and its description disagree

With a run that shows it:

1. `NestedSkip`: a scatter that `run_if` skips inside a stream of another
   scatter. The skip continues in a skip stream that the inner gather never
   leaves (`scheduler.py:1376-1380`), so the outer stream is never closed, its
   gather never completes, and `start()` reports success. The comment at
   `scheduler.py:1417` says that the stream is closed "regardless of whether we
   skipped our way to this point".
2. `InteractionEarly`: an answer accepted between preparing the interaction and
   waiting for it is overwritten by `PENDING` (`interactions/service.py:193`);
   the workflow waits for ever, although `webhooks/router.py:614` told the
   caller "Interaction processed successfully".

As a hypothesis of a property, which fails without it:

* `DuplicatesNeedFaults` (prompt consumers): a consumer slower than `lock_ttl`
  deletes a lock that is no longer its own (`consumer.py:263`), and the done key
  is asked for before the lock is taken (`consumer.py:225`). With two entries of
  an event the bound is two dispatches per fault: a lock refused on another
  workflow leaves an entry pending, and when a done key expires both entries
  dispatch again. It takes three workflows and two faults, more than the run has;
  the proof found it.
* `ExclusivePaths` (no scatter, no gather): a gather that completes queues all
  its edges (`scheduler.py:1599`, after the comment "TODO: Handle unreachable
  tasks??"), so the handler on its error path runs although nothing failed; a
  scatter does the same in every stream (`scheduler.py:1206`).
  `docs/automations/actions.mdx:47`: "The error path [...] runs when the action
  fails." Met when the proof did not go through without the hypothesis.
* `AckedIsSettled` speaks of dispatching: the background start
  (`workflow/executions/service.py:1387`) is acknowledged before it has
  succeeded, and its failure is only logged.
* `UndisturbedRecycle`: a worker whose recycling task is cancelled stays marked
  (`pool.py:105`) and in the list, and is never used again. While `shutdown()`
  walks the list (`pool.py:1317`) an entry may be removed before its index, and
  the next worker is not terminated.
* `FirstWins` (no faults): after a lost reply the marker is cleared
  (`agent/session/service.py:1494`) although the workflow has the decisions, and
  a second submission replaces them while they are being recorded; "First
  decision submission wins" (`:1432`).
* `EveryMessageAcked` (room in the batch, a consumer left): entries that raise at
  every delivery and fill the batch of a claim (`consumer.py:796`) starve the
  ones behind them, and an error that ends the loop of `run()`
  (`consumer.py:105-107`) leaves the process without a consumer
  (`api/app.py:246`).
* `WaitingIsVisible` (`"deleted"`): `delete_approval` deletes the rows it saw
  whenever its update failed (`approvals/router.py:211-216`). If it saw one of two
  rows, because the other was still being recorded, the live workflow rejects
  the update and goes on to wait for a call nobody sees, against the docstring
  (`:164`): "If the workflow is already gone, delete the approval records
  directly". A run that has ended leaves its rows pending, and a late attempt to record
  requests may reset a decided row to pending (`approvals/service.py:746`);
  either locks the session until somebody dismisses the row.
* `AcceptedIsExecuted` (accepted): of two chat turns that begin together the
  later one owns `curr_run_id` (`agent/session/service.py:1298`), and decisions
  about the calls of the earlier one, which waits, are sent to the wrong workflow
  and rejected, against `durable.py:902-903`, "so approval continuation can target
  the exact live workflow later".
* `ReturnedIsRecorded` (undisturbed): a second answer, or a write that outlives
  its attempt, makes row and result differ; "DB interaction states are the
  source of truth" (`interactions/service.py:87`).
* `NoOrphans` (`hasty`): a creation whose callback is still to come survives the
  deletion of its workflow (`management.py:784-785`, "prevents orphaned
  schedules").
* `Mirrored`, `NoOrphans` (`hasty`): the callbacks of an import whose commit fails
  run all the same (`db/session_events.py:47` listens to commits, of savepoints
  as well, and nothing listens to rollbacks), although "Any failure rolls the
  whole batch back" (`workspace_sync/service.py:882`).
* `Mirrored` (`careless`): an update of the inputs raises in the callback
  (`bridge.py:164`: the argument of a described schedule is a payload), and with
  it the other fields of the same request are lost; an update of one specifier
  clears the other in Temporal only (`bridge.py:172`).
* `OneLeader` (`moved`): the lock is released on the connection the session has
  by then (`jobs.py:117-118`).
* `NoDowngrade` (version unchanged since the check): `jobs.py:389` compares,
  the promotion writes in a later statement.
* `TargetPromoted` (no faults): a version that was recorded before its build
  failed is taken for a rollback at every later start (`jobs.py:175-184`) and
  never promoted.

Met while reading, without a run:

* A skipped scatter and a join with another branch: the join is never reached,
  against the comment at `scheduler.py:628-629`. The comment at
  `scheduler.py:1052` calls a skipped loop one unit; with a scatter in it the
  skip stays in the skip stream.
* An empty collection in a loop: the reset does not remove the skip stream, and
  indegrees of its tasks go below zero in the second iteration. `Scopes`
  therefore scatters two items in every iteration.
* An error in a loop in a stream is swallowed at `loop_end`
  (`scheduler.py:1094-1104`); a gather with the `raise` strategy does not raise.
  `Scopes` has no failing action there.
* `docs/automations/actions.mdx:146` says that `any` continues "after the first
  branch completes"; a join is queued only when every dependency is decided.
* A gather in a loop writes into the list of the previous iteration
  (`scheduler.py:1468`); with another size, or externalized, the write raises.
* `open_streams` is set after all streams exist (`scheduler.py:1208`). If a body
  action fails without awaiting, its gather meets a missing key.
* A gather whose `items` expression fails never closes its stream.
* The release of an action permit that times out may be executed during the
  next iteration, which reuses the permit id (`workflow.py:2029`).
* The timeout of a response interaction (`interactions/schemas.py:46`) is not
  passed to `wait_for_response` (`decorators.py:50`).

## 6. Plan

Done: the modules of section 2 and the proofs of section 4. Next:

1. Proofs about scopes: loops in the streams of a scatter, where the invariants
   `UInv` and `RInv` meet.
2. `AbstractWorkflow`: a workflow without queue, coroutines and counters, in
   which a task may start once its dependencies are decided; `DSLScheduler` on
   unscattered workflows refines it (`UInv` and `NothingWaits` are the invariants
   this needs).
3. Child-workflow batches and `retry_until` of `DSLWorkflow`.

## 7. Not modelled

Database services (cases, tables, skills, presets, integrations, workspace
sync), the MCP server, authentication: one transaction or one call per request,
whose correctness is that of the queries. They make up most of the code's lines,
so the models cover a small share of the repository; they are the parts a test
reaches well. Expressions, storage, parsing and packaging of registry actions:
data and I/O; where an outcome matters it is a nondeterministic choice. Agent
runtime, streams and history: what crosses the approval loop is modelled, the
rest is I/O. Of the approvals, what a tool does when it is executed and
a workflow that fails on its own code are not distinguished from `End`; entry ids
of the stream follow the order of publication. Sandbox: process isolation by the operating system. Frontend: no
execution logic. `PROJECT.json` gives the reason for each.
