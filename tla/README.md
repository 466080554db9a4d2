# Formal models of wise-team / Agno

This directory holds TLA+ models of the parts of the repository that run
concurrently, survive restarts or follow a protocol, the TLC configurations
that check them on small instances, and theorems about them that the TLA+ proof
system checks.

## 1. The system and its components

The repository is a fork of the Agno SDK (`libs/agno/agno`) with a thin
composition layer (`wiseteam_os/`) and the fork's own prototypes
(`tests/poc/wiseteam`, `tests/poc/inpp`). The SDK builds *agents*, *teams* and
*workflows*, runs them, stores their sessions in a database and serves them over
HTTP ("AgentOS").

| Component | State | Operations | Interacts with | Hard behaviour |
|---|---|---|---|---|
| **Scheduler** `scheduler/poller.py`, `executor.py`, `cron.py` | `schedules` and `schedule_runs` tables; per process: the poll loop, `_in_flight` tasks, `_stop` flag | claim a due row, execute with retries, release, stop, manual trigger | databases (claim/release), AgentOS routes (HTTP call to itself), schedule REST handlers | several processes share the table; stale locks; crash between claim and release; cancellation inside `finally` |
| **Schedule administration** `os/routers/schedules`, `scheduler/manager.py` | the same tables | create, patch, enable, disable, delete, trigger | scheduler | each handler reads, then writes; names are unique only by a prior read |
| **Background calls** `executor._background_run`, `_poll_run`, `_call_endpoint` | the remote run's status, the poller's deadline | submit, poll, map to success/failed/paused | run routes | time-out while the remote run goes on; retry starts a second run |
| **Run event streams** `os/managers.py`, `agent/_run.py` background streams, `/resume` routes | per run: event buffer, status, subscribers' queues | add event, publish, complete, resume, subscribe, clean up | agent/team/workflow runs, SSE clients | producer and resuming clients interleave; replay and live feed must join without gap or duplicate |
| **Cancellation** `run/cancel.py`, `run/cancellation_management` | run id -> cancelled? (in memory or Redis) | register, cancel, is_cancelled, raise_if_cancelled, cleanup | every run loop, `/cancel` routes | cancel before the run starts, after it ends; two managers' locks; TTL |
| **Approvals / HITL** `run/approval.py`, `run/requirement.py`, `os/auth.py`, `/approvals` and `/continue` routes | approval rows (status, resolution), paused run, its requirements and tools | pause, create approval, resolve (compare-and-set), delete, gate, apply, continue | agent run, database, REST | two reviewers, continue racing resolve, stale or deleted approval |
| **Agent run** `agent/_run.py` | run output, session, memory tasks | run, stream, retry, pause, continue, cancel, background | models, tools, sessions, cancellation, approvals, events | exception paths must all end in a final status; retries; session upserts |
| **Team run** `team/_run.py`, `task.py`, `_task_tools.py` | task list with dependencies, member runs | create/update/execute task, delegate, parallel execution | agents, sessions | dependency bookkeeping; parallel member runs |
| **Workflow engine** `workflow/` | step outputs, loop/condition/router progress, paused step | steps, loop, parallel, condition, router, pause, continue | agents, teams, sessions | early stop, nested pause/continue, parallel branches |
| **Sessions and databases** `session/`, `db/*` | session rows with their runs | read, upsert, delete, rename | all runs | whole-row upsert loses concurrent updates |
| **Memory, learning, culture** `memory/`, `learn/`, `culture/` | user memories, learned items | model-driven add/update/delete | models, databases | model output decides; background tasks |
| **Knowledge, vector stores, readers** `knowledge/`, `vectordb/` | contents table, vectors | insert, update, remove, search | databases, embedders | status of an insertion that fails half way |
| **AgentOS application** `os/app.py`, routers, `interfaces/`, `client/`, `remote/` | registered agents, HTTP state | routing, authentication, serialisation | all | mostly I/O |
| **Models, tools, reasoning, guardrails, hooks, skills, tracing, eval, compression** | none that outlives a call | provider adapters, function calls | agent run | I/O, parsing |
| **wiseteam: intenture lifecycle** `tests/poc/wiseteam/lifecycle.py`, `algedonic.py`, `vergil.py` | lifecycle state, pending escalation | transition, evaluate, escalate | human steward | forward/return graph, freeze guarded by CRT |
| **wiseteam: agent versions** `tests/poc/wiseteam/versioning.py` | stack of saved versions | push, tail, rollback | knowledge keeper | rollback at the bottom of the stack |
| **wiseteam composition** `wiseteam_os/` | none | builds agents and AgentOS | SDK | configuration only |

### What makes each component correct

* Scheduler: one execution of a schedule at a time (until one outlives the
  grace period); every due time served once; a lock never stays for ever;
  `max_concurrent` respected; after `stop()` nothing runs; every run record
  reaches a final status.
* Schedule administration: names unique; `next_run_at` agrees with the cron
  expression in the row.
* Background calls: "success" is recorded exactly when the remote run completed.
* Run events: a client that resumes sees every event after the index it gives,
  once, in order, then the end; every stream ends; no subscriber is leaked.
* Cancellation: a cancel request that is accepted ends the run; an entry
  does not outlive its run.
* Approvals: one resolution, never reversed; a tool that requires approval runs
  only after "approved" and never after "rejected".
* Team tasks: a task starts only when its dependencies are finished; dependency
  statuses are consistent; a failed dependency does not leave tasks waiting.
* Lifecycle: only the transitions of the table; frozen only with every CRT answer.
* Version store: rollback restores an earlier saved version and never loses it.


## 2. Plan

The order follows what goes wrong silently: state shared by processes first,
then state shared by coroutines, then sequential protocols.

Done:

1. `Scheduler`: the shared table, the pollers, the executor. `ScheduleLease` is
   the abstract promise, and `Scheduler` implements it. Proofs in
   `SchedulerProofs`, `SchedulerRunsProofs`, `SchedulerRefinement`.
2. `RunEvents`: one run, its buffer, its clients. `EventLog` is the abstract
   promise, and `RunEvents` implements it. `RunEventsProofs`.
3. `Approvals`: one paused run, reviewers, continuations. `ApprovalsProofs`.
4. `TeamTasks`: the list, concurrent members, the loop. `TeamTasksProofs`.
5. `BackgroundRuns`: submission, polling with a deadline, retries, the
   cancellation manager's table and the session row, which belong to one another:
   what a poll reads is what a run stores, and a cancelled run is one that stored
   so. `BackgroundRunsProofs`.
6. `WorkflowRuns`: steps, what pauses them, the answers, continuation.
   `WorkflowRunsProofs`.

Left, in this order:

7. Composite workflow steps (Loop, Condition, Router, Parallel, Steps): the nested
   pause and the merge of the states of parallel branches.
8. Schedule administration: a handler's read and write as two steps, and names.
9. The continuation of a paused member of a team, in `TeamTasks` and `Approvals`.
10. The Redis cancellation manager: entries that expire and survive a restart.
11. The lifecycle of an intenture and the version stack (`tests/poc/wiseteam`).

Runs: one per question. Bounds: two actors of each kind that interact, three
where a third changes anything; the smallest clock, buffer or number of rounds
at which the limit is passed.

## 3. The modules and the code

Paths are relative to `libs/agno/agno`. The asynchronous variant of the code is
modelled wherever there are two; the synchronous one has the same steps and
fewer interleavings.

### `Scheduler`

`row` is the `schedules` table: life (unborn, live, deleted), `enabled`,
`next_run_at`, `locked_by`, `locked_at`, the cron expression. Per worker (a server
process with its `SchedulePoller`): `phase` (up, the three stages of `stop()`,
down), `loop` (where `_poll_loop` is) and `pick` (the row selected or claimed).
`task` holds the executions, `ScheduleExecutor.execute`, with the place in the
code, the attempt, and the status of the `schedule_runs` record of each attempt.
`served` and `overran` are history.

| Actions | Code |
|---|---|
| `ClaimAtomic`; `ClaimSelect`, `ClaimUpdate`, `ClaimLost` | `claim_due_schedule` of PostgreSQL (one statement) and of SQLite (SELECT, then UPDATE) |
| `Spawn`, `Trigger` | `_poll_once` starts a task; manual runs, by the poller or by the REST handler, without a lock |
| `CreateRun`, `CallEnds`, `RecordRun`, `Retry`, `DisableBroken`, `Release` | `execute`: record, call, outcome, retry, and the `finally` block |
| `CreateRunFails`, `RecordRunFails`, `Lost` | database errors: raised by `create_schedule_run`, swallowed by the others |
| `MarkCancelled`, `CancelInBody`, `CancelInMark`, `CancelInFinally` | `CancelledError` at each await, a second one included |
| `Stop`, `LoopExit`, `CancelInFlight`, `StopTimeout`, `Stopped`, `Start`, `Crash` | `SchedulePoller.start/stop`, death of the process |
| `Create`, `Enable`, `Disable`, `PatchCron`, `ManagerUpdate`, `Delete` | REST handlers and `ScheduleManager` |
| `Tick` | `int(time.time())`, one clock for all processes |

Abstracted: names, payloads, the HTTP call (any outcome, any duration), cron
expressions (a period; `compute_next_run` raises for some, which get into a row
through `ScheduleManager.update`, as it validates nothing).

`ScheduleLease` says the same without rows, tasks and polls: each schedule has
`holders`, claims with the worker and the time they were stamped with; a schedule
with a holder is not claimed again (`Acquire`), claims only end (`End`), time
passes (`Tick`), and from the first claim held for `Grace` seconds on the promise
is broken. `Scheduler` is mapped to it by `holders <- Holders` (the claim a poll
loop is about to hand over, and the executions that hold the lock), `clock <- now`,
`broken <- overran`; `ImplementsLease` is the lease's specification under this
mapping.

### `RunEvents`

One background run. `buffer`, `next` and `status` are the entry of `EventsBuffer`
(`os/managers.py`), `subs` and `queue` the `SSESubscriberManager`, `run` the
detached producer of `agent/_run.py` (`_arun_background_stream` and
`_acontinue_run_background_stream`), `client` the generator each client is served
by: the caller's own queue (`primary`) or `_resume_stream_generator` of
`os/routers/agents/router.py` (`replay`, `catchup`, `live`). A step is what happens
between two suspensions of the event loop; `pending` are the shielded calls of
`complete()`, which run later. An event is its number; an item of a queue carries
`event_index + 1` as `mark`. `Unbuffered` are events that a workflow yields
without `_handle_event`. Not modelled: the WebSocket manager, skipped or filtered
kinds of events, the retention time (a completed buffer may be cleaned up at any
time).

`EventLog` says what a client may rely on, without indices, queues, sentinels and
the four ways to be served: a run makes events (`Make`) on one or more legs (`Go`,
`Stop`), some are `kept` for a while (`Forget`), a client is given each later than
all it has (`Give`), and on the first leg it is given every event that is kept
before a later one, and dismissed (`Dismiss`) only when the run has stopped and it
has all that is kept. `RunEvents` is mapped to it by `kept <- Kept` (the
buffer's events), `got <- Given`, `stream <- OpenStreams`; `ImplementsLog` is
its specification under this mapping.

### `Approvals`

One run. `stored` is its row, `approvals` the table, `proc` the executions: the
first one and every request to continue. Their steps are `Request`
(`require_approval_resolved`), `Check` (the 409 of the route), `Load`, `Lookup`
(`acheck_and_apply_approval_resolution`), `Handle` (one step per tool call of
`ahandle_tool_call_updates_stream`), the model's answer (`CallTools`, `Complete`,
`ModelFails`), `Cancel`, `Approve` (`acreate_approval_from_pause`), `Store`
(`acleanup_and_store`) and `Mirror` (`aupdate_approval_run_status`). `Resolve` and
`DeleteApproval` are the reviewers' routes. A tool call is waiting while
`is_paused` and settled once its `requires_*` flag is cleared; `stamp` is
`approval_id`. The options of the instance are faults and deployments: `Gated`
(authorization enabled, so that the route asks for the verdict first), `DbFaults`
(any call of the database fails) and `Crashes` (an execution dies with
its server: `Crash`). Every failing call is logged and swallowed in the code: the
gate, the check, the load and the lookup find nothing (`Request`, `ReadFails`),
the record is not made (`ApproveFails`), the row is not written though the approvals
are updated next (`StoreFails`), or these are not (`MirrorFails`). History
(`seen`): retries, overlaps, the calls whose outcome was `lost` with an execution that
died or failed to store it, and whether the last end of the run got only one of its
two writes through (`torn`). `kind` is what each tool waits for: confirmation, user input
or external execution. Not modelled: continuations that bring tools of their
own, audit approvals, members of teams, `get_user_input` and `ask_user`.

### `TeamTasks`

`tasks` is the list the tools of a run share, `saved` the one in the session
state, `marks` the rest of the session state, reduced to one existing key per
task that the member overwrites, `call` the executions under way with the deep
copies their members work on. `Create`, `UpdateStatus`, `MarkAllComplete`,
`Execute` and `ExecuteParallel` are the tools of `team/_task_tools.py`;
`MemberReturns`, `MemberPauses`, `MemberRaises`, `MemberCancelled` and
`ParallelReturns` are how executions end, in the order of save and merge the code
has; `Refreshed` is `_update_blocked_statuses`, one pass in the order of creation.
`Edit` and `Respond` are the two halves of `arun_function_calls`: the asynchronous
generators (executions) run concurrently, then the synchronous ones (edits) one by
one. `Iterate` is the end of an iteration of `_arun_tasks` and `Begin` loads the list at the start of a run.
What `max_iterations` is set to is left open: the loop may stop after any
iteration.

### `BackgroundRuns`

Background runs of one agent in one session, and those who deal with them.
`session` is the row with the status of each run; `exec` the executions, each with
the copy of the row it has read (`view`), its attempt and status; `intent` the table
`_cancelled_runs` of the in-memory cancellation manager; `job` and `record` the
executor of a schedule with its `schedule_runs` rows. A run is
named after its first execution. `seen` is history, kept for the exceptions the code
makes necessary: the runs that met another writer of the row, or were in it when it was
deleted under a writer's hands (`exposed`); the runs that were continued while under way
(`shared`), which the route admits only when it does not find the run or the row still
has it as paused; the runs whose row was `deleted` and that have not been stored since;
a `fault` of the database; the runs cancelled when nothing of them was under way
(`stray`); the attempts the executor gave up on (`gaveUp`).

| Actions | Code |
|---|---|
| `UserSubmits`, `SavePending`, `SaveRunning` | `_arun_background`: the run is registered, stored as pending, and the detached task stores it as running |
| `Continue` | `/continue` in the background: the route refuses a run that it finds and that is not paused; one that it does not find (deleted, lost, or the read fails) passes |
| `Begin`, `Answer`, `Fails`, `Pause`, `Complete` | `_arun`, `_acontinue_run`: an attempt reads the session and registers the run; a continuation that does not find its run raises (`Missing`), is retried and stored as failed, or, streamed, goes on with an empty run; the model answers; checks for cancellation; exceptions, retried or not; the pause |
| `Store`, `Cleanup` | `acleanup_and_store` (the whole row, from the attempt's copy), then `acleanup_run` |
| `Cancel` | `/cancel`, whatever became of the run |
| `DeleteSession`, `Crash` | the route; death of the server, which takes executions and table along |
| `JobSubmits`, `Refused`, `CallRaises` | `_background_run`: the POST is answered, refused, or breaks |
| `Poll`, `PollEnds` | `_poll_run`: a terminal status is mapped to the record; the deadline or a refusal; anything else is polled again |

A read of the database that fails yields a new session, and a write that fails
is logged and skipped, as in the code. The composition with `Scheduler` is by
outcome: its `CallEnds` may end a call in every way `job` can.

### `WorkflowRuns`

One run of a workflow of `N` opaque steps. `steps` are the settings of the steps
(`HumanReview`: confirmation or input before, review after, `on_reject`, `on_error`,
`on_timeout`); `row` is the run as stored, with its accumulated requirements,
`paused_step_index`, results; `leg` the execution under way (the first one or
`acontinue_run`); `intent` the run's entry in the cancellation manager. `takes` and
`seen` are history, `past` is history kept with the run.

| Actions | Code |
|---|---|
| `Start`, `Launch` | `arun`, awaited or in the background; `_aexecute` |
| `Continue` | `acontinue_run`: `Answers` (what a human may answer), `Timely` (an overdue answer is replaced by `on_timeout`), `StartIndex`, `RemoveLast`, `Edited`, `ResolvedStep`; `GiveUp` where a rejection ends the run |
| `CheckCancelled`, `AskBefore`, `Execute` | the head of the loop over steps: cancellation, confirmation or input, execution |
| `Return` with `Advance` or `Review` | the output is collected; a request to stop; the review; another cancellation check |
| `ExecutorPauses`, `ErrorPauses`, `Fail` | the step's agent waits for a human; a failure is for a human to decide; a failure ends the run |
| `Finish`, `Cleanup`, `Cancel`, `Crash` | the end of the loop, `acleanup_run`, the route, death of the server |

A skipped failure is an output like others. The two loops, of the first leg and of
continued ones, are the same code up to where they differ: what is stored
after a failure, whether a pause cleans up, how a routed agent's output is treated.

## 4. What is checked

| Run | Properties | What it shows |
|---|---|---|
| `scheduler_lock` | `TypeOK`, `MutualExclusion`, `HolderOwnsLock`, `StoppedIsQuiet`, `RecordsAreFinal`, `ClaimedWithinLimit`, `ServedIsNotDue`, `ImplementsLease` | Until an execution outlives the grace period a schedule has one claim and the row names it, so the unconditional `release_schedule` clears no other's lock. After `stop()` nothing runs; no record says "running" once its execution is over, but for a second cancellation; manual triggers do not lead past `max_concurrent`; what was served is not due again, on the retry, failure, cancellation and broken-cron paths. |
| `scheduler_live` | `DueIsServed`, `StopReturns` | A due schedule is run in the end though the poller that claimed it was stopped or died and database calls fail; `stop()` returns. |
| `scheduler_released` | `LockAlwaysReleased` | **Violated**, finding 1. |
| `events_order` | `TypeOK`, `SkippedIsTrimmed`, `NoQueueLeaks`, `EndedWithAll`, `StreamsEnd`, `ImplementsLog` | Over all its connections a client gets events in order, once, without a gap that trimming does not explain; a stream the server ends has delivered the last index; subscribers are open streams; every stream ends. |
| `events_paused` | `ResumesSubscribed` | **Violated**, finding 2. |
| `approvals` | `TypeOK`, `FirstPauseApproved`, `TurnedDownByVerdict`, `RanOnce`, `MirrorAgrees` | With executions racing reviewers, deletions, database errors and crashes a call is executed, or turned down, only on a verdict for it (in the first pause; finding 3 is about the second); while executions do not overlap no call runs twice, but one whose outcome was lost with an execution that died or failed to store it; the approvals' `run_status` is that of the run, unless its last end got only one of its two writes through. |
| `approvals_second` | `RanOnlyApproved` | **Violated**, finding 3. |
| `team_tasks` | `TypeOK`, `FailureSpreads`, `SavedAgrees`, `MarksKept`, `StartsWhenReady` | Tasks start when their dependencies are completed; in no saved list that has been refreshed does a task wait for a failed one; the saved list and what members changed survive merges. |
| `team_tasks_chain` | `DoneUnblocks` | **Violated**, finding 4. |
| `background_runs` | `TypeOK`, `RecordsTellTruth`, `RetriesFollow`, `CancelEndsRun`, `EntriesAreLive`, `SessionKeepsAll` | The schedule's records say what became of the runs; a retry comes after the run it repeats, unless that was given up or continued while under way; an accepted cancellation ends the run; the table of intentions holds runs under way; the row keeps every run that met no other writer, whatever happens to others, and nothing of what was deleted. |
| `workflow` | `TypeOK`, `GateHolds`, `NothingDropped`, `OrderKept`, `RejectedNotKept`, `StopEnds`, `RetriesBounded`, `CancelStops` | No step is executed before it was confirmed or got its input; a completed run has an output for every step nobody skipped, in order, one each, and none that was turned down; stop requests, retry limits and cancellation take effect. |
| `workflow_edits` | `EditsStayPut` | **Violated**, finding 5. |

### Bounds

* `scheduler_lock`: two pollers, one schedule, two executions, a clock of 0..3 and
  grace 2, so a lock goes stale, is taken over, and an execution may outlive it;
  both claims of the schedule overlap. The claim is the one of two statements,
  `MaxConcurrent` is 1, there is one retry and a broken cron expression. Two
  starts: both pollers run, or one crashes or stops and the other (or itself)
  finds its lock. One management request or manual trigger, at any moment. That more
  workers, schedules, starts and requests add no violation is what the
  theorems show. Workers and tasks are symmetric here, where no property is one
  of liveness; `scheduler_live` uses no symmetry.
* `scheduler_live`: two pollers, three starts and a clock that ends at 4, two
  grace periods; the one-statement claim; database calls may fail. A lock stamped
  so late that the clock cannot outlive it is excepted by name (`OutlivesClock`).
* `events_order`: four events, number 2 unbuffered, and a buffer of two, so trimming
  passes a client; two legs, so the run is paused and continued; two clients and
  two resumptions; a completed buffer may be cleaned up. The starter and one who
  comes back are the two roles a client can have; clients share nothing but the
  buffer. `events_paused` has the continuation of the REST API, by id alone.
* `approvals`: two processes, two tool calls of different kinds, two rounds, two
  requests, one retry, without the gate of an authorized deployment (which only
  removes behaviour), with failures of every database call and crashes, as many as the
  instance has room for. `approvals_second` is the
  gated deployment, one process at a time, without faults.
* `team_tasks`: two tasks, so one depends on the other or on an id that does
  not exist; two calls, two runs. Longer chains add nothing the pass in order of
  creation does not do link by link. `team_tasks_chain` has three tasks.
* `background_runs`: three executions, two of them at a time (`MaxAlive`), so a
  retry of the schedule, a user's run or the continuation of a run meets another
  execution, and there is one more to see what is left; users leave as many
  executions as the schedule has attempts to come (`ToCome`), so a retry is never
  short of one; two of the events
  (user's requests, cancellations, deletions, crashes, one database failure), one retry of
  the agent and one of the schedule.
* `workflow`: two steps, each with any of 21 settings (`MCSettings`: what
  distinguishes the paths, not the product of all fields), one retry, four legs,
  so each step may be asked about twice.

Deadlock is not checked: clocks, starts, requests, legs and events are bounded,
and a bounded instance stops when they are used up.

### Fairness

* `Scheduler`: the clock ticks, processes are started again, an event loop runs
  its tasks and its poll loop, and every call ends (`httpx` has a time-out and
  `_poll_run` a deadline). Weak fairness per worker and per task; none for
  crashes, stops, requests and triggers.
* `RunEvents`: the producer goes on to the end of its run or to a pause, the
  shielded `complete()` runs, and the server serves its open generators. None for
  clients, cleanup or continuation.

The other modules have no liveness properties: whether a human decides or the
model calls another tool is not up to the code, and a background run whose server
dies stays pending or running, as nothing in the code looks for it.

## 5. What is proved

All theorems hold for any values of the constants that satisfy the named
assumption of the module (`SchedulerAssumption`: periods, grace and `max_concurrent`
positive, `None` no id, finitely many tasks; the others: types of the bounds and
options). Two theorems have `~DbFaults` as an assumption of their own. TLC
evaluates the assumptions in every run.

### `SchedulerProofs`

* `TypeCorrect`: `TypeOK` carries what the code reads without looking: a
  live row has a cron expression, a claim under way has a schedule and a time that
  is past, only a claimed execution reaches the release.
* `AtMostOneClaim` (`MutualExclusion`) and `LockNamesHolder` (`HolderOwnsLock`).

Mutual exclusion alone is not inductive: a claim succeeds on a row that is
unlocked or stale, and nothing in it says that such a row has no holder. The
invariant `LockInv` is: unless `overran`, no claim has outlived the
grace period now (`~OverranNow`), there is one claim per schedule
(`OneClaimPerSchedule`), and each claim is named, worker and time, by its live row
(`ClaimsNamed`). The argument: a claimable row is either unlocked, and then
`ClaimsNamed` leaves no holder, or stale, and then a holder would have outlived
the grace period (`ClaimableIsFree`); so the claim that is made is the only one
(`ClaimMade`), it is handed on from loop to task (`ClaimHandedOver`), and every
other step drops claims or keeps them (`ClaimsOnlyDropped`, `QuietTaskStep`,
`DisablingTaskStep`, `ReleasingTaskStep`, `ManagementLock`). `overran` latches, so it is
enough to look at steps after which it is still false. The proof covers both
kinds of claim and lost updates.

### `SchedulerRefinement`

`Refinement`: `Spec => ImplementsLease`. From `LockInv` every step that claims is an
`Acquire` of a schedule without holders (or comes after the promise is broken),
every other step of a worker or task is an `End` or leaves `Holders` as they are,
and the clock's tick is the lease's.

### `SchedulerRunsProofs`

Every step of an execution leaves the table as it is, disables the schedule or
releases it (`Becomes`, `TaskBecomes`); the four invariants are proved from
this summary instead of from each action.

* `NothingOutlivesStop` (`StoppedIsQuiet`), from `QuietInv`: when a worker is not up,
  its executions are tracked, and its loop is off once `stop()` has passed it.
* `RecordsEndFinal` (`RecordsAreFinal`, assuming `~DbFaults`), from `RunInv`: where in
  an execution a record may say "running", and in which phase of its worker a
  cancellation, or a second one, can come.
* `NeverAboveLimit` (`ClaimedWithinLimit`), from `LimitInv`: the limit holds strictly
  while the loop is about to hand a claim over.
* `NextRunMovesOn` (`ServedIsNotDue`, assuming `~DbFaults`), from `SlotInv` with
  `LockInv`: an execution about to release carries a next run after the last
  claim, or none because it disabled the schedule; and nobody else claims the
  schedule before it has released it.

### `RunEventsProofs`

* `TypeCorrect` (`TypeOK`); `EventsInOrder` (`InOrderOnce`, which `ImplementsLog`
  contains); `QueuesAreOpen` (`NoQueueLeaks`); `NothingSkipped` (`SkippedIsTrimmed`); `EndsWithAll`
  (`EndedWithAll`).

What a step does to one client is summarised by `ClientMove`, what it does to the
buffer by `Emits`, `Signals`, `Cleans`. `OrderInv` relates what a client has got to what is
still ahead of it: what it was given comes before what it has to replay, this before what
is in its queue, marks and numbers rise together, and the index it knows bounds
what it skips. `FirstLegInv` is about runs not continued yet: what is buffered and not
given to a client is still ahead of it (`ClientWhole`), and an end in its queue or
its replay is preceded by the last event (`ClientEnd`).

* `LogRefinement`: `Spec => ImplementsLog`. What a step does to one client is a
  step of `EventLog` or changes nothing it knows of (`LogMove`). That a `Give` is
  in turn is read off the invariants of the next state (`GivesNext`); a
  `Dismiss` on the first leg comes when the run has stopped and the client
  knows the last index (`EndsStep`), and then `ClientWhole` leaves nothing in the
  buffer that it has not got (`EndsHaveAll`).

### `ApprovalsProofs`

* `TypeCorrect` (`TypeOK`); `CallsRunOnce` (`RanOnce`), from `OnceInv`: a call that was
  executed is settled in the stored run or in the one execution's copy, which is
  stored before another execution loads the run, or its outcome was lost; `MirrorsAgree`
  (`MirrorAgrees`), from `MirrorInv`: unless the last end was torn, the two differ only
  between the store and the mirror, and then the row has the status that the mirror is
  about to write.
* `FirstPauseHolds` (`FirstPauseApproved`), from `FirstInv`: in the first round every
  record is about every call that was made, a confirmed call has an approval
  (`Backed`, of the row and of each copy), and while the record is being created
  nobody else has a call.
* `TurnedDownIsMeant` (`TurnedDownByVerdict`), from `TurnedInv`: a call that is
  turned down is covered by a rejected approval (`Justified`), though reviewers
  resolve and delete meanwhile, and the calls to confirm that an execution is about
  to handle have a verdict on them (`Judged`).

### `BackgroundRunsProofs`

* `TypeCorrect`; `TableHasLiveRuns` (`EntriesAreLive`).
* `RecordsHold` (`RecordsTellTruth`) and `RetriesComeAfter` (`RetriesFollow`), from
  `RunInv`: a terminal status, in the row or in anybody's copy of it, is that of an
  execution that has ended, and the run's first execution has ended with it unless the
  run was continued meanwhile (`Says`), and from `TruthInv`, the same about
  the records and the last attempts.
* `CancelTakesEffect` (`CancelEndsRun`), from `CancelInv`: a cancellation an execution
  has been asked for is in the table until the execution has stored its
  status (`Heard`), as no other execution of the run cleans up
  (`Apart`).
* `RunsAreKept` (`SessionKeepsAll`), from `KeepInv`: executions are taken in order
  (`InOrder`); a writer whose run is not exposed is the only one, and the latest
  (`Alone`); and while the database has not failed the outcome of each unexposed
  run that is over is in the row, and in every copy of it that another execution is
  going to write (`Kept`). Copies without the outcome exist, those taken before the run
  was stored or before a deletion; a run has met their owners, or was deleted under
  their hands, so it is exposed.

### `WorkflowRunsProofs`

* `TypeCorrect`; `CancelledRunStops` (`CancelStops`).
* `GatesHold` (`GateHolds`), from `GateInv`: a paused run waits for the requirement
  that is last (`RowGate`), and the step a leg skips the question for is the one
  whose requirement was resolved (`LegGate`).
* `OutputsInOrder` (`OrderKept`) and `RejectedIsGone` (`RejectedNotKept`), from
  `OutputInv`: the outputs collected are of earlier steps than the one the leg is at,
  and no take that was turned down is among them; a take is fresh.
* `StopIsFinal` (`StopEnds`), from `StopInv`: an output that asks to stop is the last
  one, or its step has been reviewed.

For the other two every step is first brought into one of a few shapes
(`StepShape`): a leg begins, resumes a paused run (`Resumes`), goes on to a step
(`Goes`, `Advances`), or stores the run (`Stores`), at its end, after an error, or
with a question before, within or after a step.

* `NothingIsDropped` (`NothingDropped`), from `DropInv`: a leg has covered
  the steps before the one it is at (`LegComplete`), a paused run those before the
  one it is paused at, and this one too if its output waits for a review
  (`RowComplete`). Covered is: there is an output, or an earlier step asked to
  stop. An answer that removes the last output (`RemoveLast`) sends the leg back
  to that step, so that what is removed is made again.
* `RetriesAreBounded` (`RetriesBounded`), from `RetryInv`: the number of times
  reviewers sent a step back is at most the count in the last requirement
  (`RowRetries`), which the leg goes on with (`LegRetries`), and steps after the
  resolved one have no requirements. An answer adds one at most
  (`AnsweredRetries`), a question none (`AskedRetries`).

### `TeamTasksProofs`

* `SavedAgreesAlways` (`SavedAgrees`): until a member pauses, the list of the run is
  the saved one or what loading it yields. It is inductive as it stands: each
  step that changes the one saves it.
* `MarksStay` (`MarksKept`), from `MarkInv`: the copies of the executions under way hold every
  mark made by executions that nobody overlapped, and the copy of such an execution
  holds all of the state, so that merging it back undoes nothing.
* `TypeCorrect` (`TypeOK`), from `TypeInv` with `MarkInv`.
* `FailuresSpread` (`FailureSpreads`) and `StartsReady` (`StartsWhenReady`), from
  `ReadyInv`: in the shared list, the saved one and the copies of the executions under
  way, a task that is open or being executed has only completed dependencies, which
  nobody is executing again, unless the leader set the status of one of them, or its
  own, by hand (`Excused`).

These last three are about what `_update_blocked_statuses` computes. The pass is a
recursive function over the list. That a function exists which satisfies the
recursion (`PassExists`), that it is what `Refreshed` returns (`PassRefreshed`),
and that each entry depends on the entries before it only (`RefreshedRule`)
needs an induction over the natural numbers. The library's induction theorem
takes an operator as a parameter and cannot be used; `SetInduction` is the
principle for a set `S` of naturals instead, proved from facts about finite
cardinalities: if `k` were missing from `S`, the function that keeps the members of
`S` and moves the other numbers one down would take `0..k` to `0..(k - 1)` one to
one, which the pigeonhole principle forbids.

### Only model-checked

Liveness under fairness (`DueIsServed`, `StopReturns`, `StreamsEnd`) is beyond the
prover. The properties of the runs that end in a violation are refuted, so there
is nothing to prove about them. All other properties of the runs are theorems.

## 6. Findings

1. **The lock stays after `stop()`** (`scheduler_released`). `executor.py:219` says
   "Always release the schedule lock so it doesn't stay stuck". With an
   asynchronous back end `stop()` may cancel the execution at the await inside
   that block; the schedule is held until the grace period is over.
2. **A continued run ends the stream of a client that resumes**
   (`events_paused`). The buffer keeps the status "paused" while the run goes on,
   so `/resume` replays and closes instead of subscribing
   (`os/routers/agents/router.py:332`).
3. **One approval approves two pauses** (`approvals_second`).
   `acreate_approval_from_pause` makes no record when any tool of the run carries
   an `approval_id`; after a second pause the old verdict executes the new call.
4. **A completed dependency does not unblock** (`team_tasks_chain`).
   `execute_task` sets the status without `_update_blocked_statuses`, and the list is
   loaded once per run: executing the dependent is refused as "blocked" although
   the leader is shown "PENDING".
5. **A reviewer's edit is written over another step's output** (`workflow_edits`).
   `acontinue_run` takes `edited_output` from the first edited requirement the run
   ever had and puts it over the last output (`workflow/workflow.py:7143`), though
   the comment six lines below says that old requirements "must NOT be picked up".

Behaviour met while modelling that no run is spent on; where a property holds
only without it, the property or its instance says so:

* SQLite's claim stamps a row that another poller has served between its two
  statements (`db/sqlite/sqlite.py:4556`); the claim is exclusive, but the run is
  one too many. `ServedIsNotDue` holds with this claim, as it is about what is
  due after a release; it does not say that a time is served only once.
* A client that resumes before the first event is buffered is told that the run
  has completed (`os/routers/agents/router.py:338`); a run continued by its id
  that pauses again is marked completed (`agent/_run.py:3853`); unbuffered events
  of a workflow carry the previous index and are dropped by a live client as
  duplicates (`workflow/workflow.py:4090`).
* Two requests to continue one run that overlap execute the approved call twice
  (`agent/_run.py:3774`): `RanOnce` excepts them. So does a later request when
  the server died after the call, or the write of the session failed, which is logged
  (`agent/_storage.py:202`): the row is still paused and the record still approved.
  `RanOnce` excepts these calls and no others. When one of the two writes at the
  end of a run is lost the approvals' `run_status` and the row disagree for good
  (`run/approval.py:632`), which `MirrorAgrees` excepts. A retry
  skips the lookup of the verdict (`agent/_run.py:4330`). A continuation before the
  verdict stores the run as failed (`agent/_run.py:4371`). A user-input tool is executed
  although its approval was rejected (`agent/_tools.py:1041`).
* A member that pauses puts its copy of the task list back over the saved one
  (`team/_task_tools.py:617`): `SavedAgrees` holds until then. Of two overlapping
  `execute_task` calls the later merge overwrites what the earlier member
  changed. A cancelled member leaves its task in progress.
* Two writers of a session that overlap lose each other's runs; a deletion under a
  writer's hands is undone (`SessionKeepsAll` excepts the runs concerned). A
  `/continue` of a run that is not found is accepted
  (`os/routers/agents/router.py:1042`): the continuation raises "No runs found", stores
  the run as failed in a new row and removes its cancellation entry, even while its
  first execution goes on; a schedule that polls it goes on to its next attempt
  (`RetriesFollow` excepts the runs continued while under way). The
  first of two executions of one run to end removes the entry of both in the
  cancellation manager (`CancelEndsRun` excepts them). A cancellation stored for a
  run that is over is never taken out (`EntriesAreLive` excepts it). Polling that
  times out leaves its run going, and the retry starts a second one
  (`RetriesFollow` excepts it). A crash leaves a background run pending or running
  in its row. A workflow run that is continued and pauses again forgets a
  cancellation that came after its last check (`CancelStops` speaks of those it
  remembers).
* An error of a workflow step that is answered while the requirement of an
  earlier pause is still the last lets the old requirement decide where the run
  goes on: the step to be retried may be skipped (`workflow/workflow.py:7044`).
  `GateHolds`, `NothingDropped` and `RetriesBounded` except such runs (`stale`).

## 7. Not modelled

Parts of modelled components:

* Run event streams: the WebSocket manager, skipped or filtered kinds of events.
* Approvals: audit approvals, tools brought by a continuation, members of teams,
  `get_user_input` and `ask_user`.
* Team tasks: the synchronous tools (one call at a time), notes, the
  continuation of a paused member.
* Schedule administration: the window between a handler's read and its write,
  and names; the single steps are actions of `Scheduler`. `ScheduleManager.update`
  passes any column on to the row; `ManagerUpdate` is the one that reaches the
  schedule's behaviour without validation, `cron_expr`.
* Cancellation: the Redis manager, whose entries survive a restart and expire.
* Agent run: messages, context, media, memories, reasoning, structured output.
* Sessions and databases: other tables and back ends, metrics, migrations.
* Workflow engine: Loop, Condition, Router, Parallel and Steps; the synchronous and
  streaming twins of the modelled code; custom functions in place of steps; the
  workflow agent; two continuations of one run at a time.

Components:

* Team modes other than tasks: the delegation is decided by a model; their merge
  of states is the one of `TeamTasks`.
* Models, tools, readers, vector stores, interfaces, clients, tracing,
  evaluation: input and output, or pure conversions, with no state that lasts. How
  the tool calls of one response are scheduled is in `TeamTasks`.
* Memory, learning and culture: what is written is decided by a model.
* Knowledge: the status of an insertion that fails half way is a candidate.
* The AgentOS application: routing and serialisation; handlers that change
  shared state are modelled with their components.
* `wiseteam_os` is configuration; the prototypes under `tests/poc` are small and
  sequential, lifecycle and versions are planned, the schemas are data.
