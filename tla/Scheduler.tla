------------------------------ MODULE Scheduler ------------------------------
(***************************************************************************)
(* The cron scheduler: several server processes (Workers), each with one   *)
(* SchedulePoller, share the "schedules" table.  A poller claims a due     *)
(* schedule by stamping a lock on its row, runs it in a task of its own    *)
(* (ScheduleExecutor.execute) and releases the row with the next run time. *)
(* A lock older than Grace is stale and may be claimed again.              *)
(*                                                                         *)
(* Every database call is an await of its own, as with the asynchronous    *)
(* back ends; a synchronous back end has fewer interleavings.              *)
(***************************************************************************)
EXTENDS Naturals, FiniteSets

CONSTANTS
    Workers,        \* server processes, each with one poller
    Schedules,      \* ids of schedules
    Tasks,          \* slots for executions alive at the same time
    Crons,          \* cron expressions
    BadCrons,       \* those for which compute_next_run raises
    Period,         \* Period[c]: seconds between two firings of c
    Grace,          \* lock_grace_seconds
    MaxConcurrent,  \* the poller's max_concurrent
    MaxRetries,     \* the schedule's max_retries
    AtomicClaim,    \* TRUE: UPDATE .. RETURNING (Postgres); FALSE: SELECT, then UPDATE (SQLite)
    DbFaults,       \* may an UPDATE be lost (its exception is swallowed)?
    MaxTime,        \* bound: the clock stops here
    MaxBoots,       \* bound: starts of workers
    MaxRequests,    \* bound: management requests and manual triggers
    None

ASSUME SchedulerAssumption ==
    /\ IsFiniteSet(Tasks)
    /\ None \notin Workers \cup Schedules \cup Crons
    /\ BadCrons \subseteq Crons
    /\ Period \in [Crons -> Nat \ {0}]
    /\ Grace \in Nat \ {0}
    /\ MaxConcurrent \in Nat \ {0}
    /\ MaxRetries \in Nat
    /\ AtomicClaim \in BOOLEAN /\ DbFaults \in BOOLEAN
    /\ MaxTime \in Nat /\ MaxBoots \in Nat /\ MaxRequests \in Nat

VARIABLES
    now,      \* int(time.time()), one clock for all
    row,      \* the schedules table
    phase,    \* life of each poller: up until stop(), then down
    loop,     \* where each poller's _poll_loop is
    pick,     \* the row a poller has selected or claimed
    task,     \* executions, with the schedule_runs rows they write
    boots,    \* starts of workers so far
    requests, \* management requests so far
    served,   \* history: time stamp of the last claim of each schedule
    overran   \* history: some claimed execution has outlived Grace

vars == <<now, row, phase, loop, pick, task, boots, requests, served, overran>>

-----------------------------------------------------------------------------
MaxAttempts == MaxRetries + 1

RowStates == {"unborn", "live", "deleted"}
Phases == {"down", "up", "stopping", "draining", "timedout"}
LoopStates == {"off", "poll", "claim", "spawn"}
BodyStates == {"create", "call", "record", "delay"}
TaskStates == {"idle", "mark", "disable", "release"} \cup BodyStates
Results == {"success", "failed", "paused"}
RunStatuses == {"none", "running", "cancelled"} \cup Results

NoNext == 0     \* next_run_at=None handed to release_schedule: keep the column

(* compute_next_run: the first firing strictly after t, never before t + 1. *)
ComputeNextRun(c, t) ==
    LET computed == ((t \div Period[c]) + 1) * Period[c]
    IN  IF computed < t + 1 THEN t + 1 ELSE computed

(* A schedules row as create_schedule inserts it; no row at all. *)
Fresh(c, t) == [st |-> "live", enabled |-> TRUE, next |-> ComputeNextRun(c, t),
                by |-> None, at |-> 0, cron |-> c]

Absent(st) == [st |-> st, enabled |-> FALSE, next |-> 0, by |-> None, at |-> 0, cron |-> None]

NoPick == [sid |-> None, at |-> 0, cron |-> None]

NoRuns == [a \in 1..MaxAttempts |-> "none"]

Idle == [pc |-> "idle", w |-> None, sid |-> None, cron |-> None, at |-> 0,
         lock |-> FALSE, tracked |-> FALSE, attempt |-> 1, runs |-> NoRuns,
         result |-> "failed", next |-> NoNext, cancel |-> FALSE]

PickType == [sid : Schedules \cup {None}, at : Nat, cron : Crons \cup {None}]

RowType == [st : RowStates, enabled : BOOLEAN, next : Nat,
            by : Workers \cup {None}, at : Nat, cron : Crons \cup {None}]

TaskType == [pc : TaskStates, w : Workers \cup {None}, sid : Schedules \cup {None},
             cron : Crons \cup {None}, at : Nat, lock : BOOLEAN, tracked : BOOLEAN,
             attempt : 1..MaxAttempts, runs : [1..MaxAttempts -> RunStatuses],
             result : Results, next : Nat, cancel : BOOLEAN]

Alive(t) == task[t].pc # "idle"

(* Types, and what the code reads without looking: a live row has a cron     *)
(* expression; a claim and an execution carry a schedule, a cron expression   *)
(* and a time that is past; only an attempt that may be repeated is delayed;  *)
(* only a claimed execution gets as far as releasing its lock.                *)
TypeOK ==
    /\ now \in Nat
    /\ row \in [Schedules -> RowType]
    /\ phase \in [Workers -> Phases]
    /\ loop \in [Workers -> LoopStates]
    /\ pick \in [Workers -> PickType]
    /\ task \in [Tasks -> TaskType]
    /\ boots \in Nat
    /\ requests \in Nat
    /\ served \in [Schedules -> Nat]
    /\ overran \in BOOLEAN
    /\ \A s \in Schedules : row[s].st = "live" => row[s].cron \in Crons
    /\ \A w \in Workers : loop[w] \in {"claim", "spawn"} =>
          pick[w].sid \in Schedules /\ pick[w].cron \in Crons /\ pick[w].at <= now
    /\ \A t \in Tasks : Alive(t) =>
          task[t].sid \in Schedules /\ task[t].w \in Workers /\ task[t].cron \in Crons
    /\ \A t \in Tasks : task[t].pc = "delay" => task[t].attempt < MaxAttempts
    /\ \A t \in Tasks : task[t].pc \in {"disable", "release"} => task[t].lock

-----------------------------------------------------------------------------
(* poller._in_flight: the tasks stop() knows of. *)
InFlight(w) == {t \in Tasks : Alive(t) /\ task[t].w = w /\ task[t].tracked}

(* Mutant of Claimable: a stale lock is never taken over. *)
ClaimableIfFree(s, time) == row[s].by = None

(* locked_by IS NULL OR locked_at <= time - lock_grace_seconds *)
Claimable(s, time) == row[s].by = None \/ row[s].at + Grace <= time

Due(s) ==
    /\ row[s].st = "live"
    /\ row[s].enabled
    /\ row[s].next <= now
    /\ Claimable(s, now)

(* A claim is held from the UPDATE that stamped it until its task is over. *)
LoopHolds(w, s) == loop[w] = "spawn" /\ pick[w].sid = s
TaskHolds(t, s) == Alive(t) /\ task[t].lock /\ task[t].sid = s

OverranNow ==
    \/ \E w \in Workers : loop[w] = "spawn" /\ pick[w].at + Grace <= now
    \/ \E t \in Tasks : Alive(t) /\ task[t].lock /\ task[t].at + Grace <= now

-----------------------------------------------------------------------------
Init ==
    /\ now = 0
    /\ row \in [Schedules -> {Absent("unborn")} \cup {Fresh(c, 0) : c \in Crons \ BadCrons}]
    /\ phase = [w \in Workers |-> "down"]
    /\ loop = [w \in Workers |-> "off"]
    /\ pick = [w \in Workers |-> NoPick]
    /\ task = [t \in Tasks |-> Idle]
    /\ boots = 0
    /\ requests = 0
    /\ served = [s \in Schedules |-> 0]
    /\ overran = FALSE

Tick ==
    /\ now < MaxTime
    /\ now' = now + 1
    /\ UNCHANGED <<row, phase, loop, pick, task, boots, requests, served>>

-----------------------------------------------------------------------------
(* Management: the REST handlers of schedules/router.py and ScheduleManager. *)

Request == requests < MaxRequests /\ requests' = requests + 1

Create(s, c) ==
    /\ Request /\ row[s].st = "unborn"
    /\ c \notin BadCrons
    /\ row' = [row EXCEPT ![s] = Fresh(c, now)]
    /\ UNCHANGED <<now, phase, loop, pick, task, boots, served>>

Enable(s) ==
    /\ Request /\ row[s].st = "live"
    /\ row[s].cron \notin BadCrons
    /\ row' = [row EXCEPT ![s].enabled = TRUE,
                          ![s].next = ComputeNextRun(row[s].cron, now)]
    /\ UNCHANGED <<now, phase, loop, pick, task, boots, served>>

Disable(s) ==
    /\ Request /\ row[s].st = "live"
    /\ row' = [row EXCEPT ![s].enabled = FALSE]
    /\ UNCHANGED <<now, phase, loop, pick, task, boots, served>>

(* PATCH with a new cron_expr: next_run_at follows only when enabled. *)
PatchCron(s, c) ==
    /\ Request /\ row[s].st = "live"
    /\ row[s].enabled => c \notin BadCrons
    /\ row' = [row EXCEPT ![s].cron = c,
                          ![s].next = IF row[s].enabled THEN ComputeNextRun(c, now) ELSE @]
    /\ UNCHANGED <<now, phase, loop, pick, task, boots, served>>

(* ScheduleManager.update(cron_expr=c): neither validated nor recomputed. *)
ManagerUpdate(s, c) ==
    /\ Request /\ row[s].st = "live"
    /\ row' = [row EXCEPT ![s].cron = c]
    /\ UNCHANGED <<now, phase, loop, pick, task, boots, served>>

(* One transaction: the schedule's runs, then the schedule. *)
Delete(s) ==
    /\ Request /\ row[s].st = "live"
    /\ row' = [row EXCEPT ![s] = Absent("deleted")]
    /\ task' = [t \in Tasks |-> IF task[t].sid = s THEN [task[t] EXCEPT !.runs = NoRuns]
                                                   ELSE task[t]]
    /\ UNCHANGED <<now, phase, loop, pick, boots, served>>

-----------------------------------------------------------------------------
(* The poller.  In "poll" it is about to call claim_due_schedule, or asleep   *)
(* until its next poll: with nothing due, or the limit reached, it stays.    *)

NewTask(w, s, c, stamp, lock, tracked) ==
    [Idle EXCEPT !.pc = "create", !.w = w, !.sid = s, !.cron = c, !.at = stamp,
                 !.lock = lock, !.tracked = tracked]

Start(w) ==
    /\ phase[w] = "down" /\ boots < MaxBoots
    /\ phase' = [phase EXCEPT ![w] = "up"]
    /\ loop' = [loop EXCEPT ![w] = "poll"]
    /\ boots' = boots + 1
    /\ UNCHANGED <<now, row, pick, task, requests, served>>

(* The SELECT of claim_due_schedule: the due row with the least next_run_at. *)
Selected(s) == Due(s) /\ \A other \in Schedules : Due(other) => row[s].next <= row[other].next

(* Mutant of BelowLimit: off by one. *)
UpToLimit(w) == Cardinality(InFlight(w)) <= MaxConcurrent

BelowLimit(w) == Cardinality(InFlight(w)) < MaxConcurrent

Stamp(w, s, stamp) ==
    /\ row' = [row EXCEPT ![s].by = w, ![s].at = stamp]
    /\ served' = [served EXCEPT ![s] = stamp]
    /\ loop' = [loop EXCEPT ![w] = "spawn"]

ClaimAtomic(w, s) ==
    /\ AtomicClaim
    /\ phase[w] = "up" /\ loop[w] = "poll" /\ BelowLimit(w)
    /\ Selected(s)
    /\ pick' = [pick EXCEPT ![w] = [sid |-> s, at |-> now, cron |-> row[s].cron]]
    /\ Stamp(w, s, now)
    /\ UNCHANGED <<now, phase, task, boots, requests>>

ClaimSelect(w, s) ==
    /\ ~AtomicClaim
    /\ phase[w] = "up" /\ loop[w] = "poll" /\ BelowLimit(w)
    /\ Selected(s)
    /\ pick' = [pick EXCEPT ![w] = [sid |-> s, at |-> now, cron |-> row[s].cron]]
    /\ loop' = [loop EXCEPT ![w] = "claim"]
    /\ UNCHANGED <<now, row, phase, task, boots, requests, served>>

(* Mutant of ClaimUpdate: UPDATE .. WHERE id, without the lock test. *)
ClaimUpdateById(w) ==
    LET s == pick[w].sid IN
    /\ loop[w] = "claim"
    /\ row[s].st = "live"
    /\ Stamp(w, s, pick[w].at)
    /\ UNCHANGED <<now, phase, pick, task, boots, requests>>

(* The UPDATE tests the lock again, but neither enabled nor next_run_at. *)
ClaimUpdate(w) ==
    LET s == pick[w].sid IN
    /\ loop[w] = "claim"
    /\ row[s].st = "live" /\ Claimable(s, pick[w].at)
    /\ Stamp(w, s, pick[w].at)
    /\ UNCHANGED <<now, phase, pick, task, boots, requests>>

(* rowcount = 0: claim_due_schedule returns None and the tight loop ends. *)
ClaimLost(w) ==
    LET s == pick[w].sid IN
    /\ loop[w] = "claim"
    /\ ~(row[s].st = "live" /\ Claimable(s, pick[w].at))
    /\ loop' = [loop EXCEPT ![w] = "poll"]
    /\ pick' = [pick EXCEPT ![w] = NoPick]
    /\ UNCHANGED <<now, row, phase, task, boots, requests, served>>

(* The claimed row reaches the poller, which starts a task for it. *)
Spawn(w, t) ==
    /\ phase[w] = "up" /\ loop[w] = "spawn"
    /\ ~Alive(t)
    /\ task' = [task EXCEPT ![t] = NewTask(w, pick[w].sid, pick[w].cron, pick[w].at, TRUE, TRUE)]
    /\ loop' = [loop EXCEPT ![w] = "poll"]
    /\ pick' = [pick EXCEPT ![w] = NoPick]
    /\ UNCHANGED <<now, row, phase, boots, requests, served>>

(* Mutant of Trigger: execute() is left to release the schedule. *)
TriggerReleases(w, s, t, tracked) ==
    /\ Request
    /\ phase[w] = "up" /\ ~Alive(t)
    /\ row[s].st = "live" /\ row[s].enabled
    /\ task' = [task EXCEPT ![t] = NewTask(w, s, row[s].cron, now, TRUE, tracked)]
    /\ UNCHANGED <<now, row, phase, loop, pick, boots, served>>

(* Manual run: SchedulePoller.trigger (tracked in _in_flight) or the REST   *)
(* handler (run inside the request).  It takes no lock and releases none.   *)
Trigger(w, s, t, tracked) ==
    /\ Request
    /\ phase[w] = "up" /\ ~Alive(t)
    /\ row[s].st = "live" /\ row[s].enabled
    /\ task' = [task EXCEPT ![t] = NewTask(w, s, row[s].cron, 0, FALSE, tracked)]
    /\ UNCHANGED <<now, row, phase, loop, pick, boots, served>>

-----------------------------------------------------------------------------
(* Stopping: stop() cancels the loop, then the tasks, then waits for them.   *)
(* The server has answered its requests before the lifespan calls stop().    *)

Stop(w) ==
    /\ phase[w] = "up"
    /\ boots < MaxBoots      \* bound: one start is left to replace it
    /\ \A t \in Tasks : Alive(t) /\ task[t].w = w => task[t].tracked
    /\ phase' = [phase EXCEPT ![w] = "stopping"]
    /\ UNCHANGED <<now, row, loop, pick, task, boots, requests, served>>

(* CancelledError at the loop's await: whatever claim was under way is lost. *)
LoopExit(w) ==
    /\ phase[w] = "stopping" /\ loop[w] # "off"
    /\ loop' = [loop EXCEPT ![w] = "off"]
    /\ pick' = [pick EXCEPT ![w] = NoPick]
    /\ UNCHANGED <<now, row, phase, task, boots, requests, served>>

CancelAll(w) == [t \in Tasks |-> IF t \in InFlight(w) THEN [task[t] EXCEPT !.cancel = TRUE]
                                                      ELSE task[t]]

CancelInFlight(w) ==
    /\ phase[w] = "stopping" /\ loop[w] = "off"
    /\ phase' = [phase EXCEPT ![w] = "draining"]
    /\ task' = CancelAll(w)
    /\ UNCHANGED <<now, row, loop, pick, boots, requests, served>>

(* stop_timeout expires: wait_for cancels the gather, and so every task again. *)
StopTimeout(w) ==
    /\ phase[w] = "draining" /\ InFlight(w) # {}
    /\ phase' = [phase EXCEPT ![w] = "timedout"]
    /\ task' = CancelAll(w)
    /\ UNCHANGED <<now, row, loop, pick, boots, requests, served>>

(* Mutant of Stopped: stop() does not wait for the tasks it cancelled. *)
StoppedAtOnce(w) ==
    /\ phase[w] \in {"draining", "timedout"}
    /\ phase' = [phase EXCEPT ![w] = "down"]
    /\ UNCHANGED <<now, row, loop, pick, task, boots, requests, served>>

(* Mutant of Stopped: stop() hangs once its wait has timed out. *)
StoppedInTime(w) ==
    /\ phase[w] = "draining" /\ InFlight(w) = {}
    /\ phase' = [phase EXCEPT ![w] = "down"]
    /\ UNCHANGED <<now, row, loop, pick, task, boots, requests, served>>

Stopped(w) ==
    /\ phase[w] \in {"draining", "timedout"} /\ InFlight(w) = {}
    /\ phase' = [phase EXCEPT ![w] = "down"]
    /\ UNCHANGED <<now, row, loop, pick, task, boots, requests, served>>

(* The process dies: its memory is gone, the table is not. *)
Crash(w) ==
    /\ phase[w] # "down"
    /\ boots < MaxBoots      \* bound: one start is left to replace it
    /\ phase' = [phase EXCEPT ![w] = "down"]
    /\ loop' = [loop EXCEPT ![w] = "off"]
    /\ pick' = [pick EXCEPT ![w] = NoPick]
    /\ task' = [t \in Tasks |-> IF task[t].w = w THEN Idle ELSE task[t]]
    /\ UNCHANGED <<now, row, boots, requests, served>>

-----------------------------------------------------------------------------
(* ScheduleExecutor.execute, one action per await. *)

(* The finally block up to its first await: compute the next run, if any. *)
Finally(r) ==
    IF ~r.lock THEN Idle
    ELSE IF r.cron \in BadCrons
         THEN [r EXCEPT !.pc = "disable", !.next = NoNext]
         ELSE [r EXCEPT !.pc = "release", !.next = ComputeNextRun(r.cron, now)]

(* UPDATE schedule_runs .. WHERE id: no row, no effect. *)
SetRun(r, status) ==
    [r EXCEPT !.runs[r.attempt] = IF @ = "none" THEN "none" ELSE status]

Running(t, state) == task[t].pc = state /\ ~task[t].cancel

StepTask(t, r) ==
    /\ task' = [task EXCEPT ![t] = r]
    /\ UNCHANGED <<now, row, phase, loop, pick, boots, requests, served>>

CreateRun(t) ==
    /\ Running(t, "create")
    /\ StepTask(t, [task[t] EXCEPT !.runs[task[t].attempt] = "running", !.pc = "call"])

(* create_schedule_run raises: no handler before the finally block. *)
CreateRunFails(t) ==
    /\ DbFaults
    /\ Running(t, "create")
    /\ StepTask(t, Finally(task[t]))

(* _call_endpoint returns, or raises, which is recorded as "failed" too. *)
CallEnds(t, result) ==
    /\ Running(t, "call")
    /\ StepTask(t, [task[t] EXCEPT !.result = result, !.pc = "record"])

(* Mutant of AfterRecord: one attempt too many. *)
AfterRecordOnceMore(r) ==
    IF r.result = "failed" /\ r.attempt <= MaxAttempts
    THEN [r EXCEPT !.pc = "delay"]
    ELSE Finally([r EXCEPT !.result = "failed"])

AfterRecord(r) ==
    IF r.result = "failed" /\ r.attempt < MaxAttempts
    THEN [r EXCEPT !.pc = "delay"]
    ELSE Finally([r EXCEPT !.result = "failed"])

RecordRun(t) ==
    /\ Running(t, "record")
    /\ StepTask(t, AfterRecord(SetRun(task[t], task[t].result)))

RecordRunFails(t) ==
    /\ DbFaults
    /\ Running(t, "record")
    /\ StepTask(t, AfterRecord(task[t]))

Retry(t) ==
    /\ Running(t, "delay")
    /\ StepTask(t, [task[t] EXCEPT !.attempt = @ + 1, !.pc = "create"])

(* Mutant of MarkCancelled: CancelledError is not handled, only cleaned up. *)
MarkNothing(t) ==
    /\ Running(t, "mark")
    /\ StepTask(t, Finally(task[t]))

MarkCancelled(t) ==
    /\ Running(t, "mark")
    /\ StepTask(t, Finally(SetRun(task[t], "cancelled")))

MarkCancelledFails(t) ==
    /\ DbFaults
    /\ Running(t, "mark")
    /\ StepTask(t, Finally(task[t]))

WriteRow(t, r, newRow) ==
    /\ row' = newRow
    /\ task' = [task EXCEPT ![t] = r]
    /\ UNCHANGED <<now, phase, loop, pick, boots, requests, served>>

(* update_schedule(enabled=False), by id. *)
Disabled(s) == IF row[s].st = "live" THEN [row EXCEPT ![s].enabled = FALSE] ELSE row

(* Mutant of Released: next_run_at is not written. *)
ReleasedKeepsNext(s, next) ==
    IF row[s].st = "live" THEN [row EXCEPT ![s].by = None, ![s].at = 0] ELSE row

(* release_schedule, by id: whoever holds the lock, it is cleared. *)
Released(s, next) ==
    IF row[s].st = "live"
    THEN [row EXCEPT ![s].by = None, ![s].at = 0,
                     ![s].next = IF next = NoNext THEN @ ELSE next]
    ELSE row

(* A swallowed database error leaves the row as it was. *)
Lost(effect) == {effect} \cup (IF DbFaults THEN {row} ELSE {})

DisableBroken(t) ==
    /\ Running(t, "disable")
    /\ \E newRow \in Lost(Disabled(task[t].sid)) :
          WriteRow(t, [task[t] EXCEPT !.pc = "release"], newRow)

Release(t) ==
    /\ Running(t, "release")
    /\ \E newRow \in Lost(Released(task[t].sid, task[t].next)) : WriteRow(t, Idle, newRow)

(* CancelledError at the await of a statement that did, or did not, commit.  *)
(* In the body it is caught and the run marked; in the finally block it is   *)
(* not, and ends the task there.                                             *)
CancelInBody(t) ==
    /\ task[t].cancel /\ task[t].pc \in BodyStates
    /\ \E r \in {task[t]}
            \cup (IF task[t].pc = "create"
                  THEN {[task[t] EXCEPT !.runs[task[t].attempt] = "running"]} ELSE {})
            \cup (IF task[t].pc = "record" THEN {SetRun(task[t], task[t].result)} ELSE {}) :
          StepTask(t, [r EXCEPT !.pc = "mark", !.cancel = FALSE])

CancelInMark(t) ==
    /\ task[t].cancel /\ task[t].pc = "mark"
    /\ \E r \in {task[t], SetRun(task[t], "cancelled")} :
          StepTask(t, Finally([r EXCEPT !.cancel = FALSE]))

CancelInFinally(t) ==
    /\ task[t].cancel
    /\ \E newRow \in {row} \cup
            (IF task[t].pc = "disable" THEN {Disabled(task[t].sid)}
                                       ELSE {Released(task[t].sid, task[t].next)}) :
          WriteRow(t, Idle, newRow)
    /\ task[t].pc \in {"disable", "release"}

-----------------------------------------------------------------------------
Management ==
    \E s \in Schedules :
        \/ Enable(s) \/ Disable(s) \/ Delete(s)
        \/ \E c \in Crons : Create(s, c) \/ PatchCron(s, c) \/ ManagerUpdate(s, c)

ClaimStep(w) ==
    \/ \E s \in Schedules : ClaimAtomic(w, s) \/ ClaimSelect(w, s)
    \/ ClaimUpdate(w) \/ ClaimLost(w)

PollStep(w) ==
    \/ ClaimStep(w)
    \/ \E t \in Tasks : Spawn(w, t)

StopStep(w) == LoopExit(w) \/ CancelInFlight(w) \/ Stopped(w)

TaskStep(t) ==
    \/ CreateRun(t) \/ CreateRunFails(t)
    \/ \E result \in Results : CallEnds(t, result)
    \/ RecordRun(t) \/ RecordRunFails(t) \/ Retry(t)
    \/ MarkCancelled(t) \/ MarkCancelledFails(t)
    \/ DisableBroken(t) \/ Release(t)
    \/ CancelInBody(t) \/ CancelInMark(t) \/ CancelInFinally(t)

WorkerStep(w) ==
    \/ Start(w) \/ Stop(w) \/ StopTimeout(w) \/ Crash(w)
    \/ PollStep(w) \/ StopStep(w)
    \/ \E s \in Schedules, t \in Tasks, tracked \in BOOLEAN : Trigger(w, s, t, tracked)

Step ==
    \/ Tick
    \/ Management
    \/ \E w \in Workers : WorkerStep(w)
    \/ \E t \in Tasks : TaskStep(t)

(* The history variable overran is latched by every step. *)
Latch == overran' = (overran \/ OverranNow')

Next == Step /\ Latch

Spec == Init /\ [][Next]_vars

(* The clock runs, processes are restarted, event loops run their tasks and  *)
(* every call ends: httpx and _poll_run have deadlines.                      *)
Fairness ==
    /\ WF_vars(Tick /\ Latch)
    /\ \A w \in Workers : /\ WF_vars(Start(w) /\ Latch)
                          /\ WF_vars(PollStep(w) /\ Latch)
                          /\ WF_vars(StopStep(w) /\ Latch)
    /\ \A t \in Tasks : WF_vars(TaskStep(t) /\ Latch)

FairSpec == Spec /\ Fairness

-----------------------------------------------------------------------------
(* As long as no claimed execution has outlived Grace, a schedule has at     *)
(* most one claim at a time, over all workers, whatever was disabled,        *)
(* edited, deleted, stopped or crashed meanwhile.                            *)
OneClaimPerSchedule ==
    \A s \in Schedules :
        /\ \A t1, t2 \in Tasks : TaskHolds(t1, s) /\ TaskHolds(t2, s) => t1 = t2
        /\ \A w1, w2 \in Workers : LoopHolds(w1, s) /\ LoopHolds(w2, s) => w1 = w2
        /\ \A w \in Workers, t \in Tasks : ~(LoopHolds(w, s) /\ TaskHolds(t, s))

MutualExclusion == ~overran => OneClaimPerSchedule

(* Under the same condition the row names the worker and the time of every   *)
(* claim under way, so the unconditional UPDATE of release_schedule clears   *)
(* the lock of the execution that calls it, not that of another.             *)
HolderOwnsLock ==
    ~overran => \A s \in Schedules : row[s].st = "live" =>
        /\ \A t \in Tasks : TaskHolds(t, s) => row[s].by = task[t].w /\ row[s].at = task[t].at
        /\ \A w \in Workers : LoopHolds(w, s) => row[s].by = w /\ row[s].at = pick[w].at

(* A schedule that is unlocked and enabled waits for a time after its last    *)
(* claim: what has been served is not due again, on the retry, failure,       *)
(* cancellation and broken-cron paths alike.  (A poller that selected the row *)
(* before another claimed it may still serve it once more, with the stamp of  *)
(* its SELECT.)                                                               *)
ServedIsNotDue ==
    ~overran => \A s \in Schedules :
        row[s].st = "live" /\ row[s].enabled /\ row[s].by = None /\ served[s] > 0
            => row[s].next > served[s]

(* A poller never runs more claimed executions than max_concurrent, although *)
(* manual triggers are added to _in_flight without asking.                   *)
ClaimedWithinLimit ==
    \A w \in Workers :
        Cardinality({t \in InFlight(w) : task[t].lock}) <= MaxConcurrent

(* When stop() has returned nothing of the worker runs any more: no loop, no *)
(* claim under way, no execution.                                            *)
StoppedIsQuiet ==
    \A w \in Workers : phase[w] = "down" =>
        loop[w] = "off" /\ \A t \in Tasks : Alive(t) => task[t].w # w

(* Once an execution has reached its finally block none of its records says   *)
(* "running" any more, and a record is final before the next attempt starts:  *)
(* failure, retry and cancellation all write it.  Only a second cancellation, *)
(* when stop() times out, can leave one behind.                               *)
RecordsAreFinal ==
    \A t \in Tasks : \A a \in 1..MaxAttempts :
        Alive(t) /\ task[t].runs[a] = "running" =>
            /\ a = task[t].attempt
            /\ task[t].pc \in {"disable", "release"} => phase[task[t].w] = "timedout"

(* executor.py:219: "Always release the schedule lock so it doesn't stay     *)
(* stuck": an execution of a live process does not end with its lock in place.*)
LockAlwaysReleased ==
    [][\A t \in Tasks : Alive(t) /\ task[t].lock /\ task'[t] = Idle /\ phase'[task[t].w] # "down"
        => row'[task[t].sid].st # "live" \/ row'[task[t].sid].by = None]_vars

(* A schedule that is due is eventually run, even when the worker that       *)
(* claimed it was stopped in the middle or died: the lock goes stale (but     *)
(* for a lock stamped so late that the bounded clock cannot outlive it).      *)
Waiting(s) == row[s].st = "live" /\ row[s].enabled /\ row[s].next <= now

OutlivesClock(s) == row[s].by # None /\ row[s].at + Grace > MaxTime

DueIsServed ==
    \A s \in Schedules :
        Waiting(s) ~> \/ \E t \in Tasks : TaskHolds(t, s)
                      \/ ~Waiting(s)
                      \/ OutlivesClock(s)

(* stop() returns. *)
StopReturns == \A w \in Workers : phase[w] = "stopping" ~> phase[w] = "down"

-----------------------------------------------------------------------------
(* The scheduler implements ScheduleLease: row locks, polls, tasks, stops and *)
(* crashes do no more to the claims than it allows.                          *)
ClaimsOf(s) ==
    {[w |-> w, at |-> pick[w].at] : w \in {v \in Workers : LoopHolds(v, s)}}
        \cup {[w |-> task[t].w, at |-> task[t].at] : t \in {u \in Tasks : TaskHolds(u, s)}}

Holders == [s \in Schedules |-> ClaimsOf(s)]

Lease == INSTANCE ScheduleLease WITH holders <- Holders, clock <- now, broken <- overran

ImplementsLease == Lease!Spec
=============================================================================
