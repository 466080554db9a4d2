--------------------------- MODULE BackgroundRuns ---------------------------
(***************************************************************************)
(* Background runs of one agent in one session, and those who deal with    *)
(* them: the executor of a schedule, which submits a run, polls its status *)
(* until a deadline and submits another one when it fails; users, who      *)
(* submit, continue and cancel runs; and deletion of the session.          *)
(*                                                                         *)
(* A session is one row of the database with all its runs.  Whoever writes *)
(* one run writes the whole row, from the copy it has read.  Cancellation  *)
(* is a table in the memory of the server.  One server process executes    *)
(* the runs; the executor is another one, and survives it.                 *)
(***************************************************************************)
EXTENDS Naturals, FiniteSets

CONSTANTS
    MaxExecs,       \* bound: executions, first ones and continuations
    MaxAlive,       \* bound: executions at the same time
    Retries,        \* the agent's retries
    MaxRetries,     \* the schedule's max_retries
    MaxEvents       \* bound: runs submitted, continued or cancelled by users, deletions of the
                    \* session, crashes, and one failure of the database

ASSUME BackgroundRunsAssumption ==
    /\ MaxExecs \in Nat \ {0} /\ MaxAlive \in Nat \ {0}
    /\ Retries \in Nat /\ MaxRetries \in Nat
    /\ MaxEvents \in Nat

VARIABLES
    session,    \* the row: the status of each of its runs
    exec,       \* executions of runs
    intent,     \* _cancelled_runs
    job,        \* ScheduleExecutor.execute: the run it waits for, the last one it has reported
    record,     \* the schedule_runs row of each attempt, and the run it is about
    events,     \* how many of the bounded events have happened
    seen        \* history

vars == <<session, exec, intent, job, record, events, seen>>

-----------------------------------------------------------------------------
Execs == 1..MaxExecs
NoRun == 0

(* A run is named after its first execution. *)
Runs == Execs

Attempts == 1..(MaxRetries + 1)

Terminal == {"completed", "cancelled", "error", "paused"}
Statuses == {"pending", "running"} \cup Terminal
Results == {"success", "failed", "paused"}

SessionType == [Runs -> Statuses \cup {"absent"}]

NewSession == [r \in Runs |-> "absent"]

ExecStates == {"idle", "pending", "running", "begin", "work", "answered", "store", "cleanup",
               "over", "dead"}

TypeOK ==
    /\ session \in SessionType
    /\ exec \in [Execs -> [pc : ExecStates, run : Runs \cup {NoRun}, status : Statuses,
                           attempt : 0..Retries, view : SessionType,
                           asked : {"no", "early", "late"}]]
    /\ intent \in [Runs -> {"none", "registered", "cancelled"}]
    /\ job \in [pc : {"submit", "wait", "poll", "done"}, attempt : Attempts,
                run : Runs \cup {NoRun}, last : Runs \cup {NoRun}]
    /\ record \in [Attempts -> [status : Results \cup {"none", "running"}, run : Runs \cup {NoRun}]]
    /\ events \in 0..MaxEvents
    /\ seen \in [exposed : SUBSET Runs, fault : BOOLEAN, shared : SUBSET Runs, deleted : SUBSET Runs,
                 stray : SUBSET Runs, gaveUp : SUBSET Attempts]
    /\ \A e \in Execs : exec[e].pc # "idle" => exec[e].run \in Runs

Idle == [pc |-> "idle", run |-> NoRun, status |-> "pending", attempt |-> 0, view |-> NewSession,
         asked |-> "no"]

Init ==
    /\ session = NewSession
    /\ exec = [e \in Execs |-> Idle]
    /\ intent = [r \in Runs |-> "none"]
    /\ job = [pc |-> "submit", attempt |-> 1, run |-> NoRun, last |-> NoRun]
    /\ record = [a \in Attempts |-> [status |-> "none", run |-> NoRun]]
    /\ events = 0
    /\ seen = [exposed |-> {}, fault |-> FALSE, shared |-> {}, deleted |-> {},
               stray |-> {}, gaveUp |-> {}]

-----------------------------------------------------------------------------
Active(e) == exec[e].pc \notin {"idle", "over", "dead"}

ActiveOn(r) == {e \in Execs : Active(e) /\ exec[e].run = r}

Faults == IF seen.fault THEN 1 ELSE 0

Event == events + Faults < MaxEvents /\ events' = events + 1

MayFail == ~seen.fault /\ events < MaxEvents

(* An execution holds a copy of the row, or is about to take one, to write it back. *)
Busy(e) == Active(e) /\ exec[e].pc # "cleanup"

(* The runs that a new writer meets, and with them those it is about. *)
Met(runs) ==
    LET writers == {exec[e].run : e \in {d \in Execs : Busy(d)}} IN
    IF writers = {} THEN {} ELSE writers \cup runs

InRow == {r \in Runs : session[r] # "absent"}

(* Has the id of the run been returned? *)
GivenOut(r) == exec[r].run = r /\ exec[r].pc \notin {"idle", "pending"}

-----------------------------------------------------------------------------
(* The database. *)

(* aread_session: None, hence a new session, when there is no row, or when    *)
(* the read fails, which is logged.                                          *)
ReadOutcomes == {session} \cup (IF MayFail THEN {NewSession} ELSE {})

(* session.upsert_run *)
WithRun(view, r, status) == [view EXCEPT ![r] = status]

(* upsert_session, on behalf of a run: the whole row; a failure is logged and *)
(* the run goes on.                                                          *)
Upsert(view, r) ==
    \/ session' = view /\ seen' = [seen EXCEPT !.deleted = @ \ {r}]
    \/ MayFail /\ UNCHANGED session /\ seen' = [seen EXCEPT !.fault = TRUE]

(* delete_session, whoever holds a copy of the row. *)
DeleteSession ==
    /\ Event
    /\ session # NewSession
    /\ session' = NewSession
    /\ seen' = [seen EXCEPT !.deleted = @ \cup InRow, !.exposed = @ \cup Met(InRow)]
    /\ UNCHANGED <<exec, intent, job, record>>

-----------------------------------------------------------------------------
(* The cancellation manager. *)

(* Mutant of Registered: the entry is overwritten. *)
RegisteredAnew(r) == [intent EXCEPT ![r] = "registered"]

(* setdefault: an intention that is there is kept. *)
Registered(r) == [intent EXCEPT ![r] = IF @ = "none" THEN "registered" ELSE @]

(* Mutant of CleanedUp: a cancelled run's entry is left. *)
CleanedUpUnlessCancelled(r) == [intent EXCEPT ![r] = IF @ = "cancelled" THEN @ ELSE "none"]

CleanedUp(r) == [intent EXCEPT ![r] = "none"]

(* History: has the cancellation come before the model's answer, or the last check? *)
Asked(x) ==
    IF x.pc \in {"running", "begin", "work"} THEN "early"
    ELSE IF x.pc = "answered" /\ x.asked = "no" THEN "late" ELSE x.asked

(* /cancel, whatever became of the run. *)
Cancel(r) ==
    /\ Event
    /\ GivenOut(r)
    /\ intent' = [intent EXCEPT ![r] = "cancelled"]
    /\ exec' = [e \in Execs |-> IF e \in ActiveOn(r) THEN [exec[e] EXCEPT !.asked = Asked(exec[e])]
                                                     ELSE exec[e]]
    /\ seen' = [seen EXCEPT !.stray = IF ActiveOn(r) = {} THEN @ \cup {r} ELSE @]
    /\ UNCHANGED <<session, job, record>>

-----------------------------------------------------------------------------
(* An execution. *)

StepExec(e, x) == exec' = [exec EXCEPT ![e] = x]

(* The next execution in order. *)
Unused(e) ==
    /\ exec[e].pc = "idle" /\ \A d \in 1..(e - 1) : exec[d].pc # "idle"
    /\ Cardinality({d \in Execs : Active(d)}) < MaxAlive

(* Bound: the executions of users leave some for the attempts to come. *)
ToCome == IF job.pc = "done" THEN 0
          ELSE MaxRetries + 1 - job.attempt + (IF job.pc = "submit" THEN 1 ELSE 0)

(* _arun_background: registered, the session read, about to save PENDING. *)
Submitted(e) ==
    /\ Unused(e)
    /\ intent' = Registered(e)
    /\ \E view \in ReadOutcomes :
          /\ StepExec(e, [Idle EXCEPT !.pc = "pending", !.run = e, !.view = view])
          /\ seen' = [seen EXCEPT !.fault = @ \/ view # session, !.exposed = @ \cup Met({e})]

UserSubmits(e) ==
    /\ Event /\ e + ToCome < MaxExecs
    /\ Submitted(e)
    /\ UNCHANGED <<session, job, record>>

(* The save that the caller waits for; then the id is returned. *)
SavePending(e) ==
    /\ exec[e].pc = "pending"
    /\ LET view == WithRun(exec[e].view, exec[e].run, "pending") IN
          Upsert(view, exec[e].run) /\ StepExec(e, [exec[e] EXCEPT !.pc = "running", !.view = view])
    /\ job' = IF job.pc = "wait" /\ job.run = e THEN [job EXCEPT !.pc = "poll"] ELSE job
    /\ UNCHANGED <<intent, record, events>>

(* _background_task: from the same copy of the session. *)
SaveRunning(e) ==
    /\ exec[e].pc = "running"
    /\ LET view == WithRun(exec[e].view, exec[e].run, "running") IN
          Upsert(view, exec[e].run) /\ StepExec(e, [exec[e] EXCEPT !.pc = "begin", !.status = "running", !.view = NewSession])
    /\ UNCHANGED <<intent, job, record, events>>

(* A user continues a run.  The route refuses one that it finds and that is   *)
(* not paused; one that it does not find passes.                             *)
Continue(e, r) ==
    /\ Event /\ e + ToCome <= MaxExecs /\ e < MaxExecs
    /\ Unused(e)
    /\ GivenOut(r)
    /\ StepExec(e, [Idle EXCEPT !.pc = "begin", !.run = r, !.status = "paused",
                             !.asked = IF intent[r] = "cancelled" THEN "early" ELSE "no"])
    /\ \E view \in ReadOutcomes :
          /\ view[r] \in {"paused", "absent"}
          /\ seen' = [seen EXCEPT !.fault = @ \/ view # session, !.exposed = @ \cup Met({r}),
                                  !.shared = IF ActiveOn(r) = {} THEN @ ELSE @ \cup {r}]
    /\ UNCHANGED <<session, intent, job, record>>

(* Mutant of Failed: one attempt too many. *)
FailedOnceMore(x) ==
    IF x.attempt <= Retries THEN [x EXCEPT !.attempt = @ + 1, !.pc = "begin"]
                            ELSE [x EXCEPT !.status = "error", !.pc = "store"]

(* An exception: once more from reading the session on, or the end. *)
Failed(x) ==
    IF x.attempt < Retries THEN [x EXCEPT !.attempt = @ + 1, !.pc = "begin", !.view = NewSession]
                           ELSE [x EXCEPT !.status = "error", !.pc = "store"]

(* A continuation that has not found its run yet looks it up in the session. *)
Missing(x, e) == e # x.run /\ x.status = "paused" /\ x.view[x.run] = "absent"

(* Each attempt reads the session and registers the run, which a retry finds   *)
(* registered.  A run that is missing is an exception; when the continuation  *)
(* is a stream, the next attempt goes on with an empty run in its place.      *)
Begin(e) ==
    /\ exec[e].pc = "begin"
    /\ \E view \in ReadOutcomes :
          LET x == [exec[e] EXCEPT !.view = view] IN
          /\ IF Missing(x, e)
             THEN /\ StepExec(e, Failed(x)) \/ StepExec(e, Failed([x EXCEPT !.status = "running"]))
                  /\ UNCHANGED intent
             ELSE /\ StepExec(e, [x EXCEPT !.pc = "work", !.status = "running"])
                  /\ intent' = Registered(x.run)
          /\ seen' = [seen EXCEPT !.fault = @ \/ view # session]
    /\ UNCHANGED <<session, job, record, events>>

(* araise_if_cancelled: RunCancelledException, or nothing. *)
Checked(x, state) ==
    IF intent[x.run] = "cancelled" THEN [x EXCEPT !.status = "cancelled", !.pc = "store"]
                                   ELSE [x EXCEPT !.pc = state]

(* Up to the check that follows the model's answer. *)
Answer(e) ==
    /\ exec[e].pc = "work"
    /\ StepExec(e, Checked(exec[e], "answered"))
    /\ UNCHANGED <<session, intent, job, record, events, seen>>

(* An exception; that of a guardrail or hook that rejects input or output is  *)
(* not retried.                                                              *)
Fails(e) ==
    /\ exec[e].pc \in {"work", "answered"}
    /\ \/ StepExec(e, Failed(exec[e]))
       \/ StepExec(e, [exec[e] EXCEPT !.status = "error", !.pc = "store"])
    /\ UNCHANGED <<session, intent, job, record, events, seen>>

(* A tool call waits for a human: no further check. *)
Pause(e) ==
    /\ exec[e].pc = "answered"
    /\ StepExec(e, [exec[e] EXCEPT !.status = "paused", !.pc = "store"])
    /\ UNCHANGED <<session, intent, job, record, events, seen>>

(* The last check, after the post-hooks. *)
Complete(e) ==
    /\ exec[e].pc = "answered"
    /\ StepExec(e, Checked([exec[e] EXCEPT !.status = "completed"], "store"))
    /\ UNCHANGED <<session, intent, job, record, events, seen>>

(* Mutant of Store: the run's final state is appended to a new session. *)
StoreFresh(e) ==
    /\ exec[e].pc = "store"
    /\ Upsert(WithRun(NewSession, exec[e].run, exec[e].status), exec[e].run)
    /\ StepExec(e, [exec[e] EXCEPT !.pc = "cleanup", !.attempt = 0, !.view = NewSession, !.asked = "no"])
    /\ UNCHANGED <<intent, job, record, events>>

(* acleanup_and_store: into the copy the attempt has read, and that into the row. *)
Store(e) ==
    /\ exec[e].pc = "store"
    /\ Upsert(WithRun(exec[e].view, exec[e].run, exec[e].status), exec[e].run)
    /\ StepExec(e, [exec[e] EXCEPT !.pc = "cleanup", !.attempt = 0, !.view = NewSession, !.asked = "no"])
    /\ UNCHANGED <<intent, job, record, events>>

Cleanup(e) ==
    /\ exec[e].pc = "cleanup"
    /\ StepExec(e, [exec[e] EXCEPT !.pc = "over"])
    /\ intent' = CleanedUp(exec[e].run)
    /\ seen' = [seen EXCEPT !.stray = @ \ {exec[e].run}]
    /\ UNCHANGED <<session, job, record, events>>

(* The server dies and is started again: its executions and its table are gone. *)
Crash ==
    /\ Event
    /\ exec' = [e \in Execs |-> IF Active(e) THEN [exec[e] EXCEPT !.pc = "dead", !.attempt = 0,
                                                                  !.view = NewSession, !.asked = "no"]
                                             ELSE exec[e]]
    /\ intent' = [r \in Runs |-> "none"]
    /\ seen' = [seen EXCEPT !.stray = {}]
    /\ UNCHANGED <<session, job, record>>

-----------------------------------------------------------------------------
(* The executor of the schedule. *)

(* The record of the attempt, and the POST that starts a run. *)
JobSubmits(e) ==
    /\ job.pc = "submit"
    /\ Submitted(e)
    /\ job' = [job EXCEPT !.pc = "wait", !.run = e]
    /\ record' = [record EXCEPT ![job.attempt].status = "running"]
    /\ UNCHANGED <<session, events>>

(* The attempt is recorded, and repeated when it has failed; nobody reads     *)
(* schedule_runs here, so what execute writes and its sleep are one step.     *)
Recorded(result, run) ==
    /\ record' = [record EXCEPT ![job.attempt] = [status |-> result, run |-> run]]
    /\ job' = LET j == [job EXCEPT !.last = IF run = NoRun THEN @ ELSE run] IN
              IF result = "failed" /\ job.attempt < MaxRetries + 1
              THEN [j EXCEPT !.pc = "submit", !.attempt = @ + 1, !.run = NoRun]
              ELSE [j EXCEPT !.pc = "done"]
    /\ UNCHANGED <<session, exec, intent, events>>

GivenUp == seen' = [seen EXCEPT !.gaveUp = @ \cup {job.attempt}]

(* The POST is refused: run_id_value is still that of an earlier attempt. *)
Refused ==
    /\ job.pc = "submit"
    /\ Recorded("failed", job.last) /\ GivenUp

(* The POST times out or breaks: the run it may have started goes on. *)
CallRaises ==
    /\ job.pc = "wait"
    /\ Recorded("failed", NoRun) /\ GivenUp

(* Polling passes its deadline or is refused: the run goes on. *)
PollEnds ==
    /\ job.pc = "poll"
    /\ Recorded("failed", job.run) /\ GivenUp

ResultOf(status) ==
    IF status = "completed" THEN "success" ELSE IF status = "paused" THEN "paused" ELSE "failed"

(* Mutant of Poll: 404 is a failure like other errors. *)
PollNotFound ==
    /\ job.pc = "poll"
    /\ session[job.run] \in Terminal \cup {"absent"}
    /\ Recorded(ResultOf(session[job.run]), job.run)
    /\ UNCHANGED seen

(* A poll that finds a terminal status; any other answer is polled again. *)
Poll ==
    /\ job.pc = "poll"
    /\ session[job.run] \in Terminal
    /\ Recorded(ResultOf(session[job.run]), job.run)
    /\ UNCHANGED seen

-----------------------------------------------------------------------------
ExecStep(e) ==
    \/ SavePending(e) \/ SaveRunning(e) \/ Begin(e) \/ Answer(e) \/ Fails(e)
    \/ Pause(e) \/ Complete(e) \/ Store(e) \/ Cleanup(e)

JobStep ==
    \/ \E e \in Execs : JobSubmits(e)
    \/ Refused \/ CallRaises \/ PollEnds \/ Poll

Next ==
    \/ JobStep \/ DeleteSession \/ Crash
    \/ \E e \in Execs : ExecStep(e) \/ UserSubmits(e)
    \/ \E r \in Runs : Cancel(r)
    \/ \E e \in Execs, r \in Runs : Continue(e, r)

Spec == Init /\ [][Next]_vars

-----------------------------------------------------------------------------
(* What the executor records is what became of the run: "success" and         *)
(* "paused" only of a run that completed or paused, "failed" of one that      *)
(* failed or was cancelled, unless the executor gave up on it.                *)
Ended(r, statuses) ==
    \E e \in Execs : /\ exec[e].run = r /\ exec[e].status \in statuses
                     /\ exec[e].pc \in {"cleanup", "over", "dead"}

RecordsTellTruth ==
    \A a \in Attempts :
        LET r == record[a].run IN
        /\ record[a].status = "success" => Ended(r, {"completed"})
        /\ record[a].status = "paused" => Ended(r, {"paused"})
        /\ record[a].status = "failed" /\ a \notin seen.gaveUp => Ended(r, {"error", "cancelled"})

(* While an attempt is under way the executions that earlier ones started are  *)
(* over, but for those the executor gave up on (polling that times out stops  *)
(* nothing) and those that a user continued while they were under way: a      *)
(* continuation that does not find its run stores it as failed.              *)
RetriesFollow ==
    job.pc \in {"wait", "poll"} =>
        \A a \in 1..(job.attempt - 1) \ seen.gaveUp :
            LET r == record[a].run IN
            exec[r].pc \in {"cleanup", "over", "dead"} \/ r \in seen.shared

(* A cancellation that is accepted while a run is under way, or before it has *)
(* started, ends it: as cancelled (or failed) when it comes before the model  *)
(* has answered; at least not as completed before the last check.  Unless two *)
(* executions of the run overlapped: the first to end takes the entry along.  *)
CancelEndsRun ==
    \A e \in Execs : exec[e].pc = "store" /\ exec[e].run \notin seen.shared =>
        /\ exec[e].asked = "early" => exec[e].status \in {"cancelled", "error"}
        /\ exec[e].asked = "late" => exec[e].status # "completed"

(* The table holds runs under way only, and those cancelled when they were    *)
(* not: nobody ever takes these out.                                         *)
EntriesAreLive == \A r \in Runs : intent[r] # "none" => ActiveOn(r) # {} \/ r \in seen.stray

(* The row has the last status of every run that is over, or nothing of one   *)
(* that was deleted and not stored since, as long as the database does not    *)
(* fail: whatever happens to other runs, for one that met no other writer,    *)
(* nor was in the row when it was deleted under a writer's hands.             *)
Last(r, e) == exec[e].run = r /\ \A d \in Execs : exec[d].run = r => d <= e

SessionKeepsAll ==
    ~seen.fault =>
        \A r \in Runs \ seen.exposed, e \in Execs : Last(r, e) /\ exec[e].pc = "over" =>
            session[r] = IF r \in seen.deleted THEN "absent" ELSE exec[e].status
=============================================================================
