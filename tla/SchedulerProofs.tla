--------------------------- MODULE SchedulerProofs ---------------------------
(* Proofs about Scheduler, for any number of workers, schedules and tasks.  *)
EXTENDS Scheduler, TLAPS

(* compute_next_run returns a time later than the one it is given. *)
LEMMA NextRunLater ==
    ASSUME NEW c \in Crons, NEW t \in Nat
    PROVE  ComputeNextRun(c, t) \in Nat /\ ComputeNextRun(c, t) > t
<1>1. Period[c] \in Nat /\ Period[c] > 0
  BY SchedulerAssumption
<1>2. t \div Period[c] \in Nat
  BY <1>1
<1>3. ((t \div Period[c]) + 1) * Period[c] \in Nat
  BY <1>1, <1>2
<1>4. QED
  BY <1>3 DEF ComputeNextRun

LEMMA IdleType == Idle \in TaskType
<1>1. NoRuns \in [1..MaxAttempts -> RunStatuses]
  BY DEF NoRuns, RunStatuses
<1>2. 1 \in 1..MaxAttempts
  BY SchedulerAssumption DEF MaxAttempts
<1>3. QED
  BY <1>1, <1>2 DEF Idle, TaskType, TaskStates, BodyStates, Results, NoNext

(* The finally block leaves a well-formed task. *)
LEMMA FinallyType ==
    ASSUME NEW r \in TaskType, r.cron \in Crons, now \in Nat
    PROVE  Finally(r) \in TaskType
<1>1. CASE ~r.lock
  BY <1>1, IdleType DEF Finally
<1>2. CASE r.lock /\ r.cron \in BadCrons
  BY <1>2 DEF Finally, TaskType, TaskStates, NoNext
<1>3. CASE r.lock /\ r.cron \notin BadCrons
  <2>1. ComputeNextRun(r.cron, now) \in Nat
    BY NextRunLater
  <2>2. QED
    BY <1>3, <2>1 DEF Finally, TaskType, TaskStates
<1>4. QED
  BY <1>1, <1>2, <1>3 DEF TaskType

LEMMA SetRunType ==
    ASSUME NEW r \in TaskType, NEW status \in RunStatuses
    PROVE  /\ SetRun(r, status) \in TaskType
           /\ SetRun(r, status).cron = r.cron
           /\ SetRun(r, status).attempt = r.attempt
           /\ SetRun(r, status).result = r.result
  BY DEF SetRun, TaskType, RunStatuses

(* What a task step may leave in its slot for TypeOK to hold afterwards. *)
WellFormed(r) ==
    /\ r \in TaskType
    /\ r.pc # "idle" => r.sid \in Schedules /\ r.w \in Workers /\ r.cron \in Crons
    /\ r.pc = "delay" => r.attempt < MaxAttempts
    /\ r.pc \in {"disable", "release"} => r.lock

LEMMA WellFormedTask ==
    ASSUME TypeOK, NEW t \in Tasks
    PROVE  WellFormed(task[t])
  BY DEF TypeOK, WellFormed, Alive

LEMMA IdleWellFormed == WellFormed(Idle)
  BY IdleType DEF WellFormed, Idle

(* Moving to the finally block, or on after recording a result, keeps a     *)
(* task well formed.                                                        *)
LEMMA FinallyWellFormed ==
    ASSUME NEW r, WellFormed(r), r.pc # "idle", now \in Nat
    PROVE  WellFormed(Finally(r))
<1>1. Finally(r) \in TaskType
  BY FinallyType DEF WellFormed
<1>2. Finally(r) = Idle \/ /\ Finally(r).pc \in {"disable", "release"}
                           /\ Finally(r).lock
                           /\ Finally(r).sid = r.sid /\ Finally(r).w = r.w
                           /\ Finally(r).cron = r.cron
  BY DEF Finally, WellFormed, TaskType
<1>3. QED
  BY <1>1, <1>2, IdleWellFormed DEF WellFormed

LEMMA SetRunWellFormed ==
    ASSUME NEW r, WellFormed(r), NEW status \in RunStatuses
    PROVE  /\ WellFormed(SetRun(r, status))
           /\ SetRun(r, status).pc = r.pc
           /\ SetRun(r, status).attempt = r.attempt
           /\ SetRun(r, status).cron = r.cron
           /\ SetRun(r, status).lock = r.lock
<1>1. SetRun(r, status) \in TaskType
  BY SetRunType DEF WellFormed
<1>2. /\ SetRun(r, status).pc = r.pc /\ SetRun(r, status).attempt = r.attempt
      /\ SetRun(r, status).sid = r.sid /\ SetRun(r, status).w = r.w
      /\ SetRun(r, status).cron = r.cron /\ SetRun(r, status).lock = r.lock
  BY DEF SetRun, WellFormed, TaskType
<1>3. QED
  BY <1>1, <1>2 DEF WellFormed

LEMMA AfterRecordWellFormed ==
    ASSUME NEW r, WellFormed(r), r.pc # "idle", now \in Nat
    PROVE  WellFormed(AfterRecord(r))
<1>1. CASE r.result = "failed" /\ r.attempt < MaxAttempts
  BY <1>1 DEF AfterRecord, WellFormed, TaskType, TaskStates, BodyStates
<1>2. CASE ~(r.result = "failed" /\ r.attempt < MaxAttempts)
  <2>. DEFINE q == [r EXCEPT !.result = "failed"]
  <2>1. WellFormed(q) /\ q.pc # "idle"
    BY DEF WellFormed, TaskType, Results
  <2>2. AfterRecord(r) = Finally(q)
    BY <1>2 DEF AfterRecord
  <2>. HIDE DEF q
  <2>3. QED
    BY <2>1, <2>2, FinallyWellFormed
<1>3. QED
  BY <1>1, <1>2

-----------------------------------------------------------------------------
(* A step of one task, which leaves the table or writes a typed row. *)
LEMMA TaskWriteType ==
    ASSUME TypeOK, Latch, NEW t \in Tasks, NEW r, WellFormed(r),
           task' = [task EXCEPT ![t] = r],
           row' \in [Schedules -> RowType],
           \A s \in Schedules : row'[s].st = "live" => row'[s].cron \in Crons,
           UNCHANGED <<now, phase, loop, pick, boots, requests, served>>
    PROVE  TypeOK'
<1>1. task' \in [Tasks -> TaskType]
  BY DEF TypeOK, WellFormed
<1>2. overran' \in BOOLEAN
  BY DEF TypeOK, Latch
<1>3. \A u \in Tasks : Alive(u)' =>
          task'[u].sid \in Schedules /\ task'[u].w \in Workers /\ task'[u].cron \in Crons
  BY DEF TypeOK, WellFormed, Alive
<1>4. \A u \in Tasks : /\ task'[u].pc = "delay" => task'[u].attempt < MaxAttempts
                       /\ task'[u].pc \in {"disable", "release"} => task'[u].lock
  BY DEF TypeOK, WellFormed
<1>5. QED
  BY <1>1, <1>2, <1>3, <1>4 DEF TypeOK

LEMMA TaskStepType ==
    ASSUME TypeOK, Latch, NEW t \in Tasks, NEW r, WellFormed(r), StepTask(t, r)
    PROVE  TypeOK'
  BY TaskWriteType DEF StepTask, TypeOK

-----------------------------------------------------------------------------
LEMMA TaskActionsType ==
    ASSUME TypeOK, Latch, NEW t \in Tasks, TaskStep(t)
    PROVE  TypeOK'
<1>. DEFINE r == task[t]
<1>1. WellFormed(r) /\ now \in Nat
  BY WellFormedTask DEF TypeOK
<1>. HIDE DEF r
<1>2. ASSUME NEW p \in [Schedules -> RowType],
             \A s \in Schedules : p[s].st = "live" => p[s].cron \in Crons,
             NEW q, WellFormed(q), WriteRow(t, q, p)
      PROVE  TypeOK'
  BY <1>2, TaskWriteType DEF WriteRow
<1>3. /\ row \in [Schedules -> RowType]
      /\ \A s \in Schedules : row[s].st = "live" => row[s].cron \in Crons
  BY DEF TypeOK
<1>4. r.pc # "idle" => /\ Disabled(r.sid) \in [Schedules -> RowType]
                       /\ \A s \in Schedules : Disabled(r.sid)[s].st = "live"
                                                 => Disabled(r.sid)[s].cron \in Crons
  BY <1>1, <1>3, ZenonT(60) DEF Disabled, WellFormed, RowType
<1>5. r.pc # "idle" => /\ Released(r.sid, r.next) \in [Schedules -> RowType]
                       /\ \A s \in Schedules : Released(r.sid, r.next)[s].st = "live"
                                                 => Released(r.sid, r.next)[s].cron \in Crons
  <2>. SUFFICES ASSUME r.pc # "idle", row[r.sid].st = "live"
       PROVE  /\ Released(r.sid, r.next) \in [Schedules -> RowType]
              /\ \A s \in Schedules : Released(r.sid, r.next)[s].st = "live"
                                       => Released(r.sid, r.next)[s].cron \in Crons
    BY <1>3 DEF Released
  <2>. DEFINE new == [row[r.sid] EXCEPT !.by = None, !.at = 0,
                         !.next = IF r.next = NoNext THEN @ ELSE r.next]
  <2>1. r.next \in Nat /\ r.sid \in Schedules /\ row[r.sid] \in RowType
    BY <1>1, <1>3 DEF WellFormed, TaskType
  <2>2. new \in RowType /\ new.cron = row[r.sid].cron
    BY <2>1 DEF RowType
  <2>3. Released(r.sid, r.next) = [row EXCEPT ![r.sid] = new]
    BY <1>3, <2>1 DEF Released
  <2>. HIDE DEF new
  <2>4. QED
    BY <1>3, <2>1, <2>2, <2>3
<1>6. CASE CreateRun(t)
  <2>. DEFINE q == [r EXCEPT !.runs[r.attempt] = "running", !.pc = "call"]
  <2>1. WellFormed(q)
    BY <1>1, <1>6 DEF WellFormed, CreateRun, Running, TaskType, TaskStates, BodyStates,
                      RunStatuses, r
  <2>2. StepTask(t, q)
    BY <1>6 DEF CreateRun, r
  <2>3. QED
    BY <2>1, <2>2, TaskStepType
<1>7. CASE CreateRunFails(t)
  BY <1>1, <1>7, FinallyWellFormed, TaskStepType DEF CreateRunFails, Running, r
<1>8. ASSUME NEW result \in Results, CallEnds(t, result)
      PROVE  TypeOK'
  <2>. DEFINE q == [r EXCEPT !.result = result, !.pc = "record"]
  <2>1. WellFormed(q)
    BY <1>1, <1>8 DEF WellFormed, CallEnds, Running, TaskType, TaskStates, BodyStates, r
  <2>2. StepTask(t, q)
    BY <1>8 DEF CallEnds, r
  <2>3. QED
    BY <2>1, <2>2, TaskStepType
<1>9. r.result \in RunStatuses /\ "cancelled" \in RunStatuses
  BY <1>1 DEF WellFormed, TaskType, RunStatuses
<1>10. CASE RecordRun(t)
  <2>1. WellFormed(SetRun(r, r.result)) /\ SetRun(r, r.result).pc # "idle"
    BY <1>1, <1>9, <1>10, SetRunWellFormed DEF RecordRun, Running, r
  <2>2. StepTask(t, AfterRecord(SetRun(r, r.result)))
    BY <1>10 DEF RecordRun, r
  <2>3. QED
    BY <1>1, <2>1, <2>2, AfterRecordWellFormed, TaskStepType
<1>11. CASE RecordRunFails(t)
  BY <1>1, <1>11, AfterRecordWellFormed, TaskStepType DEF RecordRunFails, Running, r
<1>12. CASE Retry(t)
  <2>. DEFINE q == [r EXCEPT !.attempt = @ + 1, !.pc = "create"]
  <2>1. MaxAttempts \in Nat
    BY SchedulerAssumption DEF MaxAttempts
  <2>2. r.pc = "delay" /\ r \in TaskType /\ r.attempt \in 1..MaxAttempts
    BY <1>1, <1>12 DEF WellFormed, Retry, Running, TaskType, r
  <2>3. r.attempt + 1 \in 1..MaxAttempts
    BY <1>1, <2>1, <2>2 DEF WellFormed
  <2>4. q \in TaskType
    BY <2>2, <2>3 DEF TaskType, TaskStates, BodyStates
  <2>5. WellFormed(q)
    BY <1>1, <2>2, <2>4 DEF WellFormed, TaskType
  <2>6. StepTask(t, q)
    BY <1>12 DEF Retry, r
  <2>7. QED
    BY <2>5, <2>6, TaskStepType
<1>13. CASE MarkCancelled(t)
  <2>1. WellFormed(SetRun(r, "cancelled")) /\ SetRun(r, "cancelled").pc # "idle"
    BY <1>1, <1>9, <1>13, SetRunWellFormed DEF MarkCancelled, Running, r
  <2>2. StepTask(t, Finally(SetRun(r, "cancelled")))
    BY <1>13 DEF MarkCancelled, r
  <2>3. QED
    BY <1>1, <2>1, <2>2, FinallyWellFormed, TaskStepType
<1>14. CASE MarkCancelledFails(t)
  BY <1>1, <1>14, FinallyWellFormed, TaskStepType DEF MarkCancelledFails, Running, r
<1>15. CASE DisableBroken(t)
  <2>. DEFINE q == [r EXCEPT !.pc = "release"]
  <2>1. WellFormed(q) /\ r.pc # "idle"
    BY <1>1, <1>15 DEF WellFormed, DisableBroken, Running, TaskType, TaskStates, r
  <2>2. PICK p \in Lost(Disabled(r.sid)) : WriteRow(t, q, p)
    BY <1>15 DEF DisableBroken, r
  <2>3. p = row \/ p = Disabled(r.sid)
    BY <2>2 DEF Lost
  <2>. HIDE DEF q
  <2>4. QED
    BY <1>2, <1>3, <1>4, <2>1, <2>2, <2>3
<1>16. CASE Release(t)
  <2>1. PICK p \in Lost(Released(r.sid, r.next)) : WriteRow(t, Idle, p)
    BY <1>16 DEF Release, r
  <2>2. r.pc # "idle"
    BY <1>16 DEF Release, Running, r
  <2>3. p = row \/ p = Released(r.sid, r.next)
    BY <2>1 DEF Lost
  <2>4. QED
    BY <1>2, <1>3, <1>5, <2>1, <2>2, <2>3, IdleWellFormed
<1>17. CASE CancelInBody(t)
  <2>1. r.pc # "idle" /\ r.cancel
    BY <1>17 DEF CancelInBody, BodyStates, r
  <2>2. PICK q : /\ \/ q = r
                    \/ q = [r EXCEPT !.runs[r.attempt] = "running"]
                    \/ q = SetRun(r, r.result)
                 /\ StepTask(t, [q EXCEPT !.pc = "mark", !.cancel = FALSE])
    BY <1>17 DEF CancelInBody, r
  <2>3. WellFormed([r EXCEPT !.runs[r.attempt] = "running"])
    BY <1>1 DEF WellFormed, TaskType, RunStatuses
  <2>4. WellFormed(SetRun(r, r.result)) /\ SetRun(r, r.result).pc = r.pc
    BY <1>1, <1>9, SetRunWellFormed
  <2>5. WellFormed(q) /\ q.pc # "idle"
    BY <1>1, <2>1, <2>2, <2>3, <2>4 DEF WellFormed, TaskType
  <2>6. WellFormed([q EXCEPT !.pc = "mark", !.cancel = FALSE])
    BY <2>5 DEF WellFormed, TaskType, TaskStates
  <2>7. QED
    BY <2>2, <2>6, TaskStepType
<1>18. CASE CancelInMark(t)
  <2>1. r.pc # "idle"
    BY <1>18 DEF CancelInMark, r
  <2>2. PICK q \in {r, SetRun(r, "cancelled")} :
               StepTask(t, Finally([q EXCEPT !.cancel = FALSE]))
    BY <1>18 DEF CancelInMark, r
  <2>3. WellFormed(q) /\ q.pc # "idle"
    BY <1>1, <1>9, <2>1, <2>2, SetRunWellFormed
  <2>4. WellFormed([q EXCEPT !.cancel = FALSE]) /\ [q EXCEPT !.cancel = FALSE].pc # "idle"
    BY <2>3 DEF WellFormed, TaskType
  <2>5. QED
    BY <1>1, <2>2, <2>4, FinallyWellFormed, TaskStepType
<1>19. CASE CancelInFinally(t)
  <2>1. r.pc # "idle"
    BY <1>19 DEF CancelInFinally, r
  <2>2. PICK p \in {row, Disabled(r.sid), Released(r.sid, r.next)} : WriteRow(t, Idle, p)
    BY <1>19 DEF CancelInFinally, r
  <2>3. QED
    BY <1>2, <1>3, <1>4, <1>5, <2>1, <2>2, IdleWellFormed
<1>20. QED
  BY <1>6, <1>7, <1>8, <1>10, <1>11, <1>12, <1>13, <1>14, <1>15, <1>16, <1>17, <1>18, <1>19
     DEF TaskStep

LEMMA FreshType ==
    ASSUME TypeOK, NEW c \in Crons
    PROVE  Fresh(c, now) \in RowType
<1>1. ComputeNextRun(c, now) \in Nat
  BY NextRunLater DEF TypeOK
<1>2. QED
  BY <1>1 DEF Fresh, RowType, RowStates

(* A management request that rewrites one row. *)
LEMMA RowWriteType ==
    ASSUME TypeOK, Latch, Request, NEW s \in Schedules, NEW new \in RowType,
           new.st = "live" => new.cron \in Crons,
           row' = [row EXCEPT ![s] = new],
           UNCHANGED <<now, phase, loop, pick, task, boots, served>>
    PROVE  TypeOK'
  BY DEF TypeOK, Latch, Request, Alive

LEMMA ManagementType ==
    ASSUME TypeOK, Latch, Management
    PROVE  TypeOK'
<1>1. ASSUME NEW s \in Schedules
      PROVE  row[s] \in RowType /\ (row[s].st = "live" => row[s].cron \in Crons)
  BY DEF TypeOK
<1>2. ASSUME NEW c \in Crons
      PROVE  ComputeNextRun(c, now) \in Nat
  BY NextRunLater DEF TypeOK
<1>3. ASSUME NEW s \in Schedules, Enable(s)
      PROVE  TypeOK'
  <2>. DEFINE new == [row[s] EXCEPT !.enabled = TRUE, !.next = ComputeNextRun(row[s].cron, now)]
  <2>1. row[s].cron \in Crons
    BY <1>1, <1>3 DEF Enable
  <2>2. new \in RowType /\ new.cron \in Crons
    BY <1>1, <1>2, <2>1 DEF RowType
  <2>3. row' = [row EXCEPT ![s] = new] /\ Request
    BY <1>1, <1>3 DEF Enable, TypeOK
  <2>. HIDE DEF new
  <2>4. QED
    BY <1>3, <2>2, <2>3, RowWriteType DEF Enable
<1>4. ASSUME NEW s \in Schedules, Disable(s)
      PROVE  TypeOK'
  <2>. DEFINE new == [row[s] EXCEPT !.enabled = FALSE]
  <2>1. new \in RowType /\ new.cron \in Crons
    BY <1>1, <1>4 DEF Disable, RowType
  <2>2. row' = [row EXCEPT ![s] = new] /\ Request
    BY <1>1, <1>4 DEF Disable, TypeOK
  <2>. HIDE DEF new
  <2>3. QED
    BY <1>4, <2>1, <2>2, RowWriteType DEF Disable
<1>5. ASSUME NEW s \in Schedules, NEW c \in Crons, Create(s, c)
      PROVE  TypeOK'
  <2>1. Fresh(c, now) \in RowType /\ Fresh(c, now).cron = c
    BY FreshType DEF Fresh
  <2>2. QED
    BY <1>5, <2>1, RowWriteType DEF Create
<1>6. ASSUME NEW s \in Schedules, NEW c \in Crons, PatchCron(s, c)
      PROVE  TypeOK'
  <2>. DEFINE new == [row[s] EXCEPT !.cron = c,
                         !.next = IF row[s].enabled THEN ComputeNextRun(c, now) ELSE @]
  <2>1. new \in RowType /\ new.cron \in Crons
    BY <1>1, <1>2 DEF RowType
  <2>2. row' = [row EXCEPT ![s] = new] /\ Request
    BY <1>1, <1>6 DEF PatchCron, TypeOK
  <2>. HIDE DEF new
  <2>3. QED
    BY <1>6, <2>1, <2>2, RowWriteType DEF PatchCron
<1>7. ASSUME NEW s \in Schedules, NEW c \in Crons, ManagerUpdate(s, c)
      PROVE  TypeOK'
  <2>. DEFINE new == [row[s] EXCEPT !.cron = c]
  <2>1. new \in RowType /\ new.cron \in Crons
    BY <1>1 DEF RowType
  <2>2. row' = [row EXCEPT ![s] = new] /\ Request
    BY <1>1, <1>7 DEF ManagerUpdate, TypeOK
  <2>. HIDE DEF new
  <2>3. QED
    BY <1>7, <2>1, <2>2, RowWriteType DEF ManagerUpdate
<1>8. ASSUME NEW s \in Schedules, Delete(s)
      PROVE  TypeOK'
  <2>1. NoRuns \in [1..MaxAttempts -> RunStatuses]
    BY DEF NoRuns, RunStatuses
  <2>2. ASSUME NEW t \in Tasks
        PROVE  /\ task'[t] \in TaskType
               /\ task'[t].pc = task[t].pc /\ task'[t].sid = task[t].sid
               /\ task'[t].w = task[t].w /\ task'[t].cron = task[t].cron
               /\ task'[t].attempt = task[t].attempt /\ task'[t].lock = task[t].lock
    <3>1. task[t] \in TaskType
      BY DEF TypeOK
    <3>2. task'[t] = IF task[t].sid = s THEN [task[t] EXCEPT !.runs = NoRuns] ELSE task[t]
      BY <1>8 DEF Delete
    <3>3. QED
      BY <2>1, <3>1, <3>2 DEF TaskType
  <2>3. task' \in [Tasks -> TaskType]
    BY <1>8, <2>2 DEF Delete
  <2>4. Absent("deleted") \in RowType /\ Absent("deleted").st # "live"
    BY DEF Absent, RowType, RowStates
  <2>5. /\ row' \in [Schedules -> RowType]
        /\ \A u \in Schedules : row'[u].st = "live" => row'[u].cron \in Crons
    BY <1>8, <2>4 DEF Delete, TypeOK
  <2>6. QED
    BY <1>8, <2>2, <2>3, <2>5 DEF Delete, Alive, TypeOK, Latch, Request
<1>9. QED
  BY <1>3, <1>4, <1>5, <1>6, <1>7, <1>8 DEF Management

LEMMA NewTaskWellFormed ==
    ASSUME NEW w \in Workers, NEW s \in Schedules, NEW c \in Crons, NEW stamp \in Nat,
           NEW lock \in BOOLEAN, NEW tracked \in BOOLEAN
    PROVE  WellFormed(NewTask(w, s, c, stamp, lock, tracked))
  BY IdleType DEF NewTask, WellFormed, TaskType, TaskStates, BodyStates

(* task.cancel() on every task of a worker changes nothing else. *)
SameButCancel(r, q) ==
    /\ r.pc = q.pc /\ r.sid = q.sid /\ r.w = q.w /\ r.cron = q.cron
    /\ r.attempt = q.attempt /\ r.lock = q.lock /\ r.at = q.at

LEMMA CancelAllType ==
    ASSUME task \in [Tasks -> TaskType], NEW w \in Workers
    PROVE  /\ CancelAll(w) \in [Tasks -> TaskType]
           /\ \A t \in Tasks : SameButCancel(CancelAll(w)[t], task[t])
<1>1. ASSUME NEW r \in TaskType
      PROVE  /\ [r EXCEPT !.cancel = TRUE] \in TaskType
             /\ SameButCancel([r EXCEPT !.cancel = TRUE], r)
             /\ SameButCancel(r, r)
  BY DEF TaskType, SameButCancel
<1>2. QED
  BY <1>1 DEF CancelAll

LEMMA WorkerType ==
    ASSUME TypeOK, Latch, NEW w \in Workers, WorkerStep(w)
    PROVE  TypeOK'
<1>. USE DEF TypeOK, Latch
<1>1. CASE Start(w)
  BY <1>1 DEF Start, Phases, LoopStates, Alive
<1>2. CASE Stop(w)
  BY <1>2 DEF Stop, Phases, Alive
<1>3. NoPick \in PickType
  BY DEF NoPick, PickType
<1>4. CancelAll(w) \in [Tasks -> TaskType]
  BY CancelAllType
<1>5. \A t \in Tasks : SameButCancel(CancelAll(w)[t], task[t])
  BY CancelAllType
<1>6. CASE StopTimeout(w)
  BY <1>4, <1>5, <1>6 DEF StopTimeout, Phases, Alive, SameButCancel
<1>7. CASE CancelInFlight(w)
  BY <1>4, <1>5, <1>7 DEF CancelInFlight, Phases, Alive, SameButCancel
<1>8. CASE Stopped(w)
  BY <1>8 DEF Stopped, Phases, Alive
<1>9. CASE LoopExit(w)
  BY <1>3, <1>9 DEF LoopExit, LoopStates, Alive
<1>10. CASE Crash(w)
  <2>1. /\ task' \in [Tasks -> TaskType]
        /\ \A t \in Tasks : task'[t] = Idle \/ task'[t] = task[t]
    BY <1>10, IdleType DEF Crash
  <2>2. QED
    BY <1>3, <1>10, <2>1 DEF Crash, Phases, LoopStates, Alive, Idle
<1>11. ASSUME NEW s \in Schedules, NEW stamp \in Nat, Stamp(w, s, stamp),
              pick'[w].sid = s, pick'[w].cron \in Crons, pick'[w].at <= now,
              pick' \in [Workers -> PickType], \A v \in Workers \ {w} : pick'[v] = pick[v],
              UNCHANGED <<now, phase, task, boots, requests>>
       PROVE  TypeOK'
  <2>. DEFINE new == [row[s] EXCEPT !.by = w, !.at = stamp]
  <2>1. new \in RowType /\ new.st = row[s].st /\ new.cron = row[s].cron
    BY ZenonT(60) DEF RowType
  <2>2. row' = [row EXCEPT ![s] = new]
    BY <1>11 DEF Stamp
  <2>. HIDE DEF new
  <2>3. /\ row' \in [Schedules -> RowType]
        /\ \A u \in Schedules : row'[u].st = "live" => row'[u].cron \in Crons
    BY <2>1, <2>2
  <2>4. /\ loop' \in [Workers -> LoopStates] /\ served' \in [Schedules -> Nat]
        /\ \A v \in Workers \ {w} : loop'[v] = loop[v]
    BY <1>11 DEF Stamp, LoopStates
  <2>5. \A v \in Workers : loop'[v] \in {"claim", "spawn"} =>
           pick'[v].sid \in Schedules /\ pick'[v].cron \in Crons /\ pick'[v].at <= now
    BY <1>11, <2>4
  <2>6. QED
    BY <1>11, <2>3, <2>4, <2>5 DEF Alive
<1>12. ASSUME NEW s \in Schedules, ClaimAtomic(w, s)
       PROVE  TypeOK'
  <2>1. row[s].cron \in Crons
    BY <1>12 DEF ClaimAtomic, Selected, Due
  <2>2. /\ pick' \in [Workers -> PickType]
        /\ pick'[w].sid = s /\ pick'[w].cron \in Crons /\ pick'[w].at <= now
        /\ \A v \in Workers \ {w} : pick'[v] = pick[v]
    BY <1>12, <2>1 DEF ClaimAtomic, PickType
  <2>3. QED
    BY <1>11, <1>12, <2>2 DEF ClaimAtomic
<1>13. ASSUME NEW s \in Schedules, ClaimSelect(w, s)
       PROVE  TypeOK'
  <2>1. row[s].cron \in Crons
    BY <1>13 DEF ClaimSelect, Selected, Due
  <2>2. pick' \in [Workers -> PickType]
    BY <1>13, <2>1 DEF ClaimSelect, PickType
  <2>3. QED
    BY <1>13, <2>1, <2>2 DEF ClaimSelect, LoopStates, Alive
<1>14. CASE ClaimUpdate(w)
  <2>1. /\ pick[w].sid \in Schedules /\ pick[w].cron \in Crons /\ pick[w].at <= now
        /\ pick[w].at \in Nat
    BY <1>14 DEF ClaimUpdate, PickType
  <2>2. QED
    BY <1>11, <1>14, <2>1 DEF ClaimUpdate
<1>15. CASE ClaimLost(w)
  BY <1>3, <1>15 DEF ClaimLost, LoopStates, Alive
<1>16. ASSUME NEW t \in Tasks, NEW r, WellFormed(r), r.pc = "create",
              task' = [task EXCEPT ![t] = r]
       PROVE  /\ task' \in [Tasks -> TaskType]
              /\ \A u \in Tasks : Alive(u)' =>
                    task'[u].sid \in Schedules /\ task'[u].w \in Workers /\ task'[u].cron \in Crons
              /\ \A u \in Tasks : task'[u].pc = "delay" => task'[u].attempt < MaxAttempts
              /\ \A u \in Tasks : task'[u].pc \in {"disable", "release"} => task'[u].lock
  BY <1>16 DEF WellFormed, Alive
<1>17. ASSUME NEW t \in Tasks, Spawn(w, t)
       PROVE  TypeOK'
  <2>. DEFINE r == NewTask(w, pick[w].sid, pick[w].cron, pick[w].at, TRUE, TRUE)
  <2>1. WellFormed(r)
    BY <1>17, NewTaskWellFormed DEF Spawn, PickType
  <2>2. r.pc = "create"
    BY DEF NewTask, Idle
  <2>3. task' = [task EXCEPT ![t] = r]
    BY <1>17 DEF Spawn
  <2>. HIDE DEF r
  <2>4. QED
    BY <1>3, <1>16, <1>17, <2>1, <2>2, <2>3 DEF Spawn, LoopStates
<1>18. ASSUME NEW s \in Schedules, NEW t \in Tasks, NEW tracked \in BOOLEAN,
              Trigger(w, s, t, tracked)
       PROVE  TypeOK'
  <2>. DEFINE r == NewTask(w, s, row[s].cron, 0, FALSE, tracked)
  <2>1. WellFormed(r)
    BY <1>18, NewTaskWellFormed DEF Trigger
  <2>2. r.pc = "create"
    BY DEF NewTask, Idle
  <2>3. task' = [task EXCEPT ![t] = r]
    BY <1>18 DEF Trigger
  <2>. HIDE DEF r
  <2>4. /\ task' \in [Tasks -> TaskType]
        /\ \A u \in Tasks : Alive(u)' =>
              task'[u].sid \in Schedules /\ task'[u].w \in Workers /\ task'[u].cron \in Crons
        /\ \A u \in Tasks : task'[u].pc = "delay" => task'[u].attempt < MaxAttempts
        /\ \A u \in Tasks : task'[u].pc \in {"disable", "release"} => task'[u].lock
    BY <1>16, <2>1, <2>2, <2>3
  <2>5. requests' \in Nat /\ UNCHANGED <<now, row, phase, loop, pick, boots, served>>
    BY <1>18 DEF Trigger, Request
  <2>6. QED
    BY <2>4, <2>5
<1>19. QED
  BY <1>1, <1>2, <1>6, <1>7, <1>8, <1>9, <1>10, <1>12, <1>13, <1>14, <1>15, <1>17, <1>18
     DEF WorkerStep, PollStep, ClaimStep, StopStep

LEMMA TypeInit == Init => TypeOK
<1>. SUFFICES ASSUME Init PROVE TypeOK
  OBVIOUS
<1>1. \A c \in Crons : Fresh(c, 0) \in RowType /\ Fresh(c, 0).cron = c
  BY NextRunLater DEF Fresh, RowType, RowStates
<1>2. Absent("unborn") \in RowType /\ Absent("unborn").st # "live"
  BY DEF Absent, RowType, RowStates
<1>3. /\ row \in [Schedules -> RowType]
      /\ \A s \in Schedules : row[s].st = "live" => row[s].cron \in Crons
  BY <1>1, <1>2, SchedulerAssumption DEF Init
<1>4. NoPick \in PickType
  BY DEF NoPick, PickType
<1>5. QED
  BY <1>3, <1>4, IdleType DEF Init, TypeOK, Phases, LoopStates, Idle, Alive

LEMMA TypeStep == TypeOK /\ [Next]_vars => TypeOK'
<1>. SUFFICES ASSUME TypeOK, [Next]_vars PROVE TypeOK'
  OBVIOUS
<1>1. CASE UNCHANGED vars
  BY <1>1 DEF vars, TypeOK, Alive
<1>2. CASE Tick /\ Latch
  BY <1>2 DEF Tick, Latch, TypeOK, Alive, PickType
<1>3. QED
  BY <1>1, <1>2, ManagementType, WorkerType, TaskActionsType DEF Next, Step

(* The table, the pollers and their tasks keep their shape, for any number  *)
(* of workers, schedules and executions: in particular no attempt is        *)
(* numbered beyond max_retries + 1 and no claim is without its schedule.    *)
THEOREM TypeCorrect == Spec => []TypeOK
  BY TypeInit, TypeStep, PTL DEF Spec

-----------------------------------------------------------------------------
(* The inductive invariant of the lock.  Mutual exclusion alone is not      *)
(* inductive: that nobody else holds a claim follows from the row, which    *)
(* names the one claim under way, so a free row means no claim; and a row   *)
(* whose stamp has gone stale names a claim that has outlived Grace.        *)
RowNamesClaim(s, w, stamp) ==
    /\ row[s].st # "unborn"
    /\ row[s].st = "live" => row[s].by = w /\ row[s].at = stamp

ClaimsNamed ==
    \A s \in Schedules :
        /\ \A t \in Tasks : TaskHolds(t, s) => RowNamesClaim(s, task[t].w, task[t].at)
        /\ \A w \in Workers : LoopHolds(w, s) => RowNamesClaim(s, w, pick[w].at)

LockInv == ~overran => ~OverranNow /\ OneClaimPerSchedule /\ ClaimsNamed

(* A step keeps what the row says about its claim. *)
RowKept(s) ==
    row[s].st # "unborn" =>
        /\ row'[s].st # "unborn"
        /\ row'[s].st = "live" =>
              row[s].st = "live" /\ row'[s].by = row[s].by /\ row'[s].at = row[s].at

(* A step that makes no claim and keeps the rows of the claims that remain. *)
LEMMA NoNewClaim ==
    ASSUME LockInv, Latch,
           ~overran => \A t \in Tasks, s \in Schedules : TaskHolds(t, s)' =>
               /\ TaskHolds(t, s) /\ RowKept(s)
               /\ task'[t].w = task[t].w /\ task'[t].at = task[t].at,
           ~overran => \A w \in Workers, s \in Schedules : LoopHolds(w, s)' =>
               LoopHolds(w, s) /\ RowKept(s) /\ pick'[w].at = pick[w].at
    PROVE  LockInv'
<1>. SUFFICES ASSUME ~overran'
     PROVE  ~OverranNow' /\ OneClaimPerSchedule' /\ ClaimsNamed'
  BY DEF LockInv
<1>1. ~overran /\ ~OverranNow'
  BY DEF Latch
<1>2. OneClaimPerSchedule /\ ClaimsNamed
  BY <1>1 DEF LockInv
<1>3. OneClaimPerSchedule'
  BY <1>1, <1>2 DEF OneClaimPerSchedule
<1>4. ClaimsNamed'
  BY <1>1, <1>2 DEF ClaimsNamed, RowKept, RowNamesClaim
<1>5. QED
  BY <1>1, <1>3, <1>4

(* A schedule that may be claimed has no claim under way. *)
LEMMA ClaimableIsFree ==
    ASSUME TypeOK, LockInv, ~overran, NEW s \in Schedules, row[s].st = "live",
           NEW time \in Nat, time <= now, Claimable(s, time)
    PROVE  /\ \A t \in Tasks : ~TaskHolds(t, s)
           /\ \A w \in Workers : ~LoopHolds(w, s)
<1>1. ClaimsNamed /\ ~OverranNow
  BY DEF LockInv
<1>2. now \in Nat /\ Grace \in Nat /\ row[s] \in RowType
  BY SchedulerAssumption DEF TypeOK
<1>3. ASSUME NEW t \in Tasks, TaskHolds(t, s)
      PROVE  FALSE
  <2>1. row[s].by = task[t].w /\ row[s].at = task[t].at /\ task[t].w \in Workers
    BY <1>1, <1>3 DEF ClaimsNamed, RowNamesClaim, TypeOK, TaskHolds
  <2>2. row[s].at + Grace <= time
    BY <2>1, SchedulerAssumption DEF Claimable
  <2>3. task[t].at + Grace <= now
    BY <1>2, <2>1, <2>2 DEF RowType
  <2>4. QED
    BY <1>1, <1>3, <2>3 DEF OverranNow, TaskHolds
<1>4. ASSUME NEW w \in Workers, LoopHolds(w, s)
      PROVE  FALSE
  <2>1. row[s].by = w /\ row[s].at = pick[w].at
    BY <1>1, <1>4 DEF ClaimsNamed, RowNamesClaim
  <2>2. row[s].at + Grace <= time
    BY <2>1, SchedulerAssumption DEF Claimable
  <2>3. pick[w].at + Grace <= now
    BY <1>2, <2>1, <2>2 DEF RowType
  <2>4. QED
    BY <1>1, <1>4, <2>3 DEF OverranNow, LoopHolds
<1>5. QED
  BY <1>3, <1>4

(* A claim: the one step that adds a holder, on a schedule that has none. *)
LEMMA ClaimMade ==
    ASSUME TypeOK, LockInv, Latch, NEW w \in Workers, NEW s \in Schedules,
           NEW stamp \in Nat, stamp <= now, row[s].st = "live", Claimable(s, stamp),
           Stamp(w, s, stamp), loop[w] # "spawn",
           pick'[w].sid = s, pick'[w].at = stamp,
           \A v \in Workers \ {w} : pick'[v] = pick[v],
           task' = task
    PROVE  LockInv'
<1>. SUFFICES ASSUME ~overran'
     PROVE  ~OverranNow' /\ OneClaimPerSchedule' /\ ClaimsNamed'
  BY DEF LockInv
<1>1. ~overran /\ ~OverranNow'
  BY DEF Latch
<1>2. OneClaimPerSchedule /\ ClaimsNamed
  BY <1>1 DEF LockInv
<1>3. /\ \A t \in Tasks : ~TaskHolds(t, s)
      /\ \A v \in Workers : ~LoopHolds(v, s)
  BY <1>1, ClaimableIsFree
<1>4. \A t \in Tasks, z \in Schedules : TaskHolds(t, z)' <=> TaskHolds(t, z)
  BY DEF TaskHolds, Alive
<1>5. \A v \in Workers, z \in Schedules :
          LoopHolds(v, z)' <=> LoopHolds(v, z) \/ (v = w /\ z = s)
  BY DEF LoopHolds, Stamp, TypeOK
<1>6. OneClaimPerSchedule'
  BY <1>2, <1>3, <1>4, <1>5 DEF OneClaimPerSchedule
<1>7. /\ \A z \in Schedules \ {s} : row'[z] = row[z]
      /\ row'[s].st = "live" /\ row'[s].by = w /\ row'[s].at = stamp
  BY DEF Stamp, TypeOK, RowType
<1>8. ASSUME NEW z \in Schedules, NEW t \in Tasks, TaskHolds(t, z)'
      PROVE  RowNamesClaim(z, task[t].w, task[t].at)'
  BY <1>2, <1>3, <1>4, <1>7, <1>8 DEF ClaimsNamed, RowNamesClaim
<1>9. ASSUME NEW z \in Schedules, NEW v \in Workers, LoopHolds(v, z)'
      PROVE  RowNamesClaim(z, v, pick[v].at)'
  <2>1. CASE v = w /\ z = s
    BY <1>7, <2>1 DEF RowNamesClaim
  <2>2. CASE LoopHolds(v, z)
    <3>1. z # s /\ v # w
      BY <1>3, <2>2 DEF LoopHolds
    <3>2. QED
      BY <1>2, <1>7, <2>2, <3>1 DEF ClaimsNamed, RowNamesClaim
  <2>3. QED
    BY <1>5, <1>9, <2>1, <2>2
<1>10. ClaimsNamed'
  BY <1>8, <1>9 DEF ClaimsNamed
<1>11. QED
  BY <1>1, <1>6, <1>10

(* A claim passes from the poller to the task it starts. *)
LEMMA ClaimHandedOver ==
    ASSUME TypeOK, LockInv, Latch, NEW w \in Workers, NEW t \in Tasks, Spawn(w, t)
    PROVE  LockInv'
<1>. SUFFICES ASSUME ~overran'
     PROVE  ~OverranNow' /\ OneClaimPerSchedule' /\ ClaimsNamed'
  BY DEF LockInv
<1>1. ~overran /\ ~OverranNow'
  BY DEF Latch
<1>2. OneClaimPerSchedule /\ ClaimsNamed
  BY <1>1 DEF LockInv
<1>3. PICK s \in Schedules : s = pick[w].sid /\ LoopHolds(w, s)
  BY DEF TypeOK, Spawn, LoopHolds
<1>4. /\ task'[t].sid = s /\ task'[t].w = w /\ task'[t].at = pick[w].at
      /\ TaskHolds(t, s)'
      /\ \A u \in Tasks \ {t} : task'[u] = task[u]
  <2>. DEFINE r == NewTask(w, pick[w].sid, pick[w].cron, pick[w].at, TRUE, TRUE)
  <2>1. /\ r.pc = "create" /\ r.lock = TRUE
        /\ r.sid = s /\ r.w = w /\ r.at = pick[w].at
    BY <1>3 DEF NewTask, Idle
  <2>2. task' = [task EXCEPT ![t] = r]
    BY DEF Spawn
  <2>. HIDE DEF r
  <2>3. QED
    BY <2>1, <2>2 DEF TaskHolds, Alive, TypeOK
<1>5. /\ \A v \in Workers \ {w} : loop'[v] = loop[v] /\ pick'[v] = pick[v]
      /\ loop'[w] = "poll" /\ row' = row
  BY DEF Spawn, TypeOK
<1>6. ASSUME NEW z \in Schedules, NEW u \in Tasks, TaskHolds(u, z)'
      PROVE  (u = t /\ z = s) \/ (u # t /\ TaskHolds(u, z) /\ z # s)
  <2>1. u = t => z = s
    BY <1>4, <1>6 DEF TaskHolds
  <2>2. u # t => TaskHolds(u, z)
    BY <1>4, <1>6 DEF TaskHolds, Alive
  <2>3. QED
    BY <1>2, <1>3, <2>1, <2>2 DEF OneClaimPerSchedule
<1>7. ASSUME NEW z \in Schedules, NEW v \in Workers, LoopHolds(v, z)'
      PROVE  v # w /\ LoopHolds(v, z) /\ z # s
  <2>1. v # w /\ LoopHolds(v, z)
    BY <1>5, <1>7 DEF LoopHolds
  <2>2. QED
    BY <1>2, <1>3, <2>1 DEF OneClaimPerSchedule
<1>8. OneClaimPerSchedule'
  BY <1>2, <1>6, <1>7 DEF OneClaimPerSchedule
<1>9. ASSUME NEW z \in Schedules, NEW u \in Tasks, TaskHolds(u, z)'
      PROVE  RowNamesClaim(z, task[u].w, task[u].at)'
  <2>1. CASE u = t /\ z = s
    BY <1>2, <1>3, <1>4, <1>5, <2>1 DEF ClaimsNamed, RowNamesClaim
  <2>2. CASE u # t /\ TaskHolds(u, z)
    BY <1>2, <1>4, <1>5, <2>2 DEF ClaimsNamed, RowNamesClaim
  <2>3. QED
    BY <1>6, <1>9, <2>1, <2>2
<1>10. ASSUME NEW z \in Schedules, NEW v \in Workers, LoopHolds(v, z)'
       PROVE  RowNamesClaim(z, v, pick[v].at)'
  BY <1>2, <1>5, <1>7, <1>10 DEF ClaimsNamed, RowNamesClaim
<1>11. ClaimsNamed'
  BY <1>9, <1>10 DEF ClaimsNamed
<1>12. QED
  BY <1>1, <1>8, <1>11

(* A task's steps keep its claim, or end the task. *)
KeepsClaim(r, q) ==
    \/ q = Idle
    \/ r.pc # "idle" /\ q.lock = r.lock /\ q.sid = r.sid /\ q.w = r.w /\ q.at = r.at

LEMMA FinallyKeeps ==
    ASSUME NEW r \in TaskType, r.pc # "idle"
    PROVE  KeepsClaim(r, Finally(r))
  BY DEF KeepsClaim, Finally, TaskType

LEMMA SetRunKeeps ==
    ASSUME NEW r \in TaskType, NEW status \in RunStatuses
    PROVE  /\ SetRun(r, status) \in TaskType
           /\ SetRun(r, status).pc = r.pc
           /\ SetRun(r, status).lock = r.lock
           /\ SetRun(r, status).sid = r.sid
           /\ SetRun(r, status).w = r.w
           /\ SetRun(r, status).at = r.at
<1>1. SetRun(r, status) \in TaskType
  BY SetRunType
<1>2. QED
  BY <1>1 DEF SetRun, TaskType

LEMMA AfterRecordKeeps ==
    ASSUME NEW r \in TaskType, r.pc # "idle"
    PROVE  KeepsClaim(r, AfterRecord(r))
<1>1. CASE r.result = "failed" /\ r.attempt < MaxAttempts
  BY <1>1 DEF AfterRecord, KeepsClaim, TaskType
<1>2. CASE ~(r.result = "failed" /\ r.attempt < MaxAttempts)
  <2>. DEFINE q == [r EXCEPT !.result = "failed"]
  <2>1. /\ q \in TaskType /\ q.pc = r.pc /\ q.lock = r.lock
        /\ q.sid = r.sid /\ q.w = r.w /\ q.at = r.at
    BY DEF TaskType, Results
  <2>2. AfterRecord(r) = Finally(q)
    BY <1>2 DEF AfterRecord
  <2>. HIDE DEF q
  <2>3. QED
    BY <2>1, <2>2, FinallyKeeps DEF KeepsClaim
<1>3. QED
  BY <1>1, <1>2

(* Task steps that write no schedule row. *)
LEMMA QuietTaskStep ==
    ASSUME TypeOK, LockInv, Latch, NEW t \in Tasks, NEW q, KeepsClaim(task[t], q),
           StepTask(t, q)
    PROVE  LockInv'
<1>1. ASSUME NEW u \in Tasks, NEW s \in Schedules, TaskHolds(u, s)'
      PROVE  /\ TaskHolds(u, s) /\ RowKept(s)
             /\ task'[u].w = task[u].w /\ task'[u].at = task[u].at
  BY <1>1 DEF TaskHolds, Alive, StepTask, KeepsClaim, Idle, RowKept, TypeOK
<1>2. ASSUME NEW w \in Workers, NEW s \in Schedules, LoopHolds(w, s)'
      PROVE  LoopHolds(w, s) /\ RowKept(s) /\ pick'[w].at = pick[w].at
  BY <1>2 DEF LoopHolds, StepTask, RowKept
<1>3. QED
  BY <1>1, <1>2, NoNewClaim

(* Disabling a schedule leaves its lock alone. *)
LEMMA DisablingTaskStep ==
    ASSUME TypeOK, LockInv, Latch, NEW t \in Tasks, NEW q, KeepsClaim(task[t], q),
           WriteRow(t, q, row) \/ WriteRow(t, q, Disabled(task[t].sid))
    PROVE  LockInv'
<1>1. \A s \in Schedules : RowKept(s)
  BY DEF WriteRow, Disabled, RowKept, TypeOK, RowType
<1>2. task' = [task EXCEPT ![t] = q] /\ loop' = loop /\ pick' = pick
  BY DEF WriteRow
<1>3. ASSUME NEW u \in Tasks, NEW s \in Schedules, TaskHolds(u, s)'
      PROVE  /\ TaskHolds(u, s)
             /\ task'[u].w = task[u].w /\ task'[u].at = task[u].at
  BY <1>2, <1>3 DEF TaskHolds, Alive, KeepsClaim, Idle, TypeOK
<1>4. ASSUME NEW w \in Workers, NEW s \in Schedules, LoopHolds(w, s)'
      PROVE  LoopHolds(w, s) /\ pick'[w].at = pick[w].at
  BY <1>2, <1>4 DEF LoopHolds
<1>5. QED
  BY <1>1, <1>3, <1>4, NoNewClaim

(* Releasing clears the row of the task's own schedule, on which nobody     *)
(* else has a claim.                                                        *)
LEMMA ReleasingTaskStep ==
    ASSUME TypeOK, LockInv, Latch, NEW t \in Tasks, task[t].pc \in {"disable", "release"},
           WriteRow(t, Idle, Released(task[t].sid, task[t].next))
    PROVE  LockInv'
<1>1. task' = [task EXCEPT ![t] = Idle] /\ loop' = loop /\ pick' = pick
  BY DEF WriteRow
<1>2. PICK own \in Schedules : own = task[t].sid /\ TaskHolds(t, own)
  BY DEF TypeOK, TaskHolds, Alive
<1>3. \A s \in Schedules \ {own} : RowKept(s)
  BY <1>2 DEF WriteRow, Released, RowKept, TypeOK
<1>4. ASSUME ~overran, NEW u \in Tasks, NEW s \in Schedules, TaskHolds(u, s)'
      PROVE  /\ TaskHolds(u, s) /\ RowKept(s)
             /\ task'[u].w = task[u].w /\ task'[u].at = task[u].at
  <2>1. u # t /\ TaskHolds(u, s) /\ task'[u] = task[u]
    BY <1>1, <1>4 DEF TaskHolds, Alive, Idle, TypeOK
  <2>2. s # own
    BY <1>2, <1>4, <2>1 DEF LockInv, OneClaimPerSchedule
  <2>3. QED
    BY <1>3, <2>1, <2>2
<1>5. ASSUME ~overran, NEW w \in Workers, NEW s \in Schedules, LoopHolds(w, s)'
      PROVE  LoopHolds(w, s) /\ RowKept(s) /\ pick'[w].at = pick[w].at
  <2>1. LoopHolds(w, s) /\ pick'[w] = pick[w]
    BY <1>1, <1>5 DEF LoopHolds
  <2>2. s # own
    BY <1>2, <1>5, <2>1 DEF LockInv, OneClaimPerSchedule
  <2>3. QED
    BY <1>3, <2>1, <2>2
<1>6. QED
  BY <1>4, <1>5, NoNewClaim

LEMMA TaskActionsLock ==
    ASSUME TypeOK, LockInv, Latch, NEW t \in Tasks, TaskStep(t)
    PROVE  LockInv'
<1>. DEFINE r == task[t]
<1>1. r \in TaskType
  BY DEF TypeOK
<1>2. r.result \in RunStatuses /\ "cancelled" \in RunStatuses
  BY <1>1 DEF TaskType, RunStatuses
<1>3. CASE CreateRun(t)
  <2>. DEFINE q == [r EXCEPT !.runs[r.attempt] = "running", !.pc = "call"]
  <2>1. KeepsClaim(r, q)
    BY <1>1, <1>3 DEF KeepsClaim, CreateRun, Running, TaskType
  <2>2. StepTask(t, q)
    BY <1>3 DEF CreateRun
  <2>3. QED
    BY <2>1, <2>2, QuietTaskStep
<1>4. CASE CreateRunFails(t)
  BY <1>1, <1>4, FinallyKeeps, QuietTaskStep DEF CreateRunFails, Running
<1>5. ASSUME NEW result \in Results, CallEnds(t, result)
      PROVE  LockInv'
  <2>. DEFINE q == [r EXCEPT !.result = result, !.pc = "record"]
  <2>1. KeepsClaim(r, q)
    BY <1>1, <1>5 DEF KeepsClaim, CallEnds, Running, TaskType
  <2>2. StepTask(t, q)
    BY <1>5 DEF CallEnds
  <2>3. QED
    BY <2>1, <2>2, QuietTaskStep
<1>6. CASE RecordRun(t)
  <2>. DEFINE q == SetRun(r, r.result)
  <2>1. r.pc # "idle" /\ StepTask(t, AfterRecord(q))
    BY <1>6 DEF RecordRun, Running
  <2>2. /\ q \in TaskType /\ q.pc = r.pc /\ q.lock = r.lock /\ q.sid = r.sid
        /\ q.w = r.w /\ q.at = r.at
    BY <1>1, <1>2, SetRunKeeps
  <2>. HIDE DEF q
  <2>3. KeepsClaim(r, AfterRecord(q))
    BY <2>1, <2>2, AfterRecordKeeps DEF KeepsClaim
  <2>4. QED
    BY <2>1, <2>3, QuietTaskStep
<1>7. CASE RecordRunFails(t)
  BY <1>1, <1>7, AfterRecordKeeps, QuietTaskStep DEF RecordRunFails, Running
<1>8. CASE Retry(t)
  <2>. DEFINE q == [r EXCEPT !.attempt = @ + 1, !.pc = "create"]
  <2>1. KeepsClaim(r, q)
    BY <1>1, <1>8 DEF KeepsClaim, Retry, Running, TaskType
  <2>2. StepTask(t, q)
    BY <1>8 DEF Retry
  <2>3. QED
    BY <2>1, <2>2, QuietTaskStep
<1>9. CASE MarkCancelled(t)
  <2>. DEFINE q == SetRun(r, "cancelled")
  <2>1. r.pc # "idle" /\ StepTask(t, Finally(q))
    BY <1>9 DEF MarkCancelled, Running
  <2>2. /\ q \in TaskType /\ q.pc = r.pc /\ q.lock = r.lock /\ q.sid = r.sid
        /\ q.w = r.w /\ q.at = r.at
    BY <1>1, <1>2, SetRunKeeps
  <2>. HIDE DEF q
  <2>3. KeepsClaim(r, Finally(q))
    BY <2>1, <2>2, FinallyKeeps DEF KeepsClaim
  <2>4. QED
    BY <2>1, <2>3, QuietTaskStep
<1>10. CASE MarkCancelledFails(t)
  BY <1>1, <1>10, FinallyKeeps, QuietTaskStep DEF MarkCancelledFails, Running
<1>11. CASE DisableBroken(t)
  <2>. DEFINE q == [r EXCEPT !.pc = "release"]
  <2>1. KeepsClaim(r, q)
    BY <1>1, <1>11 DEF KeepsClaim, DisableBroken, Running, TaskType
  <2>2. WriteRow(t, q, row) \/ WriteRow(t, q, Disabled(r.sid))
    BY <1>11 DEF DisableBroken, Lost
  <2>3. QED
    BY <2>1, <2>2, DisablingTaskStep
<1>12. KeepsClaim(r, Idle)
  BY DEF KeepsClaim
<1>13. CASE Release(t)
  <2>1. WriteRow(t, Idle, row) \/ WriteRow(t, Idle, Released(r.sid, r.next))
    BY <1>13 DEF Release, Lost
  <2>2. r.pc = "release"
    BY <1>13 DEF Release, Running
  <2>3. QED
    BY <1>12, <2>1, <2>2, DisablingTaskStep, ReleasingTaskStep
<1>14. CASE CancelInBody(t)
  <2>1. r.pc # "idle"
    BY <1>14 DEF CancelInBody, BodyStates
  <2>2. PICK q : /\ \/ q = r
                    \/ q = [r EXCEPT !.runs[r.attempt] = "running"]
                    \/ q = SetRun(r, r.result)
                 /\ StepTask(t, [q EXCEPT !.pc = "mark", !.cancel = FALSE])
    BY <1>14 DEF CancelInBody
  <2>3. q \in TaskType /\ q.lock = r.lock /\ q.sid = r.sid /\ q.w = r.w /\ q.at = r.at
    <3>1. CASE q = [r EXCEPT !.runs[r.attempt] = "running"]
      BY <1>1, <3>1 DEF TaskType, RunStatuses
    <3>2. QED
      BY <1>1, <1>2, <2>2, <3>1, SetRunKeeps
  <2>4. KeepsClaim(r, [q EXCEPT !.pc = "mark", !.cancel = FALSE])
    BY <2>1, <2>3 DEF KeepsClaim, TaskType
  <2>5. QED
    BY <2>2, <2>4, QuietTaskStep
<1>15. CASE CancelInMark(t)
  <2>1. r.pc # "idle"
    BY <1>15 DEF CancelInMark
  <2>2. PICK q \in {r, SetRun(r, "cancelled")} :
               StepTask(t, Finally([q EXCEPT !.cancel = FALSE]))
    BY <1>15 DEF CancelInMark
  <2>. DEFINE p == [q EXCEPT !.cancel = FALSE]
  <2>3. q \in TaskType /\ q.pc = r.pc /\ q.lock = r.lock /\ q.sid = r.sid /\ q.w = r.w
        /\ q.at = r.at
    BY <1>1, <1>2, <2>2, SetRunKeeps
  <2>4. p \in TaskType /\ p.pc = r.pc /\ p.lock = r.lock /\ p.sid = r.sid /\ p.w = r.w
        /\ p.at = r.at
    BY <2>3 DEF TaskType
  <2>5. StepTask(t, Finally(p))
    BY <2>2
  <2>. HIDE DEF p
  <2>6. KeepsClaim(r, Finally(p))
    BY <2>1, <2>4, FinallyKeeps DEF KeepsClaim
  <2>7. QED
    BY <2>5, <2>6, QuietTaskStep
<1>16. CASE CancelInFinally(t)
  <2>1. r.pc \in {"disable", "release"}
    BY <1>16 DEF CancelInFinally
  <2>2. \/ WriteRow(t, Idle, row) \/ WriteRow(t, Idle, Disabled(r.sid))
        \/ WriteRow(t, Idle, Released(r.sid, r.next))
    BY <1>16 DEF CancelInFinally
  <2>3. QED
    BY <1>12, <2>1, <2>2, DisablingTaskStep, ReleasingTaskStep
<1>17. QED
  BY <1>3, <1>4, <1>5, <1>6, <1>7, <1>8, <1>9, <1>10, <1>11, <1>13, <1>14, <1>15, <1>16
     DEF TaskStep

(* Management requests write rows, never a live row's lock. *)
LEMMA ManagementLock ==
    ASSUME TypeOK, LockInv, Latch, Management
    PROVE  LockInv'
<1>1. \A s \in Schedules : RowKept(s)
  <2>1. \A s \in Schedules : row[s] \in RowType
    BY DEF TypeOK
  <2>2. ASSUME NEW s \in Schedules, NEW c \in Crons, Create(s, c)
        PROVE  \A z \in Schedules : RowKept(z)
    BY <2>2 DEF Create, RowKept, TypeOK
  <2>3. ASSUME NEW s \in Schedules, Delete(s)
        PROVE  \A z \in Schedules : RowKept(z)
    <3>1. Absent("deleted").st = "deleted"
      BY DEF Absent
    <3>2. QED
      BY <2>3, <3>1 DEF Delete, RowKept, TypeOK
  <2>4. ASSUME NEW s \in Schedules, Enable(s)
        PROVE  \A z \in Schedules : RowKept(z)
    BY <2>1, <2>4 DEF Enable, RowKept, TypeOK, RowType
  <2>5. ASSUME NEW s \in Schedules, Disable(s)
        PROVE  \A z \in Schedules : RowKept(z)
    BY <2>1, <2>5 DEF Disable, RowKept, TypeOK, RowType
  <2>6. ASSUME NEW s \in Schedules, NEW c \in Crons, PatchCron(s, c)
        PROVE  \A z \in Schedules : RowKept(z)
    BY <2>1, <2>6 DEF PatchCron, RowKept, TypeOK, RowType
  <2>7. ASSUME NEW s \in Schedules, NEW c \in Crons, ManagerUpdate(s, c)
        PROVE  \A z \in Schedules : RowKept(z)
    BY <2>1, <2>7 DEF ManagerUpdate, RowKept, TypeOK, RowType
  <2>8. QED
    BY <2>2, <2>3, <2>4, <2>5, <2>6, <2>7 DEF Management
<1>2. loop' = loop /\ pick' = pick
  BY DEF Management, Create, Delete, Enable, Disable, PatchCron, ManagerUpdate
<1>3. ASSUME NEW t \in Tasks
      PROVE  /\ task'[t].pc = task[t].pc /\ task'[t].lock = task[t].lock
             /\ task'[t].sid = task[t].sid
             /\ task'[t].w = task[t].w /\ task'[t].at = task[t].at
  <2>1. ASSUME NEW s \in Schedules, Delete(s)
        PROVE  task'[t] = task[t] \/ task'[t] = [task[t] EXCEPT !.runs = NoRuns]
    BY <2>1 DEF Delete
  <2>2. task' = task \/ \E s \in Schedules : Delete(s)
    BY DEF Management, Create, Enable, Disable, PatchCron, ManagerUpdate
  <2>3. task'[t] = task[t] \/ task'[t] = [task[t] EXCEPT !.runs = NoRuns]
    BY <2>1, <2>2
  <2>4. task[t] \in TaskType
    BY DEF TypeOK
  <2>5. QED
    BY <2>3, <2>4 DEF TaskType
<1>4. \A u \in Tasks, s \in Schedules : TaskHolds(u, s)' => TaskHolds(u, s)
  BY <1>3 DEF TaskHolds, Alive
<1>5. \A w \in Workers, s \in Schedules : LoopHolds(w, s)' => LoopHolds(w, s)
  BY <1>2 DEF LoopHolds
<1>6. QED
  BY <1>1, <1>2, <1>3, <1>4, <1>5, NoNewClaim

(* Steps that leave the table alone and at most drop claims. *)
LEMMA ClaimsOnlyDropped ==
    ASSUME LockInv, Latch, row' = row,
           \A t \in Tasks : task'[t] = Idle \/ SameButCancel(task'[t], task[t]),
           \A w \in Workers : loop'[w] = "spawn" => loop[w] = "spawn" /\ pick'[w] = pick[w]
    PROVE  LockInv'
<1>1. \A s \in Schedules : RowKept(s)
  BY DEF RowKept
<1>2. ASSUME NEW u \in Tasks, NEW s \in Schedules, TaskHolds(u, s)'
      PROVE  /\ TaskHolds(u, s)
             /\ task'[u].w = task[u].w /\ task'[u].at = task[u].at
  BY <1>2 DEF TaskHolds, Alive, Idle, SameButCancel
<1>3. ASSUME NEW w \in Workers, NEW s \in Schedules, LoopHolds(w, s)'
      PROVE  LoopHolds(w, s) /\ pick'[w].at = pick[w].at
  BY <1>3 DEF LoopHolds
<1>4. QED
  BY <1>1, <1>2, <1>3, NoNewClaim

LEMMA WorkerLock ==
    ASSUME TypeOK, LockInv, Latch, NEW w \in Workers, WorkerStep(w)
    PROVE  LockInv'
<1>1. \A t \in Tasks : SameButCancel(task[t], task[t])
  BY DEF SameButCancel
<1>2. loop \in [Workers -> LoopStates] /\ task \in [Tasks -> TaskType]
  BY DEF TypeOK
<1>3. CASE Start(w) \/ Stop(w) \/ Stopped(w) \/ LoopExit(w)
  <2>1. task' = task /\ row' = row
    BY <1>3 DEF Start, Stop, Stopped, LoopExit
  <2>2. \A v \in Workers : loop'[v] = "spawn" => loop[v] = "spawn" /\ pick'[v] = pick[v]
    BY <1>2, <1>3 DEF Start, Stop, Stopped, LoopExit, TypeOK
  <2>3. QED
    BY <1>1, <2>1, <2>2, ClaimsOnlyDropped
<1>4. CASE StopTimeout(w) \/ CancelInFlight(w)
  <2>1. \A t \in Tasks : SameButCancel(task'[t], task[t])
    BY <1>2, <1>4, CancelAllType DEF StopTimeout, CancelInFlight
  <2>2. row' = row /\ loop' = loop /\ pick' = pick
    BY <1>4 DEF StopTimeout, CancelInFlight
  <2>3. QED
    BY <2>1, <2>2, ClaimsOnlyDropped
<1>5. CASE Crash(w)
  <2>1. \A t \in Tasks : task'[t] = Idle \/ task'[t] = task[t]
    BY <1>5 DEF Crash
  <2>2. row' = row
    BY <1>5 DEF Crash
  <2>3. \A v \in Workers : loop'[v] = "spawn" => loop[v] = "spawn" /\ pick'[v] = pick[v]
    BY <1>2, <1>5 DEF Crash, TypeOK
  <2>4. QED
    BY <1>1, <2>1, <2>2, <2>3, ClaimsOnlyDropped DEF SameButCancel
<1>6. ASSUME NEW s \in Schedules, ClaimAtomic(w, s)
      PROVE  LockInv'
  <2>1. /\ row[s].st = "live" /\ Claimable(s, now) /\ now \in Nat
        /\ loop[w] # "spawn" /\ task' = task /\ Stamp(w, s, now)
    BY <1>6 DEF ClaimAtomic, Selected, Due, TypeOK
  <2>2. /\ pick'[w].sid = s /\ pick'[w].at = now
        /\ \A v \in Workers \ {w} : pick'[v] = pick[v]
    BY <1>6 DEF ClaimAtomic, TypeOK
  <2>3. QED
    BY <2>1, <2>2, ClaimMade
<1>7. ASSUME NEW s \in Schedules, ClaimSelect(w, s)
      PROVE  LockInv'
  <2>1. task' = task /\ row' = row
    BY <1>7 DEF ClaimSelect
  <2>2. \A v \in Workers : loop'[v] = "spawn" => loop[v] = "spawn" /\ pick'[v] = pick[v]
    BY <1>2, <1>7 DEF ClaimSelect, TypeOK
  <2>3. QED
    BY <1>1, <2>1, <2>2, ClaimsOnlyDropped
<1>8. CASE ClaimUpdate(w)
  <2>1. PICK s \in Schedules : s = pick[w].sid
    BY <1>8 DEF ClaimUpdate, TypeOK
  <2>2. PICK stamp \in Nat : stamp = pick[w].at /\ stamp <= now
    BY <1>8 DEF ClaimUpdate, TypeOK, PickType
  <2>3. /\ row[s].st = "live" /\ Claimable(s, stamp) /\ loop[w] # "spawn"
        /\ task' = task /\ pick' = pick /\ Stamp(w, s, stamp)
    BY <1>8, <2>1, <2>2 DEF ClaimUpdate
  <2>4. QED
    BY <2>1, <2>2, <2>3, ClaimMade
<1>9. CASE ClaimLost(w)
  <2>1. task' = task /\ row' = row
    BY <1>9 DEF ClaimLost
  <2>2. \A v \in Workers : loop'[v] = "spawn" => loop[v] = "spawn" /\ pick'[v] = pick[v]
    BY <1>2, <1>9 DEF ClaimLost, TypeOK
  <2>3. QED
    BY <1>1, <2>1, <2>2, ClaimsOnlyDropped
<1>10. ASSUME NEW s \in Schedules, NEW t \in Tasks, NEW tracked \in BOOLEAN,
              Trigger(w, s, t, tracked)
       PROVE  LockInv'
  <2>. DEFINE r == NewTask(w, s, row[s].cron, 0, FALSE, tracked)
  <2>1. r.lock = FALSE
    BY DEF NewTask, Idle
  <2>2. task' = [task EXCEPT ![t] = r]
    BY <1>10 DEF Trigger
  <2>. HIDE DEF r
  <2>3. ASSUME NEW u \in Tasks, NEW z \in Schedules, TaskHolds(u, z)'
        PROVE  TaskHolds(u, z) /\ task'[u].w = task[u].w /\ task'[u].at = task[u].at
    BY <1>2, <2>1, <2>2, <2>3 DEF TaskHolds, Alive
  <2>4. row' = row /\ loop' = loop /\ pick' = pick
    BY <1>10 DEF Trigger
  <2>5. \A z \in Schedules : RowKept(z)
    BY <2>4 DEF RowKept
  <2>6. \A v \in Workers, z \in Schedules :
            LoopHolds(v, z)' => LoopHolds(v, z) /\ pick'[v].at = pick[v].at
    BY <2>4 DEF LoopHolds
  <2>7. QED
    BY <2>3, <2>5, <2>6, NoNewClaim
<1>11. QED
  BY <1>3, <1>4, <1>5, <1>6, <1>7, <1>8, <1>9, <1>10, ClaimHandedOver
     DEF WorkerStep, PollStep, ClaimStep, StopStep

LEMMA LockInit == Init => LockInv
  BY DEF Init, LockInv, OverranNow, OneClaimPerSchedule, ClaimsNamed, TaskHolds, LoopHolds,
         Alive, Idle

LEMMA LockStep == TypeOK /\ LockInv /\ [Next]_vars => LockInv'
<1>. SUFFICES ASSUME TypeOK, LockInv, [Next]_vars PROVE LockInv'
  OBVIOUS
<1>1. CASE UNCHANGED vars
  BY <1>1 DEF vars, LockInv, OverranNow, OneClaimPerSchedule, ClaimsNamed, RowNamesClaim,
              TaskHolds, LoopHolds, Alive
<1>2. CASE Tick /\ Latch
  <2>1. row' = row /\ task' = task /\ loop' = loop /\ pick' = pick
    BY <1>2 DEF Tick
  <2>2. QED
    BY <1>2, <2>1, ClaimsOnlyDropped DEF SameButCancel
<1>3. QED
  BY <1>1, <1>2, ManagementLock, WorkerLock, TaskActionsLock DEF Next, Step

LEMMA LockAlways == Spec => []LockInv
  BY TypeInit, TypeStep, LockInit, LockStep, PTL DEF Spec

(* Until some claimed execution outlives lock_grace_seconds, a schedule is   *)
(* claimed by at most one execution at a time: over any number of pollers,   *)
(* with either form of claim_due_schedule, and whatever is edited, deleted,  *)
(* stopped, killed or lost in the database meanwhile.                        *)
THEOREM AtMostOneClaim == Spec => []MutualExclusion
<1>1. LockInv => MutualExclusion
  BY DEF LockInv, MutualExclusion
<1>2. QED
  BY <1>1, LockAlways, PTL

(* Under the same condition every execution under way is the one its row     *)
(* names, so the release, which tests no owner, never clears a stranger's    *)
(* lock.                                                                     *)
THEOREM LockNamesHolder == Spec => []HolderOwnsLock
<1>1. LockInv => HolderOwnsLock
  BY DEF LockInv, HolderOwnsLock, ClaimsNamed, RowNamesClaim
<1>2. QED
  BY <1>1, LockAlways, PTL
=============================================================================
