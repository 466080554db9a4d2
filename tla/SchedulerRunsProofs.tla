------------------------- MODULE SchedulerRunsProofs -------------------------
(* Proofs about the executions of Scheduler: how many there are, what they   *)
(* leave in their records and in the next run time, and that none outlives   *)
(* stop().                                                                   *)
EXTENDS SchedulerProofs, FiniteSetTheorems

-----------------------------------------------------------------------------
(* What one step of an execution does to its slot and to the table.          *)

Leaving == {"disable", "release"}
Recording == {"call", "record", "mark"} \cup Leaving

SameExecution(r, q) ==
    /\ q.w = r.w /\ q.sid = r.sid /\ q.lock = r.lock /\ q.tracked = r.tracked
    /\ q.cron = r.cron

(* The next run an execution enters its finally block with. *)
NextComputed(q) ==
    /\ q.pc = "disable" => q.next = NoNext
    /\ q.pc = "release" => q.next > now

(* What the records of an execution may say, its worker being in phase ph.   *)
RunGood(r, ph) ==
    /\ \A a \in 1..MaxAttempts : r.runs[a] = "running" =>
          /\ a = r.attempt /\ r.pc \in Recording
          /\ r.pc \in Leaving => ph = "timedout"
    /\ r.cancel \/ r.pc = "mark" => ph \in {"draining", "timedout"}
    /\ r.cancel /\ r.pc = "mark" => ph = "timedout"

(* A step in the body of the execution or out of it: the table is as before. *)
BodyStep(t, q) ==
    /\ task[t].pc \notin Leaving \cup {"idle"}
    /\ row' = row
    /\ q = Idle \/ (SameExecution(task[t], q) /\ NextComputed(q))

DisableStep(t, q) ==
    /\ task[t].pc = "disable"
    /\ \/ q = Idle /\ row' \in {row, Disabled(task[t].sid)}
       \/ q = [task[t] EXCEPT !.pc = "release"] /\ row' \in Lost(Disabled(task[t].sid))

ReleaseStep(t, q) ==
    /\ task[t].pc = "release" /\ q = Idle
    /\ row' \in {row, Released(task[t].sid, task[t].next)}

Becomes(t, q) ==
    /\ task' = [task EXCEPT ![t] = q]
    /\ UNCHANGED <<now, phase, loop, pick, boots, requests, served>>
    /\ BodyStep(t, q) \/ DisableStep(t, q) \/ ReleaseStep(t, q)

LEMMA FinallyNext ==
    ASSUME NEW r \in TaskType, r.cron \in Crons, now \in Nat, r.pc # "idle"
    PROVE  Finally(r) = Idle \/ (SameExecution(r, Finally(r)) /\ NextComputed(Finally(r)))
<1>1. CASE ~r.lock
  BY <1>1 DEF Finally
<1>2. CASE r.lock /\ r.cron \in BadCrons
  BY <1>2 DEF Finally, TaskType, SameExecution, NextComputed
<1>3. CASE r.lock /\ r.cron \notin BadCrons
  <2>1. ComputeNextRun(r.cron, now) > now
    BY NextRunLater
  <2>2. Finally(r) = [r EXCEPT !.pc = "release", !.next = ComputeNextRun(r.cron, now)]
    BY <1>3 DEF Finally
  <2>3. QED
    BY <2>1, <2>2 DEF TaskType, SameExecution, NextComputed
<1>4. QED
  BY <1>1, <1>2, <1>3 DEF TaskType

LEMMA SetRunSame ==
    ASSUME NEW r \in TaskType, NEW status \in RunStatuses
    PROVE  /\ SetRun(r, status) \in TaskType
           /\ SameExecution(r, SetRun(r, status))
           /\ SetRun(r, status).pc = r.pc
           /\ SetRun(r, status).attempt = r.attempt
           /\ SetRun(r, status).cancel = r.cancel
           /\ SetRun(r, status).result = r.result
           /\ \A a \in 1..MaxAttempts : a # r.attempt => SetRun(r, status).runs[a] = r.runs[a]
           /\ SetRun(r, status).runs[r.attempt] \in {"none", status}
<1>1. SetRun(r, status) \in TaskType
  BY SetRunType
<1>2. QED
  BY <1>1 DEF SetRun, TaskType, SameExecution

LEMMA AfterRecordNext ==
    ASSUME NEW r \in TaskType, r.cron \in Crons, now \in Nat, r.pc # "idle"
    PROVE  \/ AfterRecord(r) = Idle
           \/ SameExecution(r, AfterRecord(r)) /\ NextComputed(AfterRecord(r))
<1>1. CASE r.result = "failed" /\ r.attempt < MaxAttempts
  BY <1>1 DEF AfterRecord, SameExecution, NextComputed, TaskType
<1>2. CASE ~(r.result = "failed" /\ r.attempt < MaxAttempts)
  <2>. DEFINE q == [r EXCEPT !.result = "failed"]
  <2>1. q \in TaskType /\ SameExecution(r, q) /\ q.pc # "idle" /\ q.cron \in Crons
    BY DEF TaskType, Results, SameExecution
  <2>2. AfterRecord(r) = Finally(q)
    BY <1>2 DEF AfterRecord
  <2>. HIDE DEF q
  <2>3. QED
    BY <2>1, <2>2, FinallyNext DEF SameExecution
<1>3. QED
  BY <1>1, <1>2

(* Every step of an execution is one of the three. *)
LEMMA TaskBecomes ==
    ASSUME TypeOK, NEW t \in Tasks, TaskStep(t)
    PROVE  \E q : Becomes(t, q)
<1>. DEFINE r == task[t]
<1>1. WellFormed(r) /\ r \in TaskType /\ now \in Nat
  BY WellFormedTask DEF TypeOK
<1>2. r.result \in RunStatuses /\ "cancelled" \in RunStatuses
  BY <1>1 DEF TaskType, RunStatuses
<1>3. ASSUME NEW q, StepTask(t, q), r.pc \notin Leaving \cup {"idle"},
             q = Idle \/ (SameExecution(r, q) /\ NextComputed(q))
      PROVE  Becomes(t, q)
  BY <1>3 DEF StepTask, Becomes, BodyStep
<1>4. ASSUME NEW q, WriteRow(t, q, row'), DisableStep(t, q) \/ ReleaseStep(t, q)
      PROVE  Becomes(t, q)
  BY <1>4 DEF WriteRow, Becomes
<1>5. CASE CreateRun(t)
  <2>. DEFINE q == [r EXCEPT !.runs[r.attempt] = "running", !.pc = "call"]
  <2>1. StepTask(t, q) /\ r.pc = "create"
    BY <1>5 DEF CreateRun, Running
  <2>2. SameExecution(r, q) /\ NextComputed(q)
    BY <1>1 DEF SameExecution, NextComputed, TaskType
  <2>3. QED
    BY <1>3, <2>1, <2>2 DEF Leaving
<1>6. ASSUME NEW p \in TaskType, SameExecution(r, p), p.pc # "idle",
             r.pc \notin Leaving \cup {"idle"},
             StepTask(t, Finally(p)) \/ StepTask(t, AfterRecord(p))
      PROVE  \E q : Becomes(t, q)
  <2>1. p.cron \in Crons
    BY <1>1, <1>6 DEF WellFormed, SameExecution
  <2>2. Finally(p) = Idle \/ (SameExecution(p, Finally(p)) /\ NextComputed(Finally(p)))
    BY <1>1, <1>6, <2>1, FinallyNext
  <2>3. \/ AfterRecord(p) = Idle
        \/ SameExecution(p, AfterRecord(p)) /\ NextComputed(AfterRecord(p))
    BY <1>1, <1>6, <2>1, AfterRecordNext
  <2>4. ASSUME NEW q, SameExecution(p, q)
        PROVE  SameExecution(r, q)
    BY <1>6, <2>4 DEF SameExecution
  <2>5. QED
    BY <1>3, <1>6, <2>2, <2>3, <2>4
<1>7. SameExecution(r, r)
  BY DEF SameExecution
<1>8. CASE CreateRunFails(t) \/ RecordRunFails(t) \/ MarkCancelledFails(t)
  <2>1. r.pc \in {"create", "record", "mark"}
    BY <1>8 DEF CreateRunFails, RecordRunFails, MarkCancelledFails, Running
  <2>2. StepTask(t, Finally(r)) \/ StepTask(t, AfterRecord(r))
    BY <1>8 DEF CreateRunFails, RecordRunFails, MarkCancelledFails
  <2>3. QED
    BY <1>1, <1>6, <1>7, <2>1, <2>2 DEF Leaving
<1>9. ASSUME NEW result \in Results, CallEnds(t, result)
      PROVE  \E q : Becomes(t, q)
  <2>. DEFINE q == [r EXCEPT !.result = result, !.pc = "record"]
  <2>1. StepTask(t, q) /\ r.pc = "call"
    BY <1>9 DEF CallEnds, Running
  <2>2. SameExecution(r, q) /\ NextComputed(q)
    BY <1>1 DEF SameExecution, NextComputed, TaskType
  <2>3. QED
    BY <1>3, <2>1, <2>2 DEF Leaving
<1>10. CASE RecordRun(t) \/ MarkCancelled(t)
  <2>1. PICK status \in RunStatuses :
            \/ StepTask(t, Finally(SetRun(r, status)))
            \/ StepTask(t, AfterRecord(SetRun(r, status)))
    BY <1>2, <1>10 DEF RecordRun, MarkCancelled
  <2>2. r.pc \in {"record", "mark"}
    BY <1>10 DEF RecordRun, MarkCancelled, Running
  <2>3. /\ SetRun(r, status) \in TaskType /\ SameExecution(r, SetRun(r, status))
        /\ SetRun(r, status).pc = r.pc
    BY <1>1, SetRunSame
  <2>4. QED
    BY <1>6, <2>1, <2>2, <2>3 DEF Leaving
<1>11. CASE Retry(t)
  <2>. DEFINE q == [r EXCEPT !.attempt = @ + 1, !.pc = "create"]
  <2>1. StepTask(t, q) /\ r.pc = "delay"
    BY <1>11 DEF Retry, Running
  <2>2. SameExecution(r, q) /\ NextComputed(q)
    BY <1>1 DEF SameExecution, NextComputed, TaskType
  <2>3. QED
    BY <1>3, <2>1, <2>2 DEF Leaving
<1>12. CASE DisableBroken(t)
  <2>1. PICK p \in Lost(Disabled(r.sid)) : WriteRow(t, [r EXCEPT !.pc = "release"], p)
    BY <1>12 DEF DisableBroken
  <2>2. r.pc = "disable" /\ row' = p
    BY <1>12, <2>1 DEF DisableBroken, Running, WriteRow
  <2>3. QED
    BY <1>4, <2>1, <2>2 DEF DisableStep
<1>13. CASE Release(t)
  <2>1. PICK p \in Lost(Released(r.sid, r.next)) : WriteRow(t, Idle, p)
    BY <1>13 DEF Release
  <2>2. r.pc = "release" /\ row' = p /\ p \in {row, Released(r.sid, r.next)}
    BY <1>13, <2>1 DEF Release, Running, WriteRow, Lost
  <2>3. QED
    BY <1>4, <2>1, <2>2 DEF ReleaseStep
<1>14. CASE CancelInBody(t)
  <2>1. r.pc \notin Leaving \cup {"idle"}
    BY <1>14 DEF CancelInBody, BodyStates, Leaving
  <2>2. PICK p : /\ \/ p = r
                    \/ p = [r EXCEPT !.runs[r.attempt] = "running"]
                    \/ p = SetRun(r, r.result)
                 /\ StepTask(t, [p EXCEPT !.pc = "mark", !.cancel = FALSE])
    BY <1>14 DEF CancelInBody
  <2>3. p \in TaskType /\ SameExecution(r, p)
    <3>1. CASE p = [r EXCEPT !.runs[r.attempt] = "running"]
      BY <1>1, <3>1 DEF TaskType, RunStatuses, SameExecution
    <3>2. QED
      BY <1>1, <1>2, <1>7, <2>2, <3>1, SetRunSame
  <2>. DEFINE q == [p EXCEPT !.pc = "mark", !.cancel = FALSE]
  <2>4. SameExecution(r, q) /\ NextComputed(q)
    BY <2>3 DEF SameExecution, NextComputed, TaskType
  <2>5. StepTask(t, q)
    BY <2>2
  <2>. HIDE DEF q
  <2>6. QED
    BY <1>3, <2>1, <2>4, <2>5
<1>15. CASE CancelInMark(t)
  <2>1. r.pc = "mark"
    BY <1>15 DEF CancelInMark
  <2>2. PICK p \in {r, SetRun(r, "cancelled")} :
               StepTask(t, Finally([p EXCEPT !.cancel = FALSE]))
    BY <1>15 DEF CancelInMark
  <2>3. p \in TaskType /\ SameExecution(r, p) /\ p.pc = r.pc
    BY <1>1, <1>2, <1>7, <2>2, SetRunSame
  <2>. DEFINE o == [p EXCEPT !.cancel = FALSE]
  <2>4. o \in TaskType /\ SameExecution(r, o) /\ o.pc = r.pc
    BY <2>3 DEF TaskType, SameExecution
  <2>5. StepTask(t, Finally(o))
    BY <2>2
  <2>. HIDE DEF o
  <2>6. QED
    BY <1>6, <2>1, <2>4, <2>5 DEF Leaving
<1>16. CASE CancelInFinally(t)
  <2>1. PICK p : /\ p = row \/ IF r.pc = "disable" THEN p = Disabled(r.sid)
                                                   ELSE p = Released(r.sid, r.next)
                 /\ WriteRow(t, Idle, p)
    BY <1>16 DEF CancelInFinally
  <2>2. r.pc \in {"disable", "release"} /\ row' = p
    BY <1>16, <2>1 DEF CancelInFinally, WriteRow
  <2>3. DisableStep(t, Idle) \/ ReleaseStep(t, Idle)
    BY <2>1, <2>2 DEF DisableStep, ReleaseStep
  <2>4. QED
    BY <1>4, <2>1, <2>2, <2>3
<1>17. QED
  BY <1>5, <1>8, <1>9, <1>10, <1>11, <1>12, <1>13, <1>14, <1>15, <1>16 DEF TaskStep

-----------------------------------------------------------------------------
(* StoppedIsQuiet.  stop() waits for the tasks it knows of; that these are   *)
(* all, and that none is added, is what has to be carried along.             *)

QuietWorker(w) ==
    /\ phase[w] \in {"down", "draining", "timedout"} => loop[w] = "off"
    /\ \A t \in Tasks : Alive(t) /\ task[t].w = w =>
          /\ phase[w] # "down"
          /\ phase[w] # "up" => task[t].tracked

QuietInv == \A w \in Workers : QuietWorker(w)

LEMMA QuietInit == Init => QuietInv
  BY DEF Init, QuietInv, QuietWorker, Alive, Idle

(* A worker that is not touched: it has no new execution. *)
LEMMA QuietKept ==
    ASSUME NEW w \in Workers, QuietWorker(w), phase'[w] = phase[w], loop'[w] = loop[w],
           \A t \in Tasks : Alive(t)' /\ task'[t].w = w =>
               Alive(t) /\ task[t].w = w /\ task'[t].tracked = task[t].tracked
    PROVE  QuietWorker(w)'
  BY DEF QuietWorker

LEMMA QuietTask ==
    ASSUME TypeOK, QuietInv, NEW t \in Tasks, NEW q, Becomes(t, q)
    PROVE  QuietInv'
<1>1. phase' = phase /\ loop' = loop /\ task' = [task EXCEPT ![t] = q]
  BY DEF Becomes
<1>2. Alive(t)
  BY DEF Becomes, BodyStep, DisableStep, ReleaseStep, Alive
<1>3. q = Idle \/ (q.w = task[t].w /\ q.tracked = task[t].tracked)
  <2>1. task[t] \in TaskType
    BY DEF TypeOK
  <2>2. QED
    BY <2>1 DEF Becomes, BodyStep, DisableStep, ReleaseStep, SameExecution, TaskType
<1>4. ASSUME NEW w \in Workers, NEW u \in Tasks, Alive(u)', task'[u].w = w
      PROVE  Alive(u) /\ task[u].w = w /\ task'[u].tracked = task[u].tracked
  BY <1>1, <1>2, <1>3, <1>4 DEF Alive, Idle, TypeOK
<1>5. QED
  BY <1>1, <1>4, QuietKept DEF QuietInv

LEMMA QuietManagement ==
    ASSUME TypeOK, QuietInv, Management
    PROVE  QuietInv'
<1>1. phase' = phase /\ loop' = loop
  BY DEF Management, Create, Delete, Enable, Disable, PatchCron, ManagerUpdate
<1>2. ASSUME NEW t \in Tasks
      PROVE  /\ task'[t].pc = task[t].pc /\ task'[t].w = task[t].w
             /\ task'[t].tracked = task[t].tracked
  <2>1. task'[t] = task[t] \/ task'[t] = [task[t] EXCEPT !.runs = NoRuns]
    BY DEF Management, Create, Delete, Enable, Disable, PatchCron, ManagerUpdate
  <2>2. task[t] \in TaskType
    BY DEF TypeOK
  <2>3. QED
    BY <2>1, <2>2 DEF TaskType
<1>3. QED
  BY <1>1, <1>2, QuietKept DEF QuietInv, Alive

(* task.cancel() is all that CancelAll does. *)
CancelledAt(w, t) ==
    \/ task'[t] = task[t] /\ t \notin InFlight(w)
    \/ t \in InFlight(w) /\ task'[t] = [task[t] EXCEPT !.cancel = TRUE]

LEMMA CancelAllAt ==
    ASSUME TypeOK, NEW w \in Workers, task' = CancelAll(w), NEW t \in Tasks
    PROVE  /\ CancelledAt(w, t)
           /\ SameExecution(task[t], task'[t]) /\ task'[t].pc = task[t].pc
           /\ task'[t].next = task[t].next /\ task'[t].runs = task[t].runs
           /\ task'[t].attempt = task[t].attempt
<1>1. task[t] \in TaskType
  BY DEF TypeOK
<1>2. CancelledAt(w, t)
  BY DEF CancelAll, CancelledAt
<1>3. QED
  BY <1>1, <1>2 DEF CancelledAt, SameExecution, TaskType

LEMMA QuietWorkerStep ==
    ASSUME TypeOK, QuietInv, NEW w \in Workers, WorkerStep(w)
    PROVE  QuietInv'
<1>. USE DEF TypeOK
<1>1. ASSUME QuietWorker(w)', UNCHANGED task,
             \A v \in Workers \ {w} : phase'[v] = phase[v] /\ loop'[v] = loop[v]
      PROVE  QuietInv'
  BY <1>1, QuietKept DEF QuietInv, Alive
<1>2. CASE Start(w)
  BY <1>1, <1>2 DEF Start, QuietInv, QuietWorker, Alive
<1>3. CASE Stop(w)
  BY <1>1, <1>3 DEF Stop, QuietInv, QuietWorker, Alive
<1>4. CASE Stopped(w)
  BY <1>1, <1>4 DEF Stopped, QuietInv, QuietWorker, Alive, InFlight
<1>5. CASE LoopExit(w)
  BY <1>1, <1>5 DEF LoopExit, QuietInv, QuietWorker, Alive
<1>6. CASE StopTimeout(w) \/ CancelInFlight(w)
  <2>1. /\ phase[w] \in {"stopping", "draining"} /\ phase'[w] \in {"draining", "timedout"}
        /\ loop' = loop
        /\ loop[w] = "off"
        /\ \A v \in Workers \ {w} : phase'[v] = phase[v]
    BY <1>6 DEF StopTimeout, CancelInFlight, QuietInv, QuietWorker
  <2>2. task' = CancelAll(w)
    BY <1>6 DEF StopTimeout, CancelInFlight
  <2>3. \A t \in Tasks : /\ task'[t].pc = task[t].pc /\ task'[t].w = task[t].w
                         /\ task'[t].tracked = task[t].tracked
    BY <2>2, CancelAllAt DEF SameExecution
  <2>4. ASSUME NEW v \in Workers \ {w}
        PROVE  QuietWorker(v)'
    BY <2>1, <2>3, QuietKept DEF QuietInv, Alive
  <2>5. QuietWorker(w)'
    BY <2>1, <2>3 DEF QuietInv, QuietWorker, Alive
  <2>6. QED
    BY <2>4, <2>5 DEF QuietInv
<1>7. CASE Crash(w)
  <2>1. \A t \in Tasks : Alive(t)' => task'[t] = task[t] /\ task[t].w # w /\ Alive(t)
    BY <1>7 DEF Crash, Alive, Idle
  <2>2. /\ \A v \in Workers \ {w} : phase'[v] = phase[v] /\ loop'[v] = loop[v]
        /\ phase'[w] = "down" /\ loop'[w] = "off"
    BY <1>7 DEF Crash
  <2>3. ASSUME NEW v \in Workers \ {w}
        PROVE  QuietWorker(v)'
    BY <2>1, <2>2, QuietKept DEF QuietInv
  <2>4. QuietWorker(w)'
    BY <2>1, <2>2 DEF QuietWorker
  <2>5. QED
    BY <2>3, <2>4 DEF QuietInv
<1>8. CASE ClaimStep(w)
  <2>1. /\ UNCHANGED <<phase, task>>
        /\ \A v \in Workers \ {w} : loop'[v] = loop[v]
    BY <1>8 DEF ClaimStep, ClaimAtomic, ClaimSelect, ClaimUpdate, ClaimLost, Stamp
  <2>2. loop[w] # "off"
    BY <1>8 DEF ClaimStep, ClaimAtomic, ClaimSelect, ClaimUpdate, ClaimLost
  <2>3. phase[w] \notin {"down", "draining", "timedout"}
    BY <2>2 DEF QuietInv, QuietWorker
  <2>4. QuietWorker(w)'
    BY <2>1, <2>3 DEF QuietInv, QuietWorker, Alive
  <2>5. QED
    BY <1>1, <2>1, <2>4
<1>9. ASSUME NEW t \in Tasks, NEW r, r.w = w, task' = [task EXCEPT ![t] = r],
             phase[w] = "up", phase' = phase,
             \A v \in Workers \ {w} : loop'[v] = loop[v]
      PROVE  QuietInv'
  <2>1. QuietWorker(w)'
    BY <1>9 DEF QuietInv, QuietWorker, Alive
  <2>2. ASSUME NEW v \in Workers \ {w}
        PROVE  QuietWorker(v)'
    BY <1>9, QuietKept DEF QuietInv, Alive
  <2>3. QED
    BY <2>1, <2>2 DEF QuietInv
<1>10. ASSUME NEW t \in Tasks, Spawn(w, t)
       PROVE  QuietInv'
  <2>. DEFINE r == NewTask(w, pick[w].sid, pick[w].cron, pick[w].at, TRUE, TRUE)
  <2>1. r.w = w
    BY DEF NewTask, Idle
  <2>2. /\ task' = [task EXCEPT ![t] = r] /\ phase[w] = "up" /\ phase' = phase
        /\ \A v \in Workers \ {w} : loop'[v] = loop[v]
    BY <1>10 DEF Spawn
  <2>. HIDE DEF r
  <2>3. QED
    BY <1>9, <2>1, <2>2
<1>11. ASSUME NEW s \in Schedules, NEW t \in Tasks, NEW tracked \in BOOLEAN,
              Trigger(w, s, t, tracked)
       PROVE  QuietInv'
  <2>. DEFINE r == NewTask(w, s, row[s].cron, 0, FALSE, tracked)
  <2>1. r.w = w
    BY DEF NewTask, Idle
  <2>2. /\ task' = [task EXCEPT ![t] = r] /\ phase[w] = "up" /\ phase' = phase
        /\ loop' = loop
    BY <1>11 DEF Trigger
  <2>. HIDE DEF r
  <2>3. QED
    BY <1>9, <2>1, <2>2
<1>12. QED
  BY <1>2, <1>3, <1>4, <1>5, <1>6, <1>7, <1>8, <1>10, <1>11 DEF WorkerStep, PollStep, StopStep

LEMMA QuietStep == TypeOK /\ QuietInv /\ [Next]_vars => QuietInv'
<1>. SUFFICES ASSUME TypeOK, QuietInv, [Next]_vars PROVE QuietInv'
  OBVIOUS
<1>1. CASE UNCHANGED vars
  BY <1>1 DEF vars, QuietInv, QuietWorker, Alive
<1>2. CASE Tick
  BY <1>2 DEF Tick, QuietInv, QuietWorker, Alive
<1>3. QED
  BY <1>1, <1>2, QuietManagement, QuietWorkerStep, TaskBecomes, QuietTask DEF Next, Step

LEMMA QuietAlways == Spec => []QuietInv
  BY TypeInit, TypeStep, QuietInit, QuietStep, PTL DEF Spec

(* When stop() has returned no loop, no claim and no execution of the worker *)
(* is left, whether or not its wait timed out.                               *)
THEOREM NothingOutlivesStop == Spec => []StoppedIsQuiet
<1>1. QuietInv => StoppedIsQuiet
  BY DEF QuietInv, QuietWorker, StoppedIsQuiet
<1>2. QED
  BY <1>1, QuietAlways, PTL

-----------------------------------------------------------------------------
(* RecordsAreFinal.  Where an execution may be cancelled, and when it may be *)
(* cancelled once more while it writes "cancelled", is part of the argument. *)

RunInv == \A t \in Tasks : Alive(t) => RunGood(task[t], phase[task[t].w])

LEMMA RunInit == Init => RunInv
  BY DEF Init, RunInv, Alive, Idle

(* The finally block writes no record. *)
LEMMA FinallyRun ==
    ASSUME NEW r \in TaskType, NEW ph \in Phases,
           \A a \in 1..MaxAttempts : r.runs[a] = "running" => a = r.attempt /\ ph = "timedout",
           r.cancel => ph \in {"draining", "timedout"}
    PROVE  Finally(r) = Idle \/ RunGood(Finally(r), ph)
<1>1. CASE ~r.lock
  BY <1>1 DEF Finally
<1>2. CASE r.lock /\ r.cron \in BadCrons
  BY <1>2 DEF Finally, TaskType, RunGood, Recording, Leaving
<1>3. CASE r.lock /\ r.cron \notin BadCrons
  <2>. DEFINE n == ComputeNextRun(r.cron, now)
  <2>1. Finally(r) = [r EXCEPT !.pc = "release", !.next = n]
    BY <1>3 DEF Finally
  <2>. HIDE DEF n
  <2>2. QED
    BY <2>1 DEF TaskType, RunGood, Recording, Leaving
<1>4. QED
  BY <1>1, <1>2, <1>3 DEF TaskType

LEMMA AfterRecordRun ==
    ASSUME NEW r \in TaskType, NEW ph \in Phases, r.pc = "record",
           \A a \in 1..MaxAttempts : r.runs[a] # "running",
           r.cancel => ph \in {"draining", "timedout"}
    PROVE  AfterRecord(r) = Idle \/ RunGood(AfterRecord(r), ph)
<1>1. CASE r.result = "failed" /\ r.attempt < MaxAttempts
  BY <1>1 DEF AfterRecord, TaskType, RunGood
<1>2. CASE ~(r.result = "failed" /\ r.attempt < MaxAttempts)
  <2>. DEFINE q == [r EXCEPT !.result = "failed"]
  <2>1. q \in TaskType /\ q.runs = r.runs /\ q.cancel = r.cancel
    BY DEF TaskType, Results
  <2>2. AfterRecord(r) = Finally(q)
    BY <1>2 DEF AfterRecord
  <2>. HIDE DEF q
  <2>3. QED
    BY <2>1, <2>2, FinallyRun
<1>3. QED
  BY <1>1, <1>2

LEMMA RunTask ==
    ASSUME ~DbFaults, TypeOK, NEW t \in Tasks, TaskStep(t), NEW ph \in Phases,
           RunGood(task[t], ph)
    PROVE  task'[t] = Idle \/ RunGood(task'[t], ph)
<1>. DEFINE r == task[t]
<1>1. r \in TaskType /\ WellFormed(r)
  BY WellFormedTask DEF TypeOK
<1>2. /\ r.result \in RunStatuses \ {"none", "running", "cancelled"}
      /\ "cancelled" \in RunStatuses
  BY <1>1 DEF TaskType, RunStatuses, Results
<1>3. ASSUME NEW q, StepTask(t, q)
      PROVE  task'[t] = q
  BY <1>3 DEF StepTask, TypeOK
<1>4. ASSUME NEW q, NEW p, WriteRow(t, q, p)
      PROVE  task'[t] = q
  BY <1>4 DEF WriteRow, TypeOK
<1>5. RunGood(r, ph)
  OBVIOUS
<1>6. CASE CreateRun(t)
  <2>. DEFINE q == [r EXCEPT !.runs[r.attempt] = "running", !.pc = "call"]
  <2>1. task'[t] = q /\ r.pc = "create" /\ ~r.cancel
    BY <1>3, <1>6 DEF CreateRun, Running
  <2>2. RunGood(q, ph)
    BY <1>1, <1>5, <2>1 DEF RunGood, TaskType, Recording, Leaving
  <2>3. QED
    BY <2>1, <2>2
<1>7. ASSUME NEW result \in Results, CallEnds(t, result)
      PROVE  RunGood(task'[t], ph)
  <2>. DEFINE q == [r EXCEPT !.result = result, !.pc = "record"]
  <2>1. task'[t] = q /\ r.pc = "call" /\ ~r.cancel
    BY <1>3, <1>7 DEF CallEnds, Running
  <2>2. RunGood(q, ph)
    BY <1>1, <1>5, <2>1 DEF RunGood, TaskType, Recording, Leaving
  <2>3. QED
    BY <2>1, <2>2
<1>8. CASE RecordRun(t)
  <2>. DEFINE q == SetRun(r, r.result)
  <2>1. task'[t] = AfterRecord(q) /\ r.pc = "record" /\ ~r.cancel
    BY <1>3, <1>8 DEF RecordRun, Running
  <2>2. /\ q \in TaskType /\ q.pc = r.pc /\ q.cancel = r.cancel
        /\ \A a \in 1..MaxAttempts : a # r.attempt => q.runs[a] = r.runs[a]
        /\ q.runs[r.attempt] \in {"none", r.result}
    BY <1>1, <1>2, SetRunSame
  <2>. HIDE DEF q
  <2>3. \A a \in 1..MaxAttempts : q.runs[a] # "running"
    BY <1>2, <1>5, <2>2 DEF RunGood
  <2>4. QED
    BY <2>1, <2>2, <2>3, AfterRecordRun
<1>9. CASE Retry(t)
  <2>. DEFINE q == [r EXCEPT !.attempt = @ + 1, !.pc = "create"]
  <2>1. task'[t] = q /\ r.pc = "delay" /\ ~r.cancel
    BY <1>3, <1>9 DEF Retry, Running
  <2>2. \A a \in 1..MaxAttempts : r.runs[a] # "running"
    BY <1>5, <2>1 DEF RunGood, Recording, Leaving
  <2>3. q.runs = r.runs /\ q.pc = "create" /\ q.cancel = r.cancel
    BY <1>1 DEF TaskType
  <2>4. RunGood(q, ph)
    BY <2>1, <2>2, <2>3 DEF RunGood
  <2>5. QED
    BY <2>1, <2>4
<1>10. CASE MarkCancelled(t)
  <2>. DEFINE q == SetRun(r, "cancelled")
  <2>1. task'[t] = Finally(q) /\ r.pc = "mark" /\ ~r.cancel
    BY <1>3, <1>10 DEF MarkCancelled, Running
  <2>2. /\ q \in TaskType /\ q.cancel = r.cancel
        /\ \A a \in 1..MaxAttempts : a # r.attempt => q.runs[a] = r.runs[a]
        /\ q.runs[r.attempt] \in {"none", "cancelled"}
    BY <1>1, <1>2, SetRunSame
  <2>. HIDE DEF q
  <2>3. \A a \in 1..MaxAttempts : q.runs[a] # "running"
    BY <1>5, <2>2 DEF RunGood
  <2>4. QED
    BY <2>1, <2>2, <2>3, FinallyRun
<1>11. CASE DisableBroken(t)
  <2>. DEFINE q == [r EXCEPT !.pc = "release"]
  <2>1. task'[t] = q /\ r.pc = "disable" /\ ~r.cancel
    BY <1>4, <1>11 DEF DisableBroken, Running
  <2>2. RunGood(q, ph)
    BY <1>1, <1>5, <2>1 DEF RunGood, TaskType, Recording, Leaving
  <2>3. QED
    BY <2>1, <2>2
<1>12. CASE Release(t) \/ CancelInFinally(t)
  BY <1>4, <1>12 DEF Release, CancelInFinally
<1>13. CASE CancelInBody(t)
  <2>1. PICK p : /\ \/ p = r
                    \/ p = [r EXCEPT !.runs[r.attempt] = "running"]
                    \/ p = SetRun(r, r.result)
                 /\ StepTask(t, [p EXCEPT !.pc = "mark", !.cancel = FALSE])
    BY <1>13 DEF CancelInBody
  <2>2. r.cancel /\ ph \in {"draining", "timedout"}
    BY <1>5, <1>13 DEF CancelInBody, RunGood
  <2>3. /\ p \in TaskType /\ p.attempt = r.attempt
        /\ \A a \in 1..MaxAttempts : a # r.attempt => p.runs[a] = r.runs[a]
    <3>1. CASE p = [r EXCEPT !.runs[r.attempt] = "running"]
      BY <1>1, <3>1 DEF TaskType, RunStatuses
    <3>2. QED
      BY <1>1, <1>2, <2>1, <3>1, SetRunSame
  <2>4. \A a \in 1..MaxAttempts : p.runs[a] = "running" => a = p.attempt
    BY <1>5, <2>3 DEF RunGood
  <2>. DEFINE q == [p EXCEPT !.pc = "mark", !.cancel = FALSE]
  <2>5. q.pc = "mark" /\ q.cancel = FALSE /\ q.runs = p.runs /\ q.attempt = p.attempt
    BY <2>3 DEF TaskType
  <2>6. task'[t] = q
    BY <1>3, <2>1
  <2>. HIDE DEF q
  <2>7. RunGood(q, ph)
    BY <2>2, <2>4, <2>5 DEF RunGood, Recording, Leaving
  <2>8. QED
    BY <2>6, <2>7
<1>14. CASE CancelInMark(t)
  <2>1. PICK p \in {r, SetRun(r, "cancelled")} :
               StepTask(t, Finally([p EXCEPT !.cancel = FALSE]))
    BY <1>14 DEF CancelInMark
  <2>2. ph = "timedout"
    BY <1>5, <1>14 DEF CancelInMark, RunGood
  <2>3. /\ p \in TaskType /\ p.attempt = r.attempt
        /\ \A a \in 1..MaxAttempts : a # r.attempt => p.runs[a] = r.runs[a]
    BY <1>1, <1>2, <2>1, SetRunSame
  <2>4. \A a \in 1..MaxAttempts : p.runs[a] = "running" => a = p.attempt
    BY <1>5, <2>3 DEF RunGood
  <2>. DEFINE q == [p EXCEPT !.cancel = FALSE]
  <2>5. q \in TaskType /\ q.runs = p.runs /\ q.attempt = p.attempt /\ q.cancel = FALSE
    BY <2>3 DEF TaskType
  <2>6. task'[t] = Finally(q)
    BY <1>3, <2>1
  <2>. HIDE DEF q
  <2>7. QED
    BY <2>2, <2>4, <2>5, <2>6, FinallyRun
<1>15. ~CreateRunFails(t) /\ ~RecordRunFails(t) /\ ~MarkCancelledFails(t)
  BY DEF CreateRunFails, RecordRunFails, MarkCancelledFails
<1>16. QED
  BY <1>6, <1>7, <1>8, <1>9, <1>10, <1>11, <1>12, <1>13, <1>14, <1>15 DEF TaskStep

(* Steps that start no execution and leave the phase of those there are. *)
LEMMA RunsKept ==
    ASSUME RunInv, \A t \in Tasks : Alive(t)' =>
               /\ Alive(t) /\ phase'[task'[t].w] = phase[task[t].w]
               /\ task'[t] = task[t]
    PROVE  RunInv'
  BY DEF RunInv

LEMMA RunManagement ==
    ASSUME TypeOK, RunInv, Management
    PROVE  RunInv'
<1>1. phase' = phase
  BY DEF Management, Create, Delete, Enable, Disable, PatchCron, ManagerUpdate
<1>2. ASSUME NEW t \in Tasks, Alive(t)'
      PROVE  RunGood(task[t], phase[task[t].w])'
  <2>1. task'[t] = task[t] \/ task'[t] = [task[t] EXCEPT !.runs = NoRuns]
    BY DEF Management, Create, Delete, Enable, Disable, PatchCron, ManagerUpdate
  <2>2. /\ task[t] \in TaskType
        /\ \A a \in 1..MaxAttempts : NoRuns[a] # "running"
    BY DEF TypeOK, NoRuns
  <2>3. /\ task'[t].pc = task[t].pc /\ task'[t].w = task[t].w
        /\ task'[t].cancel = task[t].cancel /\ task'[t].attempt = task[t].attempt
        /\ \A a \in 1..MaxAttempts :
              task'[t].runs[a] = "running" => task[t].runs[a] = "running"
    BY <2>1, <2>2 DEF TaskType
  <2>4. RunGood(task[t], phase[task[t].w])
    BY <1>2, <2>3 DEF RunInv, Alive
  <2>5. QED
    BY <1>1, <2>3, <2>4 DEF RunGood
<1>3. QED
  BY <1>2 DEF RunInv

(* A new execution has no records and has not been cancelled. *)
LEMMA RunStarted ==
    ASSUME TypeOK, RunInv, NEW t \in Tasks, NEW r, phase' = phase,
           task' = [task EXCEPT ![t] = r],
           r.runs = NoRuns, r.cancel = FALSE, r.pc = "create"
    PROVE  RunInv'
<1>1. \A ph \in Phases : RunGood(r, ph)
  BY DEF RunGood, NoRuns
<1>2. ASSUME NEW u \in Tasks, Alive(u)'
      PROVE  RunGood(task[u], phase[task[u].w])'
  <2>1. CASE u = t
    BY <2>1 DEF RunGood, NoRuns, TypeOK
  <2>2. CASE u # t
    BY <1>2, <2>2 DEF RunInv, Alive, TypeOK
  <2>3. QED
    BY <2>1, <2>2
<1>3. QED
  BY <1>2 DEF RunInv

LEMMA RunWorkerStep ==
    ASSUME TypeOK, QuietInv, RunInv, NEW w \in Workers, WorkerStep(w)
    PROVE  RunInv'
<1>1. task \in [Tasks -> TaskType] /\ phase \in [Workers -> Phases]
  BY DEF TypeOK
<1>2. CASE Start(w)
  <2>1. \A t \in Tasks : Alive(t) => task[t].w # w
    BY <1>2 DEF Start, QuietInv, QuietWorker
  <2>2. QED
    BY <1>1, <1>2, <2>1, RunsKept DEF Start, Alive
<1>3. CASE Stopped(w)
  <2>1. \A t \in Tasks : Alive(t) => task[t].w # w
    BY <1>3 DEF Stopped, QuietInv, QuietWorker, InFlight
  <2>2. QED
    BY <1>1, <1>3, <2>1, RunsKept DEF Stopped, Alive
<1>4. CASE Stop(w)
  <2>1. ASSUME NEW t \in Tasks, Alive(t), task[t].w = w
        PROVE  RunGood(task[t], "stopping")
    <3>1. RunGood(task[t], "up")
      BY <1>4, <2>1 DEF Stop, RunInv
    <3>2. QED
      BY <3>1 DEF RunGood
  <2>2. task' = task /\ phase' = [phase EXCEPT ![w] = "stopping"]
    BY <1>4 DEF Stop
  <2>3. ASSUME NEW t \in Tasks, Alive(t)
        PROVE  RunGood(task[t], phase'[task[t].w])
    <3>1. task[t].w \in Workers
      BY <2>3 DEF TypeOK
    <3>2. CASE task[t].w = w
      BY <1>1, <2>1, <2>2, <2>3, <3>2
    <3>3. CASE task[t].w # w
      BY <1>1, <2>2, <2>3, <3>1, <3>3 DEF RunInv
    <3>4. QED
      BY <3>2, <3>3
  <2>4. QED
    BY <2>2, <2>3 DEF RunInv, Alive
<1>5. CASE LoopExit(w) \/ ClaimStep(w)
  <2>1. UNCHANGED <<phase, task>>
    BY <1>5 DEF LoopExit, ClaimStep, ClaimAtomic, ClaimSelect, ClaimUpdate, ClaimLost
  <2>2. QED
    BY <2>1, RunsKept DEF Alive
<1>6. CASE Crash(w)
  <2>1. \A t \in Tasks : Alive(t)' => task'[t] = task[t] /\ task[t].w # w /\ Alive(t)
    BY <1>6 DEF Crash, Alive, Idle
  <2>2. QED
    BY <1>1, <1>6, <2>1, RunsKept DEF Crash
<1>7. CASE StopTimeout(w) \/ CancelInFlight(w)
  <2>1. /\ task' = CancelAll(w)
        /\ \/ phase[w] = "stopping" /\ phase' = [phase EXCEPT ![w] = "draining"]
           \/ phase[w] = "draining" /\ phase' = [phase EXCEPT ![w] = "timedout"]
    BY <1>7 DEF StopTimeout, CancelInFlight
  <2>2. ASSUME NEW t \in Tasks, Alive(t)'
        PROVE  RunGood(task[t], phase[task[t].w])'
    <3>1. /\ CancelledAt(w, t)
          /\ task'[t].w = task[t].w /\ task'[t].pc = task[t].pc
          /\ task'[t].runs = task[t].runs /\ task'[t].attempt = task[t].attempt
      BY <2>1, CancelAllAt DEF SameExecution
    <3>2. Alive(t) /\ RunGood(task[t], phase[task[t].w]) /\ task[t].w \in Workers
      BY <2>2, <3>1 DEF Alive, RunInv, TypeOK
    <3>3. CASE task[t].w # w
      <4>1. task'[t] = task[t] /\ phase'[task[t].w] = phase[task[t].w]
        BY <1>1, <2>1, <3>1, <3>2, <3>3 DEF CancelledAt, InFlight
      <4>2. QED
        BY <3>2, <4>1
    <3>4. CASE task[t].w = w
      <4>1. phase[w] = "stopping" \/ phase[w] = "draining"
        BY <2>1
      <4>2. phase'[w] = IF phase[w] = "stopping" THEN "draining" ELSE "timedout"
        BY <1>1, <2>1
      <4>3. RunGood(task'[t], phase'[w])
        BY <3>1, <3>2, <3>4, <4>1, <4>2 DEF RunGood
      <4>4. QED
        BY <3>1, <3>4, <4>3
    <3>5. QED
      BY <3>3, <3>4
  <2>3. QED
    BY <2>2 DEF RunInv
<1>8. ASSUME NEW t \in Tasks, Spawn(w, t)
      PROVE  RunInv'
  <2>. DEFINE r == NewTask(w, pick[w].sid, pick[w].cron, pick[w].at, TRUE, TRUE)
  <2>1. r.runs = NoRuns /\ r.cancel = FALSE /\ r.pc = "create"
    BY DEF NewTask, Idle
  <2>2. task' = [task EXCEPT ![t] = r] /\ phase' = phase
    BY <1>8 DEF Spawn
  <2>. HIDE DEF r
  <2>3. QED
    BY <2>1, <2>2, RunStarted
<1>9. ASSUME NEW s \in Schedules, NEW t \in Tasks, NEW tracked \in BOOLEAN,
             Trigger(w, s, t, tracked)
      PROVE  RunInv'
  <2>. DEFINE r == NewTask(w, s, row[s].cron, 0, FALSE, tracked)
  <2>1. r.runs = NoRuns /\ r.cancel = FALSE /\ r.pc = "create"
    BY DEF NewTask, Idle
  <2>2. task' = [task EXCEPT ![t] = r] /\ phase' = phase
    BY <1>9 DEF Trigger
  <2>. HIDE DEF r
  <2>3. QED
    BY <2>1, <2>2, RunStarted
<1>10. QED
  BY <1>2, <1>3, <1>4, <1>5, <1>6, <1>7, <1>8, <1>9 DEF WorkerStep, PollStep, StopStep

LEMMA RunTaskStep ==
    ASSUME ~DbFaults, TypeOK, RunInv, NEW t \in Tasks, TaskStep(t)
    PROVE  RunInv'
<1>1. PICK q : Becomes(t, q)
  BY TaskBecomes
<1>2. /\ task' = [task EXCEPT ![t] = q] /\ phase' = phase /\ Alive(t)
      /\ q = Idle \/ q.w = task[t].w
  <2>1. task[t] \in TaskType
    BY DEF TypeOK
  <2>2. QED
    BY <1>1, <2>1 DEF Becomes, BodyStep, DisableStep, ReleaseStep, SameExecution, TaskType, Alive
<1>3. phase[task[t].w] \in Phases /\ RunGood(task[t], phase[task[t].w])
  BY <1>2 DEF RunInv, TypeOK
<1>4. q = Idle \/ RunGood(q, phase[task[t].w])
  BY <1>2, <1>3, RunTask DEF TypeOK
<1>5. ASSUME NEW u \in Tasks, Alive(u)'
      PROVE  RunGood(task[u], phase[task[u].w])'
  <2>1. CASE u = t
    <3>1. task'[u] = q /\ q # Idle
      BY <1>2, <1>5, <2>1 DEF Alive, Idle, TypeOK
    <3>2. QED
      BY <1>2, <1>4, <3>1
  <2>2. CASE u # t
    BY <1>2, <1>5, <2>2 DEF RunInv, Alive, TypeOK
  <2>3. QED
    BY <2>1, <2>2
<1>6. QED
  BY <1>5 DEF RunInv

LEMMA RunStep == ~DbFaults /\ TypeOK /\ QuietInv /\ RunInv /\ [Next]_vars => RunInv'
<1>. SUFFICES ASSUME ~DbFaults, TypeOK, QuietInv, RunInv, [Next]_vars PROVE RunInv'
  OBVIOUS
<1>1. CASE UNCHANGED vars \/ Tick
  BY <1>1, RunsKept DEF vars, Tick, Alive
<1>2. QED
  BY <1>1, RunManagement, RunWorkerStep, RunTaskStep DEF Next, Step

(* When every UPDATE is written, an execution that is on its way out has no  *)
(* record left that says "running", and no attempt starts before the one     *)
(* before it is recorded; unless stop() timed out and cancelled it twice.    *)
THEOREM RecordsEndFinal == ASSUME ~DbFaults PROVE Spec => []RecordsAreFinal
<1>1. TypeOK /\ RunInv => RecordsAreFinal
  BY DEF RunInv, RunGood, Leaving, RecordsAreFinal
<1>2. TypeOK /\ QuietInv /\ RunInv /\ [Next]_vars => RunInv'
  BY RunStep
<1>3. Spec => []TypeOK /\ []QuietInv
  BY TypeCorrect, QuietAlways, PTL
<1>4. Spec => []RunInv
  BY <1>2, <1>3, RunInit, PTL DEF Spec
<1>5. QED
  BY <1>1, <1>3, <1>4, PTL

-----------------------------------------------------------------------------
(* ClaimedWithinLimit.  The limit is tested when a poll begins, several      *)
(* awaits before the execution is added: between them no other claimed one   *)
(* may be.                                                                   *)

Claimed(w) == {t \in InFlight(w) : task[t].lock}

WithinLimit(w) ==
    /\ Cardinality(Claimed(w)) <= MaxConcurrent
    /\ loop[w] \in {"claim", "spawn"} => Cardinality(Claimed(w)) < MaxConcurrent

LimitInv == \A w \in Workers : WithinLimit(w)

LEMMA ClaimedFinite ==
    ASSUME NEW w \in Workers
    PROVE  /\ IsFiniteSet(InFlight(w)) /\ IsFiniteSet(Claimed(w))
           /\ Cardinality(Claimed(w)) \in Nat /\ Cardinality(InFlight(w)) \in Nat
           /\ Cardinality(Claimed(w)) <= Cardinality(InFlight(w))
<1>1. InFlight(w) \subseteq Tasks /\ Claimed(w) \subseteq InFlight(w)
  BY DEF InFlight, Claimed
<1>2. IsFiniteSet(InFlight(w))
  BY <1>1, SchedulerAssumption, FS_Subset
<1>3. QED
  BY <1>1, <1>2, FS_Subset, FS_CardinalityType

LEMMA LimitInit == Init => LimitInv
<1>. SUFFICES ASSUME Init, NEW w \in Workers PROVE WithinLimit(w)
  BY DEF LimitInv
<1>1. Claimed(w) = {} /\ loop[w] = "off"
  BY DEF Init, Claimed, InFlight, Alive, Idle
<1>2. QED
  BY <1>1, FS_EmptySet, SchedulerAssumption DEF WithinLimit

(* No execution is added, and a claim is begun only below the limit. *)
LEMMA LimitKept ==
    ASSUME NEW w \in Workers, WithinLimit(w), Claimed(w)' \subseteq Claimed(w),
           loop'[w] \in {"claim", "spawn"} => loop[w] \in {"claim", "spawn"} \/ BelowLimit(w)
    PROVE  WithinLimit(w)'
<1>1. /\ Cardinality(Claimed(w)') \in Nat /\ Cardinality(Claimed(w)) \in Nat
      /\ Cardinality(Claimed(w)') <= Cardinality(Claimed(w))
  BY ClaimedFinite, FS_Subset, FS_CardinalityType
<1>2. Cardinality(InFlight(w)) \in Nat /\ Cardinality(Claimed(w)) <= Cardinality(InFlight(w))
  BY ClaimedFinite
<1>3. MaxConcurrent \in Nat
  BY SchedulerAssumption
<1>4. Cardinality(Claimed(w)') <= MaxConcurrent
  BY <1>1, <1>3 DEF WithinLimit
<1>5. loop'[w] \in {"claim", "spawn"} => Cardinality(Claimed(w)') < MaxConcurrent
  BY <1>1, <1>2, <1>3 DEF WithinLimit, BelowLimit
<1>6. QED
  BY <1>4, <1>5 DEF WithinLimit

(* What keeps an execution from being counted anew. *)
LEMMA ClaimedShrinks ==
    ASSUME NEW w \in Workers,
           \A t \in Tasks : Alive(t)' =>
               /\ Alive(t) /\ task'[t].w = task[t].w
               /\ task'[t].tracked = task[t].tracked /\ task'[t].lock = task[t].lock
    PROVE  Claimed(w)' \subseteq Claimed(w)
  BY DEF Claimed, InFlight

LEMMA LimitTask ==
    ASSUME TypeOK, LimitInv, NEW t \in Tasks, NEW q, Becomes(t, q)
    PROVE  LimitInv'
<1>1. loop' = loop /\ task' = [task EXCEPT ![t] = q] /\ Alive(t)
  BY DEF Becomes, BodyStep, DisableStep, ReleaseStep, Alive
<1>2. q = Idle \/ (q.w = task[t].w /\ q.tracked = task[t].tracked /\ q.lock = task[t].lock)
  <2>1. task[t] \in TaskType
    BY DEF TypeOK
  <2>2. QED
    BY <2>1 DEF Becomes, BodyStep, DisableStep, ReleaseStep, SameExecution, TaskType
<1>3. \A u \in Tasks : Alive(u)' =>
          /\ Alive(u) /\ task'[u].w = task[u].w
          /\ task'[u].tracked = task[u].tracked /\ task'[u].lock = task[u].lock
  BY <1>1, <1>2 DEF Alive, Idle, TypeOK
<1>4. QED
  BY <1>1, <1>3, ClaimedShrinks, LimitKept DEF LimitInv

LEMMA LimitManagement ==
    ASSUME TypeOK, LimitInv, Management
    PROVE  LimitInv'
<1>1. loop' = loop
  BY DEF Management, Create, Delete, Enable, Disable, PatchCron, ManagerUpdate
<1>2. ASSUME NEW t \in Tasks
      PROVE  /\ task'[t].pc = task[t].pc /\ task'[t].w = task[t].w
             /\ task'[t].tracked = task[t].tracked /\ task'[t].lock = task[t].lock
  <2>1. task'[t] = task[t] \/ task'[t] = [task[t] EXCEPT !.runs = NoRuns]
    BY DEF Management, Create, Delete, Enable, Disable, PatchCron, ManagerUpdate
  <2>2. task[t] \in TaskType
    BY DEF TypeOK
  <2>3. QED
    BY <2>1, <2>2 DEF TaskType
<1>3. QED
  BY <1>1, <1>2, ClaimedShrinks, LimitKept DEF LimitInv, Alive

LEMMA LimitWorkerStep ==
    ASSUME TypeOK, LimitInv, NEW w \in Workers, WorkerStep(w)
    PROVE  LimitInv'
<1>. USE DEF TypeOK
<1>1. ASSUME \A t \in Tasks : Alive(t)' =>
                /\ Alive(t) /\ task'[t].w = task[t].w
                /\ task'[t].tracked = task[t].tracked /\ task'[t].lock = task[t].lock,
             \A v \in Workers : loop'[v] \in {"claim", "spawn"} =>
                loop[v] \in {"claim", "spawn"} \/ BelowLimit(v)
      PROVE  LimitInv'
  BY <1>1, ClaimedShrinks, LimitKept DEF LimitInv
<1>2. CASE Start(w) \/ Stop(w) \/ Stopped(w) \/ LoopExit(w)
  BY <1>1, <1>2 DEF Start, Stop, Stopped, LoopExit, Alive
<1>3. CASE ClaimStep(w)
  <2>1. task' = task
    BY <1>3 DEF ClaimStep, ClaimAtomic, ClaimSelect, ClaimUpdate, ClaimLost
  <2>2. loop[w] = "claim" \/ BelowLimit(w)
    BY <1>3 DEF ClaimStep, ClaimAtomic, ClaimSelect, ClaimUpdate, ClaimLost
  <2>3. \E state : loop' = [loop EXCEPT ![w] = state]
    BY <1>3 DEF ClaimStep, ClaimAtomic, ClaimSelect, ClaimUpdate, ClaimLost, Stamp
  <2>4. \A v \in Workers \ {w} : loop'[v] = loop[v]
    BY <2>3
  <2>5. QED
    BY <1>1, <2>1, <2>2, <2>4 DEF Alive
<1>4. CASE StopTimeout(w) \/ CancelInFlight(w)
  <2>1. task' = CancelAll(w) /\ loop' = loop
    BY <1>4 DEF StopTimeout, CancelInFlight
  <2>2. \A t \in Tasks : SameExecution(task[t], task'[t]) /\ task'[t].pc = task[t].pc
    BY <2>1, CancelAllAt
  <2>3. QED
    BY <1>1, <2>1, <2>2 DEF Alive, SameExecution
<1>5. CASE Crash(w)
  <2>1. \A t \in Tasks : Alive(t)' => task'[t] = task[t] /\ Alive(t)
    BY <1>5 DEF Crash, Alive, Idle
  <2>2. \A v \in Workers : loop'[v] \in {"claim", "spawn"} => loop[v] \in {"claim", "spawn"}
    BY <1>5 DEF Crash
  <2>3. QED
    BY <1>1, <2>1, <2>2
<1>6. ASSUME NEW t \in Tasks, Spawn(w, t)
      PROVE  LimitInv'
  <2>. DEFINE r == NewTask(w, pick[w].sid, pick[w].cron, pick[w].at, TRUE, TRUE)
  <2>1. r.w = w
    BY DEF NewTask, Idle
  <2>2. task' = [task EXCEPT ![t] = r] /\ ~Alive(t)
    BY <1>6 DEF Spawn
  <2>. HIDE DEF r
  <2>3. ASSUME NEW v \in Workers \ {w}
        PROVE  WithinLimit(v)'
    <3>1. Claimed(v)' \subseteq Claimed(v)
      BY <2>1, <2>2 DEF Claimed, InFlight, Alive
    <3>2. loop'[v] = loop[v]
      BY <1>6 DEF Spawn
    <3>3. QED
      BY <3>1, <3>2, LimitKept DEF LimitInv
  <2>4. WithinLimit(w)'
    <3>1. Claimed(w)' \subseteq Claimed(w) \cup {t}
      BY <2>2 DEF Claimed, InFlight, Alive
    <3>2. Cardinality(Claimed(w)) < MaxConcurrent /\ loop'[w] = "poll"
      BY <1>6 DEF Spawn, LimitInv, WithinLimit
    <3>3. IsFiniteSet(Claimed(w)) /\ Cardinality(Claimed(w)) \in Nat
      BY ClaimedFinite
    <3>4. /\ IsFiniteSet(Claimed(w) \cup {t})
          /\ Cardinality(Claimed(w) \cup {t}) \in Nat
          /\ Cardinality(Claimed(w) \cup {t}) <= Cardinality(Claimed(w)) + 1
      <4>1. /\ IsFiniteSet(Claimed(w) \cup {t})
            /\ \/ Cardinality(Claimed(w) \cup {t}) = Cardinality(Claimed(w))
               \/ Cardinality(Claimed(w) \cup {t}) = Cardinality(Claimed(w)) + 1
        BY <3>3, FS_AddElement, Zenon
      <4>2. QED
        BY <3>3, <4>1
    <3>5. /\ Cardinality(Claimed(w)') <= Cardinality(Claimed(w) \cup {t})
          /\ Cardinality(Claimed(w)') \in Nat
      BY <3>1, <3>4, FS_Subset, FS_CardinalityType
    <3>6. Cardinality(Claimed(w)') <= MaxConcurrent
      BY <3>2, <3>3, <3>4, <3>5, SchedulerAssumption
    <3>7. QED
      BY <3>2, <3>6 DEF WithinLimit
  <2>5. QED
    BY <2>3, <2>4 DEF LimitInv
<1>7. ASSUME NEW s \in Schedules, NEW t \in Tasks, NEW tracked \in BOOLEAN,
             Trigger(w, s, t, tracked)
      PROVE  LimitInv'
  <2>. DEFINE r == NewTask(w, s, row[s].cron, 0, FALSE, tracked)
  <2>1. r.lock = FALSE
    BY DEF NewTask, Idle
  <2>2. task' = [task EXCEPT ![t] = r] /\ loop' = loop
    BY <1>7 DEF Trigger
  <2>. HIDE DEF r
  <2>3. \A v \in Workers : Claimed(v)' \subseteq Claimed(v)
    BY <2>1, <2>2 DEF Claimed, InFlight, Alive
  <2>4. QED
    BY <2>2, <2>3, LimitKept DEF LimitInv
<1>8. QED
  BY <1>2, <1>3, <1>4, <1>5, <1>6, <1>7 DEF WorkerStep, PollStep, StopStep

LEMMA LimitStep == TypeOK /\ LimitInv /\ [Next]_vars => LimitInv'
<1>. SUFFICES ASSUME TypeOK, LimitInv, [Next]_vars PROVE LimitInv'
  OBVIOUS
<1>1. CASE UNCHANGED vars \/ Tick
  <2>1. task' = task /\ loop' = loop
    BY <1>1 DEF vars, Tick
  <2>2. QED
    BY <2>1 DEF LimitInv, WithinLimit, Claimed, InFlight, Alive
<1>2. QED
  BY <1>1, LimitManagement, LimitWorkerStep, TaskBecomes, LimitTask DEF Next, Step

(* A poller never runs more claimed executions than max_concurrent, however  *)
(* many manual triggers it has accepted in the meantime.                     *)
THEOREM NeverAboveLimit == Spec => []ClaimedWithinLimit
<1>1. LimitInv => ClaimedWithinLimit
  BY DEF LimitInv, WithinLimit, Claimed, ClaimedWithinLimit
<1>2. QED
  BY <1>1, TypeInit, TypeStep, LimitInit, LimitStep, PTL DEF Spec

-----------------------------------------------------------------------------
(* ServedIsNotDue.  An execution about to release carries a next run      *)
(* after the last claim, or none because the schedule was disabled; nobody   *)
(* claims the schedule before it has.                                        *)

SlotFree(s) ==
    row[s].enabled /\ row[s].by = None /\ served[s] > 0 => row[s].next > served[s]

SlotCarried(t, s) ==
    TaskHolds(t, s) /\ task[t].pc = "release" =>
        IF task[t].next = NoNext
        THEN row[s].enabled => row[s].next > served[s]
        ELSE task[t].next > served[s]

SlotInv ==
    /\ \A s \in Schedules : served[s] <= now
    /\ \A s \in Schedules : row[s].st # "live" => ~row[s].enabled
    /\ \A t \in Tasks : task[t].pc = "disable" => task[t].next = NoNext
    /\ ~overran => \A s \in Schedules : SlotFree(s) /\ \A t \in Tasks : SlotCarried(t, s)

LEMMA SlotInit == Init => SlotInv
<1>. SUFFICES ASSUME Init PROVE SlotInv
  OBVIOUS
<1>1. /\ \A s \in Schedules : served[s] = 0
      /\ \A t \in Tasks : task[t].pc = "idle"
      /\ \A s \in Schedules : row[s].st # "live" => ~row[s].enabled
      /\ now = 0
  BY DEF Init, Idle, Fresh, Absent
<1>2. QED
  BY <1>1 DEF SlotInv, SlotFree, SlotCarried, TaskHolds, Alive

(* Steps that leave the table and the claims made, and bring no execution    *)
(* to its release.                                                           *)
LEMMA SlotKept ==
    ASSUME TypeOK, SlotInv, Latch, now' >= now, now' \in Nat, row' = row, served' = served,
           \A t \in Tasks : Alive(t)' /\ task'[t].pc \in Leaving =>
               /\ task[t].pc = task'[t].pc /\ task[t].lock = task'[t].lock
               /\ task[t].sid = task'[t].sid /\ task[t].next = task'[t].next
    PROVE  SlotInv'
<1>1. \A s \in Schedules : served[s] \in Nat
  BY DEF TypeOK
<1>2. \A s \in Schedules : served'[s] <= now'
  BY <1>1 DEF SlotInv, TypeOK
<1>3. \A t \in Tasks : task'[t].pc = "disable" => task'[t].next = NoNext
  BY DEF SlotInv, Alive, Leaving
<1>4. ASSUME ~overran', NEW s \in Schedules
      PROVE  SlotFree(s)' /\ \A t \in Tasks : SlotCarried(t, s)'
  <2>1. SlotFree(s) /\ \A t \in Tasks : SlotCarried(t, s)
    BY <1>4 DEF SlotInv, Latch
  <2>2. SlotFree(s)'
    BY <2>1 DEF SlotFree
  <2>3. ASSUME NEW t \in Tasks
        PROVE  SlotCarried(t, s)'
    BY <2>1 DEF SlotCarried, TaskHolds, Alive, Leaving
  <2>4. QED
    BY <2>2, <2>3
<1>5. QED
  BY <1>2, <1>3, <1>4 DEF SlotInv

(* A management request that touches one row sets a next run after now,      *)
(* disables it, or leaves the columns that matter.                           *)
SlotRowKept(s) ==
    /\ row'[s].st # "live" => ~row'[s].enabled
    /\ \/ row'[s].enabled = FALSE
       \/ row'[s].next > now
       \/ /\ row'[s].enabled = row[s].enabled /\ row'[s].by = row[s].by
          /\ row'[s].next = row[s].next

LEMMA SlotManaged ==
    ASSUME TypeOK, TypeOK', SlotInv, Latch, now' = now, served' = served,
           \A s \in Schedules : SlotRowKept(s),
           \A t \in Tasks : /\ task[t].pc = task'[t].pc /\ task[t].lock = task'[t].lock
                            /\ task[t].sid = task'[t].sid /\ task[t].next = task'[t].next
    PROVE  SlotInv'
<1>1. \A s \in Schedules : /\ served[s] \in Nat /\ now \in Nat
                           /\ row[s].next \in Nat /\ row'[s].next \in Nat
  BY DEF TypeOK, RowType
<1>2. ASSUME ~overran', NEW s \in Schedules
      PROVE  SlotFree(s)' /\ \A t \in Tasks : SlotCarried(t, s)'
  <2>1. /\ SlotFree(s) /\ \A t \in Tasks : SlotCarried(t, s)
        /\ served[s] <= now
    BY <1>2 DEF SlotInv, Latch
  <2>2. row'[s].next > now => row'[s].next > served[s]
    BY <1>1, <2>1
  <2>3. SlotFree(s)'
    BY <2>1, <2>2 DEF SlotFree, SlotRowKept
  <2>4. ASSUME NEW t \in Tasks
        PROVE  SlotCarried(t, s)'
    <3>1. TaskHolds(t, s)' => TaskHolds(t, s)
      BY DEF TaskHolds, Alive
    <3>2. QED
      BY <2>1, <2>2, <3>1 DEF SlotCarried, SlotRowKept
  <2>5. QED
    BY <2>3, <2>4
<1>3. QED
  BY <1>2 DEF SlotInv, SlotRowKept

LEMMA SlotManagement ==
    ASSUME TypeOK, TypeOK', SlotInv, Latch, Management
    PROVE  SlotInv'
<1>1. now' = now /\ served' = served
  BY DEF Management, Create, Delete, Enable, Disable, PatchCron, ManagerUpdate
<1>2. ASSUME NEW t \in Tasks
      PROVE  /\ task[t].pc = task'[t].pc /\ task[t].lock = task'[t].lock
             /\ task[t].sid = task'[t].sid /\ task[t].next = task'[t].next
  <2>1. task'[t] = task[t] \/ task'[t] = [task[t] EXCEPT !.runs = NoRuns]
    BY DEF Management, Create, Delete, Enable, Disable, PatchCron, ManagerUpdate
  <2>2. task[t] \in TaskType
    BY DEF TypeOK
  <2>3. QED
    BY <2>1, <2>2 DEF TaskType
<1>3. \A s \in Schedules : row[s] \in RowType /\ (row[s].st = "live" => row[s].cron \in Crons)
  BY DEF TypeOK
<1>4. \A c \in Crons : ComputeNextRun(c, now) > now
  BY NextRunLater DEF TypeOK
<1>5. ASSUME NEW s \in Schedules, NEW new, row' = [row EXCEPT ![s] = new],
             new.st = "live" \/ new.enabled = FALSE,
             \/ new.enabled = FALSE
             \/ new.next > now
             \/ /\ new.enabled = row[s].enabled
                /\ new.by = row[s].by /\ new.next = row[s].next
      PROVE  \A z \in Schedules : SlotRowKept(z)
  BY <1>5 DEF SlotRowKept, TypeOK, SlotInv
<1>6. ASSUME NEW s \in Schedules, NEW c \in Crons, Create(s, c)
      PROVE  \A z \in Schedules : SlotRowKept(z)
  <2>1. Fresh(c, now).next > now /\ Fresh(c, now).st = "live"
    BY <1>4 DEF Fresh
  <2>2. QED
    BY <1>5, <1>6, <2>1 DEF Create
<1>7. ASSUME NEW s \in Schedules, Delete(s)
      PROVE  \A z \in Schedules : SlotRowKept(z)
  <2>1. Absent("deleted").enabled = FALSE
    BY DEF Absent
  <2>2. QED
    BY <1>5, <1>7, <2>1 DEF Delete
<1>8. ASSUME NEW s \in Schedules, Enable(s)
      PROVE  \A z \in Schedules : SlotRowKept(z)
  <2>. DEFINE n == ComputeNextRun(row[s].cron, now)
              new == [row[s] EXCEPT !.enabled = TRUE, !.next = n]
  <2>1. n > now
    BY <1>3, <1>4, <1>8 DEF Enable
  <2>2. row' = [row EXCEPT ![s] = new]
    BY <1>8 DEF Enable, TypeOK
  <2>. HIDE DEF n
  <2>3. new.next > now /\ new.st = "live"
    BY <1>3, <1>8, <2>1 DEF RowType, Enable
  <2>. HIDE DEF new
  <2>4. QED
    BY <1>5, <2>2, <2>3
<1>9. ASSUME NEW s \in Schedules, Disable(s)
      PROVE  \A z \in Schedules : SlotRowKept(z)
  <2>. DEFINE new == [row[s] EXCEPT !.enabled = FALSE]
  <2>1. row' = [row EXCEPT ![s] = new] /\ new.enabled = FALSE
    BY <1>3, <1>9 DEF Disable, TypeOK, RowType
  <2>. HIDE DEF new
  <2>2. QED
    BY <1>5, <2>1
<1>10. ASSUME NEW s \in Schedules, NEW c \in Crons, PatchCron(s, c)
       PROVE  \A z \in Schedules : SlotRowKept(z)
  <2>. DEFINE n == ComputeNextRun(c, now)
              new == [row[s] EXCEPT !.cron = c, !.next = IF row[s].enabled THEN n ELSE @]
  <2>1. n > now
    BY <1>4
  <2>2. row' = [row EXCEPT ![s] = new]
    BY <1>10 DEF PatchCron, TypeOK
  <2>. HIDE DEF n
  <2>3. row[s] \in RowType
    BY <1>3
  <2>4. /\ new.enabled = row[s].enabled /\ new.st = row[s].st
        /\ new.next = IF row[s].enabled THEN n ELSE row[s].next
    BY <2>3 DEF RowType
  <2>. HIDE DEF new
  <2>5. new.enabled = FALSE \/ new.next > now
    BY <2>1, <2>3, <2>4 DEF RowType
  <2>6. new.st = "live"
    BY <1>10, <2>4 DEF PatchCron
  <2>7. QED
    BY <1>5, <2>2, <2>5, <2>6
<1>11. ASSUME NEW s \in Schedules, NEW c \in Crons, ManagerUpdate(s, c)
       PROVE  \A z \in Schedules : SlotRowKept(z)
  <2>. DEFINE new == [row[s] EXCEPT !.cron = c]
  <2>1. row' = [row EXCEPT ![s] = new]
    BY <1>11 DEF ManagerUpdate, TypeOK
  <2>2. /\ new.enabled = row[s].enabled /\ new.by = row[s].by /\ new.next = row[s].next
        /\ new.st = "live"
    BY <1>3, <1>11 DEF RowType, ManagerUpdate
  <2>. HIDE DEF new
  <2>3. QED
    BY <1>5, <2>1, <2>2
<1>12. \A z \in Schedules : SlotRowKept(z)
  BY <1>6, <1>7, <1>8, <1>9, <1>10, <1>11 DEF Management
<1>13. QED
  BY <1>1, <1>2, <1>12, SlotManaged

(* A claim takes the row, on which no execution carries a next run. *)
LEMMA SlotClaim ==
    ASSUME TypeOK, LockInv, SlotInv, Latch, NEW w \in Workers, NEW s \in Schedules,
           NEW stamp \in Nat, stamp <= now, row[s].st = "live", Claimable(s, stamp),
           Stamp(w, s, stamp), task' = task, now' = now
    PROVE  SlotInv'
<1>1. /\ row'[s].by = w /\ row'[s].st = "live" /\ served'[s] = stamp
      /\ \A z \in Schedules \ {s} : row'[z] = row[z] /\ served'[z] = served[z]
  BY DEF Stamp, TypeOK, RowType
<1>2. w # None
  BY SchedulerAssumption
<1>3. \A z \in Schedules : served'[z] <= now'
  BY <1>1 DEF SlotInv
<1>4. ASSUME ~overran', NEW z \in Schedules
      PROVE  SlotFree(z)' /\ \A t \in Tasks : SlotCarried(t, z)'
  <2>1. ~overran
    BY <1>4 DEF Latch
  <2>2. \A t \in Tasks : ~TaskHolds(t, s)
    BY <2>1, ClaimableIsFree
  <2>3. CASE z = s
    BY <1>1, <1>2, <2>2, <2>3 DEF SlotFree, SlotCarried, TaskHolds, Alive
  <2>4. CASE z # s
    BY <1>1, <2>1, <2>4 DEF SlotInv, SlotFree, SlotCarried, TaskHolds, Alive
  <2>5. QED
    BY <2>3, <2>4
<1>5. QED
  BY <1>1, <1>3, <1>4 DEF SlotInv

LEMMA SlotWorkerStep ==
    ASSUME TypeOK, LockInv, SlotInv, Latch, NEW w \in Workers, WorkerStep(w)
    PROVE  SlotInv'
<1>1. now \in Nat /\ \A t \in Tasks : task[t] \in TaskType
  BY DEF TypeOK
<1>2. CASE Start(w) \/ Stop(w) \/ Stopped(w) \/ LoopExit(w)
  <2>1. UNCHANGED <<now, row, served, task>>
    BY <1>2 DEF Start, Stop, Stopped, LoopExit
  <2>2. QED
    BY <1>1, <2>1, SlotKept
<1>3. CASE StopTimeout(w) \/ CancelInFlight(w)
  <2>1. UNCHANGED <<now, row, served>> /\ task' = CancelAll(w)
    BY <1>3 DEF StopTimeout, CancelInFlight
  <2>2. \A t \in Tasks : /\ SameExecution(task[t], task'[t])
                         /\ task'[t].pc = task[t].pc /\ task'[t].next = task[t].next
    BY <2>1, CancelAllAt
  <2>3. QED
    BY <1>1, <2>1, <2>2, SlotKept DEF SameExecution
<1>4. CASE Crash(w)
  <2>1. UNCHANGED <<now, row, served>>
    BY <1>4 DEF Crash
  <2>2. \A t \in Tasks : Alive(t)' => task'[t] = task[t]
    BY <1>4 DEF Crash, Alive, Idle
  <2>3. QED
    BY <1>1, <2>1, <2>2, SlotKept
<1>5. ASSUME NEW s \in Schedules, ClaimAtomic(w, s)
      PROVE  SlotInv'
  <2>1. /\ row[s].st = "live" /\ Claimable(s, now)
        /\ task' = task /\ now' = now /\ Stamp(w, s, now)
    BY <1>5 DEF ClaimAtomic, Selected, Due
  <2>2. QED
    BY <1>1, <2>1, SlotClaim
<1>6. CASE ClaimLost(w) \/ \E s \in Schedules : ClaimSelect(w, s)
  <2>1. UNCHANGED <<now, row, served, task>>
    BY <1>6 DEF ClaimLost, ClaimSelect
  <2>2. QED
    BY <1>1, <2>1, SlotKept
<1>7. CASE ClaimUpdate(w)
  <2>1. PICK s \in Schedules : s = pick[w].sid
    BY <1>7 DEF ClaimUpdate, TypeOK
  <2>2. PICK stamp \in Nat : stamp = pick[w].at /\ stamp <= now
    BY <1>7 DEF ClaimUpdate, TypeOK, PickType
  <2>3. /\ row[s].st = "live" /\ Claimable(s, stamp)
        /\ task' = task /\ now' = now /\ Stamp(w, s, stamp)
    BY <1>7, <2>1, <2>2 DEF ClaimUpdate
  <2>4. QED
    BY <2>1, <2>2, <2>3, SlotClaim
<1>8. ASSUME NEW t \in Tasks, NEW r, r.pc = "create", task' = [task EXCEPT ![t] = r],
             UNCHANGED <<now, row, served>>
      PROVE  SlotInv'
  <2>1. \A u \in Tasks : task'[u].pc \in Leaving => task'[u] = task[u]
    BY <1>8 DEF Leaving, TypeOK
  <2>2. QED
    BY <1>1, <1>8, <2>1, SlotKept
<1>9. ASSUME NEW t \in Tasks, Spawn(w, t)
      PROVE  SlotInv'
  <2>. DEFINE r == NewTask(w, pick[w].sid, pick[w].cron, pick[w].at, TRUE, TRUE)
  <2>1. r.pc = "create"
    BY DEF NewTask, Idle
  <2>2. task' = [task EXCEPT ![t] = r] /\ UNCHANGED <<now, row, served>>
    BY <1>9 DEF Spawn
  <2>. HIDE DEF r
  <2>3. QED
    BY <1>8, <2>1, <2>2
<1>10. ASSUME NEW s \in Schedules, NEW t \in Tasks, NEW tracked \in BOOLEAN,
              Trigger(w, s, t, tracked)
       PROVE  SlotInv'
  <2>. DEFINE r == NewTask(w, s, row[s].cron, 0, FALSE, tracked)
  <2>1. r.pc = "create"
    BY DEF NewTask, Idle
  <2>2. task' = [task EXCEPT ![t] = r] /\ UNCHANGED <<now, row, served>>
    BY <1>10 DEF Trigger
  <2>. HIDE DEF r
  <2>3. QED
    BY <1>8, <2>1, <2>2
<1>11. QED
  BY <1>2, <1>3, <1>4, <1>5, <1>6, <1>7, <1>9, <1>10
     DEF WorkerStep, PollStep, ClaimStep, StopStep

LEMMA SlotTaskStep ==
    ASSUME ~DbFaults, TypeOK, TypeOK', LockInv, SlotInv, Latch,
           NEW t \in Tasks, NEW q, Becomes(t, q)
    PROVE  SlotInv'
<1>. DEFINE r == task[t]
<1>1. /\ r \in TaskType /\ r.pc # "idle" /\ r.sid \in Schedules
      /\ task' = [task EXCEPT ![t] = q] /\ task'[t] = q /\ now' = now /\ served' = served
      /\ \A u \in Tasks \ {t} : task'[u] = task[u]
  BY DEF TypeOK, Becomes, BodyStep, DisableStep, ReleaseStep, Leaving, Alive
<1>2. \A s \in Schedules : /\ served[s] \in Nat /\ now \in Nat /\ served[s] <= now
                           /\ row[s].next \in Nat /\ row'[s].next \in Nat
  BY DEF TypeOK, RowType, SlotInv
<1>3. Idle.pc = "idle"
  BY DEF Idle
<1>4. q.pc = "disable" => q.next = NoNext
  BY <1>1, <1>3 DEF Becomes, BodyStep, DisableStep, ReleaseStep, NextComputed, TaskType
<1>5. \A u \in Tasks : task'[u].pc = "disable" => task'[u].next = NoNext
  BY <1>1, <1>4 DEF SlotInv
<1>6. CASE row' = row /\ (q = Idle \/ (r.pc \notin Leaving /\ NextComputed(q)))
  <2>1. ASSUME ~overran', NEW s \in Schedules
        PROVE  SlotFree(s)' /\ \A u \in Tasks : SlotCarried(u, s)'
    <3>1. SlotFree(s) /\ \A u \in Tasks : SlotCarried(u, s)
      BY <2>1 DEF SlotInv, Latch
    <3>2. SlotFree(s)'
      BY <1>1, <1>6, <3>1 DEF SlotFree
    <3>3. ASSUME NEW u \in Tasks \ {t}
          PROVE  SlotCarried(u, s)'
      BY <1>1, <1>6, <3>1 DEF SlotCarried, TaskHolds, Alive
    <3>4. q.pc = "release" => q.next > served[s]
      <4>1. CASE q = Idle
        BY <1>3, <4>1
      <4>2. CASE NextComputed(q)
        <5>1. q.next \in Nat \/ q.pc # "release"
          BY <1>1 DEF TypeOK, TaskType
        <5>2. QED
          BY <1>2, <4>2, <5>1 DEF NextComputed
      <4>3. QED
        BY <1>6, <4>1, <4>2
    <3>5. q.pc = "release" => q.next # NoNext
      BY <1>2, <3>4 DEF NoNext
    <3>6. SlotCarried(t, s)'
      BY <1>1, <3>4, <3>5 DEF SlotCarried
    <3>7. QED
      BY <3>2, <3>3, <3>6
  <2>2. \A s \in Schedules : row'[s].st # "live" => ~row'[s].enabled
    BY <1>6 DEF SlotInv
  <2>3. QED
    BY <1>1, <1>2, <1>5, <2>1, <2>2 DEF SlotInv
<1>7. CASE /\ row' = Disabled(r.sid) /\ r.pc = "disable"
           /\ q = Idle \/ q = [r EXCEPT !.pc = "release"]
  <2>1. /\ \A s \in Schedules :
              /\ row'[s].enabled => row[s].enabled
              /\ row'[s].st = row[s].st
              /\ row'[s].by = row[s].by /\ row'[s].next = row[s].next
        /\ ~row'[r.sid].enabled
    <3>1. CASE row[r.sid].st = "live"
      <4>. DEFINE new == [row[r.sid] EXCEPT !.enabled = FALSE]
      <4>1. row[r.sid] \in RowType /\ row \in [Schedules -> RowType]
        BY <1>1 DEF TypeOK
      <4>2. row' = [row EXCEPT ![r.sid] = new]
        BY <1>7, <3>1, <4>1 DEF Disabled
      <4>3. /\ new.enabled = FALSE /\ new.st = row[r.sid].st
            /\ new.by = row[r.sid].by /\ new.next = row[r.sid].next
        BY <4>1 DEF RowType
      <4>. HIDE DEF new
      <4>4. QED
        BY <1>1, <4>1, <4>2, <4>3
    <3>2. CASE row[r.sid].st # "live"
      BY <1>1, <1>7, <3>2 DEF Disabled, SlotInv
    <3>3. QED
      BY <3>1, <3>2
  <2>2. ASSUME ~overran', NEW s \in Schedules
        PROVE  SlotFree(s)' /\ \A u \in Tasks : SlotCarried(u, s)'
    <3>1. SlotFree(s) /\ \A u \in Tasks : SlotCarried(u, s)
      BY <2>2 DEF SlotInv, Latch
    <3>2. SlotFree(s)'
      BY <1>1, <2>1, <3>1 DEF SlotFree
    <3>3. ASSUME NEW u \in Tasks \ {t}
          PROVE  SlotCarried(u, s)'
      BY <1>1, <2>1, <3>1 DEF SlotCarried, TaskHolds, Alive
    <3>4. q = Idle \/ (q.sid = r.sid /\ q.next = NoNext)
      BY <1>1, <1>7 DEF SlotInv, TaskType
    <3>5. SlotCarried(t, s)'
      BY <1>1, <1>3, <2>1, <3>4 DEF SlotCarried, TaskHolds, Alive
    <3>6. QED
      BY <3>2, <3>3, <3>5
  <2>3. QED
    BY <1>1, <1>2, <1>5, <2>1, <2>2 DEF SlotInv
<1>8. CASE row' = Released(r.sid, r.next) /\ row' # row /\ r.pc = "release" /\ q = Idle
  <2>. DEFINE new == [row[r.sid] EXCEPT !.by = None, !.at = 0,
                         !.next = IF r.next = NoNext THEN @ ELSE r.next]
  <2>1. row[r.sid].st = "live" /\ row[r.sid] \in RowType /\ row \in [Schedules -> RowType]
    BY <1>1, <1>8 DEF Released, TypeOK
  <2>2. row' = [row EXCEPT ![r.sid] = new]
    BY <1>8, <2>1 DEF Released
  <2>3. /\ new.enabled = row[r.sid].enabled /\ new.st = "live"
        /\ new.next = IF r.next = NoNext THEN row[r.sid].next ELSE r.next
    BY <2>1 DEF RowType
  <2>. HIDE DEF new
  <2>4. row'[r.sid] = new /\ \A s \in Schedules \ {r.sid} : row'[s] = row[s]
    BY <1>1, <2>1, <2>2
  <2>5. TaskHolds(t, r.sid)
    BY <1>1, <1>8 DEF TypeOK, TaskHolds, Alive
  <2>6. ASSUME ~overran', NEW s \in Schedules
        PROVE  SlotFree(s)' /\ \A u \in Tasks : SlotCarried(u, s)'
    <3>1. /\ SlotFree(s) /\ \A u \in Tasks : SlotCarried(u, s)
          /\ OneClaimPerSchedule
      BY <2>6 DEF SlotInv, LockInv, Latch
    <3>2. SlotFree(s)'
      <4>1. CASE s = r.sid
        <5>1. row'[s].enabled => row'[s].next > served[s]
          BY <1>8, <2>3, <2>4, <2>5, <3>1, <4>1 DEF SlotCarried
        <5>2. QED
          BY <1>1, <5>1 DEF SlotFree
      <4>2. CASE s # r.sid
        BY <1>1, <2>4, <3>1, <4>2 DEF SlotFree
      <4>3. QED
        BY <4>1, <4>2
    <3>3. ASSUME NEW u \in Tasks \ {t}
          PROVE  SlotCarried(u, s)'
      <4>1. TaskHolds(u, s)' => TaskHolds(u, s)
        BY <1>1 DEF TaskHolds, Alive
      <4>2. TaskHolds(u, s)' => s # r.sid
        BY <2>5, <3>1, <4>1 DEF OneClaimPerSchedule
      <4>3. QED
        BY <1>1, <2>4, <3>1, <4>1, <4>2 DEF SlotCarried
    <3>4. SlotCarried(t, s)'
      BY <1>1, <1>3, <1>8 DEF SlotCarried
    <3>5. QED
      BY <3>2, <3>3, <3>4
  <2>7. \A s \in Schedules : row'[s].st # "live" => ~row'[s].enabled
    BY <2>3, <2>4 DEF SlotInv
  <2>8. QED
    BY <1>1, <1>2, <1>5, <2>6, <2>7 DEF SlotInv
<1>9. CASE BodyStep(t, q)
  BY <1>6, <1>9 DEF BodyStep
<1>10. CASE DisableStep(t, q)
  <2>1. row' = row \/ row' = Disabled(r.sid)
    BY <1>10 DEF DisableStep, Lost
  <2>2. r.pc = "disable" /\ (q = Idle \/ q = [r EXCEPT !.pc = "release"])
    BY <1>10 DEF DisableStep
  <2>3. q # Idle => row' = Disabled(r.sid)
    BY <1>10 DEF DisableStep, Lost
  <2>4. QED
    BY <1>6, <1>7, <2>1, <2>2, <2>3
<1>11. CASE ReleaseStep(t, q)
  <2>1. /\ q = Idle /\ r.pc = "release"
        /\ row' = row \/ row' = Released(r.sid, r.next)
    BY <1>11 DEF ReleaseStep
  <2>2. QED
    BY <1>6, <1>8, <2>1
<1>12. QED
  BY <1>9, <1>10, <1>11 DEF Becomes

LEMMA SlotStep ==
    ~DbFaults /\ TypeOK /\ TypeOK' /\ LockInv /\ SlotInv /\ [Next]_vars => SlotInv'
<1>. SUFFICES ASSUME ~DbFaults, TypeOK, TypeOK', LockInv, SlotInv, [Next]_vars PROVE SlotInv'
  OBVIOUS
<1>1. CASE UNCHANGED vars
  BY <1>1 DEF vars, SlotInv, SlotFree, SlotCarried, TaskHolds, Alive
<1>2. CASE Tick /\ Latch
  <2>1. now' \in Nat /\ now' >= now /\ UNCHANGED <<row, served, task>>
    BY <1>2 DEF Tick, TypeOK
  <2>2. QED
    BY <1>2, <2>1, SlotKept
<1>3. ASSUME NEW t \in Tasks, TaskStep(t), Latch
      PROVE  SlotInv'
  <2>1. PICK q : Becomes(t, q)
    BY <1>3, TaskBecomes
  <2>2. QED
    BY <1>3, <2>1, SlotTaskStep
<1>4. QED
  BY <1>1, <1>2, <1>3, SlotManagement, SlotWorkerStep DEF Next, Step

(* When every UPDATE is written, a schedule is not due again for a time it   *)
(* was claimed at or before: after any way an execution may end, it waits    *)
(* for a later one, is disabled, or stays locked until the lock is stale.    *)
THEOREM NextRunMovesOn == ASSUME ~DbFaults PROVE Spec => []ServedIsNotDue
<1>1. SlotInv => ServedIsNotDue
  BY DEF SlotInv, SlotFree, ServedIsNotDue
<1>2. TypeOK /\ TypeOK' /\ LockInv /\ SlotInv /\ [Next]_vars => SlotInv'
  BY SlotStep
<1>3. Spec => []TypeOK /\ []LockInv
  BY TypeCorrect, LockAlways, PTL
<1>4. Spec => []SlotInv
  BY <1>2, <1>3, SlotInit, PTL DEF Spec
<1>5. QED
  BY <1>1, <1>4, PTL
=============================================================================
