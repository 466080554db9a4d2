------------------------- MODULE SchedulerRefinement -------------------------
(* Scheduler implements ScheduleLease, for any number of workers, schedules *)
(* and tasks.                                                               *)
EXTENDS SchedulerProofs

(* What a step does to the slot of a task, as far as claims are concerned. *)
SlotStep(t, q) ==
    /\ KeepsClaim(task[t], q)
    /\ task' = [task EXCEPT ![t] = q]
    /\ UNCHANGED <<now, loop, pick>>

(* Every step of a task keeps its claim or ends it. *)
LEMMA TaskActionsKeep ==
    ASSUME TypeOK, NEW t \in Tasks, TaskStep(t)
    PROVE  \E q : SlotStep(t, q)
<1>. DEFINE r == task[t]
<1>1. r \in TaskType
  BY DEF TypeOK
<1>2. r.result \in RunStatuses /\ "cancelled" \in RunStatuses
  BY <1>1 DEF TaskType, RunStatuses
<1>3. \A q : KeepsClaim(r, q) /\ StepTask(t, q) => SlotStep(t, q)
  BY DEF SlotStep, StepTask
<1>4. \A q, newRow : KeepsClaim(r, q) /\ WriteRow(t, q, newRow) => SlotStep(t, q)
  BY DEF SlotStep, WriteRow
<1>5. KeepsClaim(r, Idle)
  BY DEF KeepsClaim
<1>6. CASE CreateRun(t)
  <2>. DEFINE q == [r EXCEPT !.runs[r.attempt] = "running", !.pc = "call"]
  <2>1. KeepsClaim(r, q)
    BY <1>1, <1>6 DEF KeepsClaim, CreateRun, Running, TaskType
  <2>2. StepTask(t, q)
    BY <1>6 DEF CreateRun
  <2>. HIDE DEF q
  <2>3. QED
    BY <1>3, <2>1, <2>2
<1>7. ASSUME NEW result \in Results, CallEnds(t, result)
       PROVE  \E q : SlotStep(t, q)
  <2>. DEFINE q == [r EXCEPT !.result = result, !.pc = "record"]
  <2>1. KeepsClaim(r, q)
    BY <1>1, <1>7 DEF KeepsClaim, CallEnds, Running, TaskType
  <2>2. StepTask(t, q)
    BY <1>7 DEF CallEnds
  <2>. HIDE DEF q
  <2>3. QED
    BY <1>3, <2>1, <2>2
<1>8. CASE Retry(t)
  <2>. DEFINE q == [r EXCEPT !.attempt = @ + 1, !.pc = "create"]
  <2>1. KeepsClaim(r, q)
    BY <1>1, <1>8 DEF KeepsClaim, Retry, Running, TaskType
  <2>2. StepTask(t, q)
    BY <1>8 DEF Retry
  <2>. HIDE DEF q
  <2>3. QED
    BY <1>3, <2>1, <2>2
<1>9. CASE RecordRun(t)
  <2>. DEFINE q == SetRun(r, r.result)
  <2>1. r.pc # "idle" /\ StepTask(t, AfterRecord(q))
    BY <1>9 DEF RecordRun, Running
  <2>2. /\ q \in TaskType /\ q.pc = r.pc /\ q.lock = r.lock /\ q.sid = r.sid
        /\ q.w = r.w /\ q.at = r.at
    BY <1>1, <1>2, SetRunKeeps
  <2>. HIDE DEF q
  <2>3. KeepsClaim(r, AfterRecord(q))
    BY <2>1, <2>2, AfterRecordKeeps DEF KeepsClaim
  <2>4. QED
    BY <1>3, <2>1, <2>3
<1>10. CASE MarkCancelled(t)
  <2>. DEFINE q == SetRun(r, "cancelled")
  <2>1. r.pc # "idle" /\ StepTask(t, Finally(q))
    BY <1>10 DEF MarkCancelled, Running
  <2>2. /\ q \in TaskType /\ q.pc = r.pc /\ q.lock = r.lock /\ q.sid = r.sid
        /\ q.w = r.w /\ q.at = r.at
    BY <1>1, <1>2, SetRunKeeps
  <2>. HIDE DEF q
  <2>3. KeepsClaim(r, Finally(q))
    BY <2>1, <2>2, FinallyKeeps DEF KeepsClaim
  <2>4. QED
    BY <1>3, <2>1, <2>3
<1>11. CASE CreateRunFails(t) \/ MarkCancelledFails(t)
  BY <1>1, <1>3, <1>11, FinallyKeeps DEF CreateRunFails, MarkCancelledFails, Running
<1>12. CASE RecordRunFails(t)
  BY <1>1, <1>3, <1>12, AfterRecordKeeps DEF RecordRunFails, Running
<1>13. CASE DisableBroken(t)
  <2>. DEFINE q == [r EXCEPT !.pc = "release"]
  <2>1. KeepsClaim(r, q)
    BY <1>1, <1>13 DEF KeepsClaim, DisableBroken, Running, TaskType
  <2>2. PICK newRow : WriteRow(t, q, newRow)
    BY <1>13 DEF DisableBroken
  <2>3. QED
    BY <1>4, <2>1, <2>2
<1>14. CASE Release(t) \/ CancelInFinally(t)
  <2>1. PICK newRow : WriteRow(t, Idle, newRow)
    BY <1>14 DEF Release, CancelInFinally
  <2>2. QED
    BY <1>4, <1>5, <2>1
<1>15. CASE CancelInBody(t)
  <2>1. r.pc # "idle"
    BY <1>15 DEF CancelInBody, BodyStates
  <2>2. PICK q : /\ \/ q = r
                    \/ q = [r EXCEPT !.runs[r.attempt] = "running"]
                    \/ q = SetRun(r, r.result)
                 /\ StepTask(t, [q EXCEPT !.pc = "mark", !.cancel = FALSE])
    BY <1>15 DEF CancelInBody
  <2>3. q \in TaskType /\ q.lock = r.lock /\ q.sid = r.sid /\ q.w = r.w /\ q.at = r.at
    <3>1. CASE q = [r EXCEPT !.runs[r.attempt] = "running"]
      BY <1>1, <3>1 DEF TaskType, RunStatuses
    <3>2. QED
      BY <1>1, <1>2, <2>2, <3>1, SetRunKeeps
  <2>4. KeepsClaim(r, [q EXCEPT !.pc = "mark", !.cancel = FALSE])
    BY <2>1, <2>3 DEF KeepsClaim, TaskType
  <2>5. QED
    BY <1>3, <2>2, <2>4
<1>16. CASE CancelInMark(t)
  <2>1. r.pc # "idle"
    BY <1>16 DEF CancelInMark
  <2>2. PICK q \in {r, SetRun(r, "cancelled")} :
               StepTask(t, Finally([q EXCEPT !.cancel = FALSE]))
    BY <1>16 DEF CancelInMark
  <2>. DEFINE p == [q EXCEPT !.cancel = FALSE]
  <2>3. q \in TaskType /\ q.pc = r.pc /\ q.lock = r.lock /\ q.sid = r.sid /\ q.w = r.w
        /\ q.at = r.at
    BY <1>1, <1>2, <2>2, SetRunKeeps
  <2>4. p \in TaskType /\ p.pc = r.pc /\ p.lock = r.lock /\ p.sid = r.sid /\ p.w = r.w
        /\ p.at = r.at
    BY <2>3 DEF TaskType
  <2>5. StepTask(t, Finally(p))
    BY <2>2
  <2>. HIDE DEF p
  <2>6. KeepsClaim(r, Finally(p))
    BY <2>1, <2>4, FinallyKeeps DEF KeepsClaim
  <2>7. QED
    BY <1>3, <2>5, <2>6
<1>17. QED
  BY <1>6, <1>9, <1>10, <1>11, <1>12, <1>13, <1>14, <1>15, <1>16, <1>7, <1>8 DEF TaskStep

-----------------------------------------------------------------------------
(* No claim is made, renewed or handed over, and the clock stands still. *)
Kept ==
    /\ \A t \in Tasks, s \in Schedules : TaskHolds(t, s)' =>
          TaskHolds(t, s) /\ task'[t].w = task[t].w /\ task'[t].at = task[t].at
    /\ \A w \in Workers, s \in Schedules : LoopHolds(w, s)' =>
          LoopHolds(w, s) /\ pick'[w].at = pick[w].at
    /\ now' = now

LEMMA TaskStepKept ==
    ASSUME TypeOK, NEW t \in Tasks, TaskStep(t)
    PROVE  Kept
<1>1. PICK q : SlotStep(t, q)
  BY TaskActionsKeep
<1>2. task \in [Tasks -> TaskType]
  BY DEF TypeOK
<1>3. ASSUME NEW u \in Tasks, NEW s \in Schedules, TaskHolds(u, s)'
      PROVE  TaskHolds(u, s) /\ task'[u].w = task[u].w /\ task'[u].at = task[u].at
  BY <1>1, <1>2, <1>3 DEF SlotStep, TaskHolds, Alive, KeepsClaim, Idle
<1>4. QED
  BY <1>1, <1>3 DEF Kept, SlotStep, LoopHolds

LEMMA ManagementKept ==
    ASSUME TypeOK, Management
    PROVE  Kept
<1>1. UNCHANGED <<now, loop, pick>>
  BY DEF Management, Create, Delete, Enable, Disable, PatchCron, ManagerUpdate
<1>2. ASSUME NEW t \in Tasks
      PROVE  /\ task'[t].pc = task[t].pc /\ task'[t].lock = task[t].lock
             /\ task'[t].sid = task[t].sid
             /\ task'[t].w = task[t].w /\ task'[t].at = task[t].at
  <2>1. ASSUME NEW s \in Schedules, Delete(s)
        PROVE  task'[t] = task[t] \/ task'[t] = [task[t] EXCEPT !.runs = NoRuns]
    BY <2>1 DEF Delete
  <2>2. task' = task \/ \E s \in Schedules : Delete(s)
    BY DEF Management, Create, Enable, Disable, PatchCron, ManagerUpdate
  <2>3. task'[t] = task[t] \/ task'[t] = [task[t] EXCEPT !.runs = NoRuns]
    BY <2>1, <2>2
  <2>4. task[t] \in TaskType
    BY DEF TypeOK
  <2>5. QED
    BY <2>3, <2>4 DEF TaskType
<1>3. QED
  BY <1>1, <1>2 DEF Kept, TaskHolds, LoopHolds, Alive

(* The slot that a poller fills, or a trigger, held no claim before. *)
LEMMA WorkerKept ==
    ASSUME TypeOK, NEW w \in Workers,
           \/ Start(w) \/ Stop(w) \/ StopTimeout(w) \/ Crash(w) \/ StopStep(w) \/ ClaimLost(w)
           \/ \E s \in Schedules : ClaimSelect(w, s)
           \/ \E s \in Schedules, t \in Tasks, tracked \in BOOLEAN : Trigger(w, s, t, tracked)
    PROVE  Kept
<1>1. loop \in [Workers -> LoopStates] /\ pick \in [Workers -> PickType]
  BY DEF TypeOK
<1>2. task \in [Tasks -> TaskType]
  BY DEF TypeOK
<1>3. now' = now
  BY DEF Start, Stop, StopTimeout, Crash, StopStep, LoopExit, CancelInFlight, Stopped,
         ClaimLost, ClaimSelect, Trigger
<1>4. \A v \in Workers : loop'[v] = "spawn" => loop[v] = "spawn" /\ pick'[v] = pick[v]
  BY <1>1 DEF Start, Stop, StopTimeout, Crash, StopStep, LoopExit, CancelInFlight, Stopped,
              ClaimLost, ClaimSelect, Trigger
<1>5. \A v \in Workers, s \in Schedules : LoopHolds(v, s)' =>
          LoopHolds(v, s) /\ pick'[v].at = pick[v].at
  BY <1>4 DEF LoopHolds
<1>6. SUFFICES ASSUME NEW t \in Tasks, NEW s \in Schedules, TaskHolds(t, s)'
               PROVE  TaskHolds(t, s) /\ task'[t].w = task[t].w /\ task'[t].at = task[t].at
  BY <1>3, <1>5 DEF Kept
<1>7. CASE task'[t] = task[t] \/ task'[t] = Idle \/ SameButCancel(task'[t], task[t])
  <2>1. task'[t].pc # "idle" /\ task'[t].lock /\ task'[t].sid = s
    BY <1>6 DEF TaskHolds, Alive
  <2>2. CASE task'[t] = task[t]
    BY <2>1, <2>2 DEF TaskHolds, Alive
  <2>3. CASE SameButCancel(task'[t], task[t])
    <3>1. /\ task[t].pc # "idle" /\ task[t].lock /\ task[t].sid = s
          /\ task'[t].w = task[t].w /\ task'[t].at = task[t].at
      BY <2>1, <2>3, Zenon DEF SameButCancel
    <3>2. QED
      BY <3>1 DEF TaskHolds, Alive
  <2>4. task'[t] # Idle
    BY <2>1 DEF Idle
  <2>5. QED
    BY <1>7, <2>2, <2>3, <2>4
<1>8. ASSUME NEW z \in Schedules, NEW u \in Tasks, NEW tracked \in BOOLEAN,
             Trigger(w, z, u, tracked)
      PROVE  task'[t] = task[t]
  <2>. DEFINE r == NewTask(w, z, row[z].cron, 0, FALSE, tracked)
  <2>1. r.lock = FALSE
    BY DEF NewTask, Idle
  <2>2. task' = [task EXCEPT ![u] = r]
    BY <1>8 DEF Trigger
  <2>. HIDE DEF r
  <2>3. task'[t] = IF t = u THEN r ELSE task[t]
    BY <1>2, <2>2
  <2>4. QED
    BY <1>6, <2>1, <2>3 DEF TaskHolds
<1>9. CASE StopTimeout(w) \/ CancelInFlight(w)
  <2>1. SameButCancel(task'[t], task[t])
    BY <1>2, <1>9, CancelAllType DEF StopTimeout, CancelInFlight
  <2>2. QED
    BY <1>7, <2>1
<1>10. CASE Crash(w)
  BY <1>7, <1>10 DEF Crash
<1>11. QED
  BY <1>7, <1>8, <1>9, <1>10 DEF Start, Stop, StopStep, LoopExit, Stopped, ClaimLost, ClaimSelect

-----------------------------------------------------------------------------
(* The steps of the abstract specification. *)

LEMMA HoldersOf ==
    ASSUME NEW s \in Schedules
    PROVE  Holders[s] = ClaimsOf(s) /\ Holders'[s] = ClaimsOf(s)'
  BY DEF Holders

LEMMA KeptEnds ==
    ASSUME Kept
    PROVE  Lease!End
<1>1. ASSUME NEW s \in Schedules
      PROVE  ClaimsOf(s)' \subseteq ClaimsOf(s)
  <2>1. \A w \in Workers : LoopHolds(w, s)' =>
            [w |-> w, at |-> pick'[w].at] \in ClaimsOf(s)
    BY DEF Kept, ClaimsOf
  <2>2. \A t \in Tasks : TaskHolds(t, s)' =>
            [w |-> task'[t].w, at |-> task'[t].at] \in ClaimsOf(s)
    BY DEF Kept, ClaimsOf
  <2>3. QED
    BY <2>1, <2>2 DEF ClaimsOf
<1>2. DOMAIN Holders' = Schedules
  BY DEF Holders
<1>3. QED
  BY <1>1, <1>2, HoldersOf DEF Lease!End, Kept

(* A claim passes from the poller to its task: the holders stay the same. *)
LEMMA SpawnEnds ==
    ASSUME TypeOK, NEW w \in Workers, NEW t \in Tasks, Spawn(w, t)
    PROVE  Lease!End
<1>1. task \in [Tasks -> TaskType] /\ loop \in [Workers -> LoopStates] /\ pick \in [Workers -> PickType]
  BY DEF TypeOK
<1>2. PICK own \in Schedules : own = pick[w].sid /\ LoopHolds(w, own)
  BY DEF TypeOK, Spawn, LoopHolds
<1>3. /\ task'[t].sid = own /\ task'[t].w = w /\ task'[t].at = pick[w].at
      /\ \A u \in Tasks \ {t} : task'[u] = task[u]
  <2>. DEFINE r == NewTask(w, pick[w].sid, pick[w].cron, pick[w].at, TRUE, TRUE)
  <2>1. r.sid = own /\ r.w = w /\ r.at = pick[w].at
    BY <1>2 DEF NewTask, Idle
  <2>2. task' = [task EXCEPT ![t] = r]
    BY DEF Spawn
  <2>. HIDE DEF r
  <2>3. QED
    BY <1>1, <2>1, <2>2
<1>4. /\ \A v \in Workers \ {w} : loop'[v] = loop[v] /\ pick'[v] = pick[v]
      /\ loop'[w] = "poll" /\ now' = now
  BY <1>1 DEF Spawn
<1>5. ASSUME NEW s \in Schedules
      PROVE  ClaimsOf(s)' \subseteq ClaimsOf(s)
  <2>1. \A v \in Workers : LoopHolds(v, s)' =>
            [w |-> v, at |-> pick'[v].at] \in ClaimsOf(s)
    BY <1>4 DEF LoopHolds, ClaimsOf
  <2>2. ASSUME NEW u \in Tasks, TaskHolds(u, s)'
        PROVE  [w |-> task'[u].w, at |-> task'[u].at] \in ClaimsOf(s)
    <3>1. CASE u = t
      <4>1. s = own /\ [w |-> task'[u].w, at |-> task'[u].at] = [w |-> w, at |-> pick[w].at]
        BY <1>3, <2>2, <3>1 DEF TaskHolds
      <4>2. QED
        BY <1>2, <4>1 DEF ClaimsOf
    <3>2. CASE u # t
      BY <1>3, <2>2, <3>2 DEF TaskHolds, Alive, ClaimsOf
    <3>3. QED
      BY <3>1, <3>2
  <2>3. QED
    BY <2>1, <2>2 DEF ClaimsOf
<1>6. DOMAIN Holders' = Schedules
  BY DEF Holders
<1>7. QED
  BY <1>4, <1>5, <1>6, HoldersOf DEF Lease!End

(* A claim is made on a schedule that has none, unless one has expired. *)
LEMMA ClaimAcquires ==
    ASSUME TypeOK, LockInv, NEW w \in Workers, NEW s \in Schedules,
           NEW stamp \in Nat, stamp <= now, row[s].st = "live", Claimable(s, stamp),
           Stamp(w, s, stamp), loop[w] # "spawn",
           pick'[w].sid = s, pick'[w].at = stamp,
           \A v \in Workers \ {w} : pick'[v] = pick[v],
           task' = task, now' = now
    PROVE  Lease!Acquire(s, [w |-> w, at |-> stamp])
<1>1. \A t \in Tasks, z \in Schedules : TaskHolds(t, z)' <=> TaskHolds(t, z)
  BY DEF TaskHolds, Alive
<1>2. \A v \in Workers, z \in Schedules :
          LoopHolds(v, z)' <=> LoopHolds(v, z) \/ (v = w /\ z = s)
  BY DEF LoopHolds, Stamp, TypeOK
<1>3. \A v \in Workers, z \in Schedules : LoopHolds(v, z) => pick'[v] = pick[v]
  BY DEF LoopHolds
<1>4. overran \/ ClaimsOf(s) = {}
  <2>1. ~overran => /\ \A t \in Tasks : ~TaskHolds(t, s)
                    /\ \A v \in Workers : ~LoopHolds(v, s)
    BY ClaimableIsFree
  <2>2. QED
    BY <2>1 DEF ClaimsOf
<1>5. ASSUME NEW z \in Schedules
      PROVE  ClaimsOf(z)' = IF z = s THEN ClaimsOf(z) \cup {[w |-> w, at |-> stamp]} ELSE ClaimsOf(z)
  <2>1. {[w |-> task[t].w, at |-> task[t].at] : t \in {u \in Tasks : TaskHolds(u, z)}}'
          = {[w |-> task[t].w, at |-> task[t].at] : t \in {u \in Tasks : TaskHolds(u, z)}}
    BY <1>1
  <2>2. {[w |-> v, at |-> pick[v].at] : v \in {u \in Workers : LoopHolds(u, z)}}'
          = {[w |-> v, at |-> pick[v].at] : v \in {u \in Workers : LoopHolds(u, z)}}
              \cup (IF z = s THEN {[w |-> w, at |-> stamp]} ELSE {})
    BY <1>2, <1>3
  <2>3. QED
    BY <2>1, <2>2 DEF ClaimsOf
<1>6. Holders' = [Holders EXCEPT ![s] = @ \cup {[w |-> w, at |-> stamp]}]
  BY <1>5 DEF Holders
<1>7. QED
  BY <1>4, <1>6, HoldersOf DEF Lease!Acquire

(* Expired is what the history variable latches. *)
LEMMA LatchMatches ==
    ASSUME TypeOK
    PROVE  Lease!Expired <=> OverranNow
<1>1. ASSUME NEW w \in Workers, loop[w] = "spawn", pick[w].at + Grace <= now
      PROVE  Lease!Expired
  <2>1. PICK s \in Schedules : s = pick[w].sid
    BY <1>1 DEF TypeOK
  <2>2. [w |-> w, at |-> pick[w].at] \in Holders[s]
    BY <1>1, <2>1, HoldersOf DEF ClaimsOf, LoopHolds
  <2>3. QED
    BY <1>1, <2>2 DEF Lease!Expired
<1>2. ASSUME NEW t \in Tasks, Alive(t), task[t].lock, task[t].at + Grace <= now
      PROVE  Lease!Expired
  <2>1. PICK s \in Schedules : s = task[t].sid
    BY <1>2 DEF TypeOK
  <2>2. [w |-> task[t].w, at |-> task[t].at] \in Holders[s]
    BY <1>2, <2>1, HoldersOf DEF ClaimsOf, TaskHolds
  <2>3. QED
    BY <1>2, <2>2 DEF Lease!Expired
<1>3. ASSUME NEW s \in Schedules, NEW claim \in Holders[s], claim.at + Grace <= now
      PROVE  OverranNow
  <2>1. claim \in ClaimsOf(s)
    BY <1>3, HoldersOf
  <2>2. \/ \E w \in Workers : LoopHolds(w, s) /\ claim.at = pick[w].at
        \/ \E t \in Tasks : TaskHolds(t, s) /\ claim.at = task[t].at
    BY <2>1 DEF ClaimsOf
  <2>3. QED
    BY <1>3, <2>2 DEF OverranNow, LoopHolds, TaskHolds
<1>4. QED
  BY <1>1, <1>2, <1>3 DEF Lease!Expired, OverranNow

LEMMA LeaseInit == Init => Lease!Init
<1>. SUFFICES ASSUME Init PROVE Lease!Init
  OBVIOUS
<1>1. \A s \in Schedules : ClaimsOf(s) = {}
  BY DEF Init, ClaimsOf, LoopHolds, TaskHolds, Alive, Idle
<1>2. Holders = [s \in Schedules |-> {}]
  BY <1>1 DEF Holders
<1>3. QED
  BY <1>2 DEF Init, Lease!Init

LEMMA WorkerLease ==
    ASSUME TypeOK, LockInv, NEW w \in Workers, WorkerStep(w)
    PROVE  \/ Lease!End
           \/ \E s \in Schedules, claim \in [w : Workers, at : 0..now] : Lease!Acquire(s, claim)
<1>1. now \in Nat
  BY DEF TypeOK
<1>2. ASSUME NEW s \in Schedules, ClaimAtomic(w, s)
      PROVE  \E claim \in [w : Workers, at : 0..now] : Lease!Acquire(s, claim)
  <2>1. /\ row[s].st = "live" /\ Claimable(s, now)
        /\ loop[w] # "spawn" /\ task' = task /\ now' = now /\ Stamp(w, s, now)
    BY <1>2 DEF ClaimAtomic, Selected, Due
  <2>2. /\ pick'[w].sid = s /\ pick'[w].at = now
        /\ \A v \in Workers \ {w} : pick'[v] = pick[v]
    BY <1>2 DEF ClaimAtomic, TypeOK
  <2>3. Lease!Acquire(s, [w |-> w, at |-> now])
    BY <1>1, <2>1, <2>2, ClaimAcquires
  <2>4. QED
    BY <1>1, <2>3
<1>3. CASE ClaimUpdate(w)
  <2>1. PICK s \in Schedules : s = pick[w].sid
    BY <1>3 DEF ClaimUpdate, TypeOK
  <2>2. PICK stamp \in Nat : stamp = pick[w].at /\ stamp <= now
    BY <1>3 DEF ClaimUpdate, TypeOK, PickType
  <2>3. /\ row[s].st = "live" /\ Claimable(s, stamp) /\ loop[w] # "spawn"
        /\ task' = task /\ pick' = pick /\ now' = now /\ Stamp(w, s, stamp)
    BY <1>3, <2>1, <2>2 DEF ClaimUpdate
  <2>4. Lease!Acquire(s, [w |-> w, at |-> stamp])
    BY <2>1, <2>2, <2>3, ClaimAcquires
  <2>5. QED
    BY <1>1, <2>2, <2>4
<1>4. ASSUME NEW t \in Tasks, Spawn(w, t)
      PROVE  Lease!End
  BY <1>4, SpawnEnds
<1>5. QED
  BY <1>2, <1>3, <1>4, WorkerKept, KeptEnds DEF WorkerStep, PollStep, ClaimStep, StopStep

LEMMA LeaseStep == TypeOK /\ TypeOK' /\ LockInv /\ [Next]_vars => [Lease!Next]_(Lease!vars)
<1>. SUFFICES ASSUME TypeOK, TypeOK', LockInv, [Next]_vars
              PROVE  [Lease!Next]_(Lease!vars)
  OBVIOUS
<1>1. CASE UNCHANGED vars
  <2>1. Kept
    BY <1>1 DEF vars, Kept, TaskHolds, LoopHolds, Alive
  <2>2. Holders' = Holders
    BY <1>1 DEF vars, Holders, ClaimsOf, TaskHolds, LoopHolds, Alive
  <2>3. QED
    BY <1>1, <2>2 DEF vars, Lease!vars
<1>2. CASE Next
  <2>1. overran' = (overran \/ Lease!Expired')
    <3>1. Lease!Expired' <=> OverranNow'
      BY LatchMatches, PTL
    <3>2. QED
      BY <1>2, <3>1 DEF Next, Latch
  <2>2. CASE Tick
    <3>1. Holders' = Holders
      BY <2>2 DEF Tick, Holders, ClaimsOf, TaskHolds, LoopHolds, Alive
    <3>2. Lease!Tick
      BY <2>2, <3>1 DEF Tick, Lease!Tick
    <3>3. QED
      BY <2>1, <3>2 DEF Lease!Next
  <2>3. CASE Management
    BY <2>1, <2>3, ManagementKept, KeptEnds DEF Lease!Next
  <2>4. ASSUME NEW t \in Tasks, TaskStep(t)
        PROVE  Lease!Next
    BY <2>1, <2>4, TaskStepKept, KeptEnds DEF Lease!Next
  <2>5. ASSUME NEW w \in Workers, WorkerStep(w)
        PROVE  Lease!Next
    BY <2>1, <2>5, WorkerLease DEF Lease!Next
  <2>6. QED
    BY <1>2, <2>2, <2>3, <2>4, <2>5 DEF Next, Step
<1>3. QED
  BY <1>1, <1>2

(* Pollers, executors, locks, stops and crashes implement the lease: a step   *)
(* of the scheduler claims a schedule nobody holds, ends claims, lets time    *)
(* pass, or changes nothing that the lease knows of.                         *)
THEOREM Refinement == Spec => ImplementsLease
<1>1. Spec => [](TypeOK /\ LockInv)
  BY TypeCorrect, LockAlways, PTL
<1>2. QED
  BY <1>1, LeaseInit, LeaseStep, PTL DEF Spec, ImplementsLease, Lease!Spec
=============================================================================
