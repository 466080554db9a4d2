------------------------ MODULE BackgroundRunsProofs ------------------------
(* Proofs about BackgroundRuns, for any number of executions, retries and     *)
(* events.                                                                   *)
EXTENDS BackgroundRuns, TLAPS

-----------------------------------------------------------------------------
(* Type correctness. *)

ExecType == [pc : ExecStates, run : Runs \cup {NoRun}, status : Statuses, attempt : 0..Retries,
             view : SessionType, asked : {"no", "early", "late"}]

SeenType == [exposed : SUBSET Runs, fault : BOOLEAN, shared : SUBSET Runs, deleted : SUBSET Runs,
             stray : SUBSET Runs, gaveUp : SUBSET Attempts]

JobType == [pc : {"submit", "wait", "poll", "done"}, attempt : Attempts,
            run : Runs \cup {NoRun}, last : Runs \cup {NoRun}]

RecordType == [status : Results \cup {"none", "running"}, run : Runs \cup {NoRun}]

(* An execution that has begun has a run, and it is the executor's when it     *)
(* waits for one.                                                            *)
ExecOK ==
    /\ exec \in [Execs -> ExecType]
    /\ \A e \in Execs : IF exec[e].pc = "idle" THEN exec[e].run = NoRun ELSE exec[e].run \in Runs

JobOK ==
    /\ job \in JobType
    /\ job.pc \in {"wait", "poll"} => job.run \in Runs

TypeInv ==
    /\ session \in SessionType
    /\ ExecOK /\ JobOK
    /\ intent \in [Runs -> {"none", "registered", "cancelled"}]
    /\ record \in [Attempts -> RecordType]
    /\ events \in 0..MaxEvents
    /\ seen \in SeenType

LEMMA TypeInvType == ASSUME TypeInv PROVE TypeOK
<1>1. \A e \in Execs : exec[e].pc # "idle" => exec[e].run \in Runs
  BY DEF TypeInv, ExecOK
<1>. QED
  BY <1>1 DEF TypeInv, TypeOK, ExecOK, JobOK, ExecType, SeenType, JobType, RecordType

LEMMA IdleType ==
    /\ NewSession \in SessionType
    /\ Idle \in ExecType
    /\ 1 \in Attempts
<1>1. 0 \in 0..Retries /\ 1 \in Attempts
  BY BackgroundRunsAssumption DEF Attempts
<1>2. NewSession \in SessionType
  BY DEF NewSession, SessionType
<1>3. /\ "idle" \in ExecStates /\ "pending" \in Statuses /\ NoRun \in Runs \cup {NoRun}
      /\ "no" \in {"no", "early", "late"}
  BY DEF ExecStates, Statuses
<1>. QED
  BY <1>1, <1>2, <1>3 DEF Idle, ExecType

LEMMA WithRunType ==
    ASSUME NEW view \in SessionType, NEW r \in Runs, NEW status \in Statuses
    PROVE  WithRun(view, r, status) \in SessionType
  BY DEF WithRun, SessionType

LEMMA UpsertType ==
    ASSUME TypeInv, NEW view \in SessionType, NEW r \in Runs, Upsert(view, r)
    PROVE  session' \in SessionType /\ seen' \in SeenType
<1>1. CASE session' = view /\ seen' = [seen EXCEPT !.deleted = @ \ {r}]
  BY <1>1 DEF TypeInv, SeenType
<1>2. CASE UNCHANGED session /\ seen' = [seen EXCEPT !.fault = TRUE]
  BY <1>2 DEF TypeInv, SeenType
<1>. QED
  BY <1>1, <1>2 DEF Upsert

LEMMA StepExecType ==
    ASSUME TypeInv, NEW e \in Execs, NEW x \in ExecType, x.pc # "idle", x.run \in Runs, StepExec(e, x)
    PROVE  ExecOK'
<1>1. exec \in [Execs -> ExecType] /\ exec' = [exec EXCEPT ![e] = x]
  BY DEF TypeInv, ExecOK, StepExec
<1>2. exec' \in [Execs -> ExecType]
  BY <1>1
<1>3. ASSUME NEW d \in Execs
      PROVE  IF exec'[d].pc = "idle" THEN exec'[d].run = NoRun ELSE exec'[d].run \in Runs
  <2>1. CASE d = e
    BY <1>1, <2>1
  <2>2. CASE d # e
    <3>1. exec'[d] = exec[d]
      BY <1>1, <2>2
    <3>. QED
      BY <3>1 DEF TypeInv, ExecOK
  <2>. QED
    BY <2>1, <2>2
<1>. QED
  BY <1>2, <1>3 DEF ExecOK

LEMMA RegisteredType ==
    ASSUME TypeInv, NEW r \in Runs
    PROVE  Registered(r) \in [Runs -> {"none", "registered", "cancelled"}]
  BY DEF TypeInv, Registered

LEMMA MetType ==
    ASSUME TypeInv, NEW runs \in SUBSET Runs
    PROVE  /\ Met(runs) \in SUBSET Runs
           /\ \A d \in Execs : Busy(d) => exec[d].run \in Met(runs) /\ runs \subseteq Met(runs)
<1>. DEFINE writers == {exec[e].run : e \in {d \in Execs : Busy(d)}}
<1>1. Met(runs) = IF writers = {} THEN {} ELSE writers \cup runs
  BY DEF Met
<1>2. \A d \in Execs : Busy(d) => exec[d].run \in writers
  OBVIOUS
<1>3. writers \in SUBSET Runs
  BY DEF TypeInv, ExecOK, Busy, Active
<1>. HIDE DEF writers
<1>. QED
  BY <1>1, <1>2, <1>3

(* An execution that is about to begin. *)
LEMMA SubmittedType ==
    ASSUME TypeInv, NEW e \in Execs, Submitted(e)
    PROVE  /\ ExecOK'
           /\ intent' \in [Runs -> {"none", "registered", "cancelled"}]
           /\ seen' \in SeenType
           /\ exec[e].pc = "idle"
           /\ exec'[e].pc = "pending" /\ exec'[e].run = e /\ exec'[e].asked = "no"
           /\ exec'[e].status = "pending"
           /\ exec'[e].view \in {session, NewSession}
           /\ exec'[e].view # session => seen'.fault
           /\ \A d \in Execs \ {e} : exec'[d] = exec[d]
           /\ intent' = Registered(e)
           /\ seen'.shared = seen.shared /\ seen'.deleted = seen.deleted
           /\ seen'.stray = seen.stray /\ seen'.gaveUp = seen.gaveUp
           /\ seen'.exposed = seen.exposed \cup Met({e})
           /\ seen.fault => seen'.fault
<1>1. e \in Runs /\ exec \in [Execs -> ExecType] /\ seen \in SeenType
  BY DEF Runs, TypeInv, ExecOK
<1>2. PICK view \in ReadOutcomes :
          /\ StepExec(e, [Idle EXCEPT !.pc = "pending", !.run = e, !.view = view])
          /\ seen' = [seen EXCEPT !.fault = @ \/ view # session, !.exposed = @ \cup Met({e})]
  BY DEF Submitted
<1>. DEFINE x == [Idle EXCEPT !.pc = "pending", !.run = e, !.view = view]
<1>3. view \in {session, NewSession} /\ view \in SessionType
  BY IdleType DEF ReadOutcomes, TypeInv
<1>4. x \in ExecType
  BY <1>1, <1>3, IdleType DEF ExecType, ExecStates
<1>5. x.pc = "pending" /\ x.run = e /\ x.asked = "no" /\ x.status = "pending" /\ x.view = view
  BY DEF Idle
<1>. HIDE DEF x
<1>6. StepExec(e, x)
  BY <1>2 DEF x
<1>7. ExecOK'
  BY <1>1, <1>4, <1>5, <1>6, StepExecType
<1>8. exec'[e] = x /\ \A d \in Execs \ {e} : exec'[d] = exec[d]
  BY <1>1, <1>6 DEF StepExec
<1>. DEFINE fault == seen.fault \/ view # session
            exposed == seen.exposed \cup Met({e})
<1>9. seen' = [seen EXCEPT !.fault = fault, !.exposed = exposed]
  BY <1>2
<1>10. fault \in BOOLEAN
  BY <1>1 DEF SeenType
<1>11. exposed \in SUBSET Runs
  <2>1. Met({e}) \in SUBSET Runs
    BY <1>1, MetType
  <2>. QED
    BY <1>1, <2>1 DEF SeenType
<1>. HIDE DEF fault, exposed
<1>12. /\ seen' \in SeenType /\ seen'.fault = fault
       /\ seen'.shared = seen.shared /\ seen'.deleted = seen.deleted
       /\ seen'.stray = seen.stray /\ seen'.gaveUp = seen.gaveUp
       /\ seen'.exposed = exposed
  BY <1>1, <1>9, <1>10, <1>11 DEF SeenType
<1>13. intent' = Registered(e) /\ exec[e].pc = "idle"
  BY DEF Submitted, Unused
<1>14. exec'[e].view # session => seen'.fault
  BY <1>5, <1>8, <1>12 DEF fault
<1>15. seen.fault => seen'.fault
  BY <1>12 DEF fault
<1>16. seen'.exposed = seen.exposed \cup Met({e})
  BY <1>12 DEF exposed
<1>. QED
  BY <1>1, <1>3, <1>5, <1>7, <1>8, <1>12, <1>13, <1>14, <1>15, <1>16, RegisteredType

LEMMA InitTypeInv ==
    ASSUME Init
    PROVE  TypeInv
<1>1. exec = [e \in Execs |-> Idle] /\ Idle.run = NoRun /\ Idle.pc = "idle"
  BY DEF Init, Idle
<1>2. ExecOK
  BY <1>1, IdleType DEF ExecOK
<1>3. job \in JobType /\ job.pc = "submit"
  BY IdleType DEF Init, JobType
<1>4. record \in [Attempts -> RecordType] /\ 0 \in 0..MaxEvents /\ seen \in SeenType
  BY BackgroundRunsAssumption DEF Init, RecordType, SeenType
<1>. QED
  BY <1>2, <1>3, <1>4, IdleType DEF Init, TypeInv, JobOK

(* A step of one execution, from one of its states to the next. *)
LEMMA ExecStepType ==
    ASSUME TypeInv, NEW e \in Execs, ExecStep(e)
    PROVE  /\ TypeInv'
           /\ Active(e)
           /\ exec'[e].pc # "idle" /\ exec'[e].run = exec[e].run
           /\ \A d \in Execs \ {e} : exec'[d] = exec[d]
<1>1. /\ session \in SessionType /\ exec \in [Execs -> ExecType] /\ JobOK
      /\ intent \in [Runs -> {"none", "registered", "cancelled"}]
      /\ record \in [Attempts -> RecordType] /\ events \in 0..MaxEvents /\ seen \in SeenType
      /\ exec[e] \in ExecType /\ (exec[e].pc # "idle" => exec[e].run \in Runs)
  BY DEF TypeInv, ExecOK
<1>2. ASSUME NEW x \in ExecType, StepExec(e, x), x.pc # "idle", x.run = exec[e].run, Active(e),
             session' \in SessionType, seen' \in SeenType, JobOK',
             intent' \in [Runs -> {"none", "registered", "cancelled"}],
             UNCHANGED <<record, events>>
      PROVE  /\ TypeInv'
             /\ Active(e)
             /\ exec'[e].pc # "idle" /\ exec'[e].run = exec[e].run
             /\ \A d \in Execs \ {e} : exec'[d] = exec[d]
  <2>1. x.run \in Runs
    BY <1>1, <1>2 DEF Active
  <2>2. ExecOK'
    BY <1>2, <2>1, StepExecType
  <2>3. exec'[e] = x /\ \A d \in Execs \ {e} : exec'[d] = exec[d]
    BY <1>1, <1>2 DEF StepExec
  <2>. QED
    BY <1>1, <1>2, <2>2, <2>3 DEF TypeInv
<1>3. UNCHANGED job => JobOK'
  BY <1>1 DEF JobOK
<1>4. \A pc \in ExecStates, status \in Statuses :
          [exec[e] EXCEPT !.pc = pc, !.status = status] \in ExecType
  BY <1>1 DEF ExecType
<1>5. ASSUME NEW x \in ExecType
      PROVE  Failed(x) \in ExecType /\ Failed(x).pc # "idle" /\ Failed(x).run = x.run
  <2>1. CASE x.attempt < Retries
    <3>1. x.attempt + 1 \in 0..Retries
      BY <2>1, BackgroundRunsAssumption DEF ExecType
    <3>. QED
      BY <2>1, <3>1, IdleType DEF Failed, ExecType, ExecStates
  <2>2. CASE ~(x.attempt < Retries)
    BY <2>2 DEF Failed, ExecType, ExecStates, Statuses, Terminal
  <2>. QED
    BY <2>1, <2>2
<1>6. ASSUME NEW x \in ExecType, NEW pc \in ExecStates, pc # "idle"
      PROVE  Checked(x, pc) \in ExecType /\ Checked(x, pc).pc # "idle" /\ Checked(x, pc).run = x.run
  BY <1>6 DEF Checked, ExecType, ExecStates, Statuses, Terminal
<1>7. CASE SavePending(e)
  <2>. DEFINE view == WithRun(exec[e].view, exec[e].run, "pending")
              x == [exec[e] EXCEPT !.pc = "running", !.view = view]
  <2>1. /\ exec[e].pc = "pending" /\ Upsert(view, exec[e].run) /\ StepExec(e, x)
        /\ job' = (IF job.pc = "wait" /\ job.run = e THEN [job EXCEPT !.pc = "poll"] ELSE job)
        /\ UNCHANGED <<intent, record, events>>
    BY <1>7 DEF SavePending
  <2>2. view \in SessionType
    BY <1>1, <2>1, WithRunType DEF ExecType, Statuses
  <2>. HIDE DEF view
  <2>3. x \in ExecType /\ x.pc = "running" /\ x.run = exec[e].run
    BY <1>1, <2>2 DEF ExecType, ExecStates
  <2>. HIDE DEF x
  <2>4. JobOK'
    BY <1>1, <2>1 DEF JobOK, JobType
  <2>5. session' \in SessionType /\ seen' \in SeenType
    BY <1>1, <2>1, <2>2, UpsertType
  <2>. QED
    BY <1>1, <1>2, <2>1, <2>3, <2>4, <2>5 DEF Active
<1>8. CASE SaveRunning(e)
  <2>. DEFINE view == WithRun(exec[e].view, exec[e].run, "running")
              x == [exec[e] EXCEPT !.pc = "begin", !.status = "running", !.view = NewSession]
  <2>1. /\ exec[e].pc = "running" /\ Upsert(view, exec[e].run) /\ StepExec(e, x)
        /\ UNCHANGED <<intent, job, record, events>>
    BY <1>8 DEF SaveRunning
  <2>2. view \in SessionType
    BY <1>1, <2>1, WithRunType DEF ExecType, Statuses
  <2>. HIDE DEF view
  <2>3. x \in ExecType /\ x.pc = "begin" /\ x.run = exec[e].run
    BY <1>1, IdleType DEF ExecType, ExecStates, Statuses
  <2>. HIDE DEF x
  <2>4. session' \in SessionType /\ seen' \in SeenType
    BY <1>1, <2>1, <2>2, UpsertType
  <2>. QED
    BY <1>1, <1>2, <1>3, <2>1, <2>3, <2>4 DEF Active
<1>9. CASE Begin(e)
  <2>1. exec[e].pc = "begin" /\ UNCHANGED <<session, job, record, events>>
    BY <1>9 DEF Begin
  <2>2. PICK view \in ReadOutcomes :
            LET x == [exec[e] EXCEPT !.view = view] IN
            /\ IF Missing(x, e)
               THEN /\ StepExec(e, Failed(x)) \/ StepExec(e, Failed([x EXCEPT !.status = "running"]))
                    /\ UNCHANGED intent
               ELSE /\ StepExec(e, [x EXCEPT !.pc = "work", !.status = "running"])
                    /\ intent' = Registered(x.run)
            /\ seen' = [seen EXCEPT !.fault = @ \/ view # session]
    BY <1>9 DEF Begin
  <2>. DEFINE x == [exec[e] EXCEPT !.view = view]
              y == [x EXCEPT !.pc = "work", !.status = "running"]
              z == [x EXCEPT !.status = "running"]
  <2>3. view \in SessionType
    BY <1>1, IdleType DEF ReadOutcomes
  <2>4. x \in ExecType /\ x.run = exec[e].run
    BY <1>1, <2>3 DEF ExecType
  <2>5. \/ (StepExec(e, Failed(x)) \/ StepExec(e, Failed(z))) /\ UNCHANGED intent
        \/ StepExec(e, y) /\ intent' = Registered(x.run)
    BY <2>2
  <2>6. seen' \in SeenType
    <3>. DEFINE fault == seen.fault \/ view # session
    <3>1. fault \in BOOLEAN /\ seen' = [seen EXCEPT !.fault = fault]
      BY <1>1, <2>2 DEF SeenType
    <3>. HIDE DEF fault
    <3>. QED
      BY <1>1, <3>1 DEF SeenType
  <2>. HIDE DEF x
  <2>7. y \in ExecType /\ y.pc = "work" /\ y.run = exec[e].run
    BY <2>4 DEF ExecType, ExecStates, Statuses
  <2>8. z \in ExecType /\ z.run = exec[e].run
    BY <2>4 DEF ExecType, Statuses
  <2>. HIDE DEF y, z
  <2>9. Active(e) /\ x.run \in Runs
    BY <1>1, <2>1, <2>4 DEF Active
  <2>10. intent' \in [Runs -> {"none", "registered", "cancelled"}]
    BY <1>1, <2>5, <2>9, RegisteredType
  <2>11. CASE StepExec(e, Failed(x))
    BY <1>1, <1>2, <1>3, <1>5, <2>1, <2>4, <2>6, <2>9, <2>10, <2>11
  <2>12. CASE StepExec(e, y)
    BY <1>1, <1>2, <1>3, <2>1, <2>6, <2>7, <2>9, <2>10, <2>12
  <2>13. CASE StepExec(e, Failed(z))
    BY <1>1, <1>2, <1>3, <1>5, <2>1, <2>6, <2>9, <2>10, <2>8, <2>13
  <2>. QED
    BY <2>5, <2>11, <2>12, <2>13
<1>10. CASE Answer(e)
  <2>1. exec[e].pc = "work" /\ StepExec(e, Checked(exec[e], "answered"))
        /\ UNCHANGED <<session, intent, job, record, events, seen>>
    BY <1>10 DEF Answer
  <2>2. "answered" \in ExecStates /\ Active(e)
    BY <2>1 DEF ExecStates, Active
  <2>. QED
    BY <1>1, <1>2, <1>3, <1>6, <2>1, <2>2
<1>11. CASE Fails(e)
  <2>. DEFINE x == [exec[e] EXCEPT !.status = "error", !.pc = "store"]
  <2>1. exec[e].pc \in {"work", "answered"} /\ (StepExec(e, Failed(exec[e])) \/ StepExec(e, x))
        /\ UNCHANGED <<session, intent, job, record, events, seen>>
    BY <1>11 DEF Fails
  <2>2. x \in ExecType /\ x.pc = "store" /\ x.run = exec[e].run
    BY <1>1 DEF ExecType, ExecStates, Statuses, Terminal
  <2>. HIDE DEF x
  <2>3. Active(e)
    BY <2>1 DEF Active
  <2>4. CASE StepExec(e, Failed(exec[e]))
    BY <1>1, <1>2, <1>3, <1>5, <2>1, <2>3, <2>4
  <2>5. CASE StepExec(e, x)
    BY <1>1, <1>2, <1>3, <2>1, <2>2, <2>3, <2>5
  <2>. QED
    BY <2>1, <2>4, <2>5
<1>12. CASE Pause(e)
  <2>. DEFINE x == [exec[e] EXCEPT !.status = "paused", !.pc = "store"]
  <2>1. exec[e].pc = "answered" /\ StepExec(e, x) /\ UNCHANGED <<session, intent, job, record, events, seen>>
    BY <1>12 DEF Pause
  <2>2. x \in ExecType /\ x.pc = "store" /\ x.run = exec[e].run
    BY <1>1 DEF ExecType, ExecStates, Statuses, Terminal
  <2>. HIDE DEF x
  <2>. QED
    BY <1>1, <1>2, <1>3, <2>1, <2>2 DEF Active
<1>13. CASE Complete(e)
  <2>. DEFINE x == [exec[e] EXCEPT !.status = "completed"]
  <2>1. /\ exec[e].pc = "answered" /\ StepExec(e, Checked(x, "store"))
        /\ UNCHANGED <<session, intent, job, record, events, seen>>
    BY <1>13 DEF Complete
  <2>2. x \in ExecType /\ x.run = exec[e].run /\ "store" \in ExecStates
    BY <1>1 DEF ExecType, ExecStates, Statuses, Terminal
  <2>. HIDE DEF x
  <2>. QED
    BY <1>1, <1>2, <1>3, <1>6, <2>1, <2>2 DEF Active
<1>14. CASE Store(e)
  <2>. DEFINE view == WithRun(exec[e].view, exec[e].run, exec[e].status)
              x == [exec[e] EXCEPT !.pc = "cleanup", !.attempt = 0, !.view = NewSession, !.asked = "no"]
  <2>1. /\ exec[e].pc = "store" /\ Upsert(view, exec[e].run) /\ StepExec(e, x)
        /\ UNCHANGED <<intent, job, record, events>>
    BY <1>14 DEF Store
  <2>2. view \in SessionType
    BY <1>1, <2>1, WithRunType DEF ExecType
  <2>3. x \in ExecType /\ x.pc = "cleanup" /\ x.run = exec[e].run
    <3>1. 0 \in 0..Retries
      BY BackgroundRunsAssumption
    <3>. QED
      BY <1>1, <3>1, IdleType DEF ExecType, ExecStates
  <2>. HIDE DEF view, x
  <2>4. session' \in SessionType /\ seen' \in SeenType
    BY <1>1, <2>1, <2>2, UpsertType
  <2>. QED
    BY <1>1, <1>2, <1>3, <2>1, <2>3, <2>4 DEF Active
<1>15. CASE Cleanup(e)
  <2>. DEFINE x == [exec[e] EXCEPT !.pc = "over"]
              stray == seen.stray \ {exec[e].run}
  <2>1. /\ exec[e].pc = "cleanup" /\ StepExec(e, x) /\ intent' = CleanedUp(exec[e].run)
        /\ seen' = [seen EXCEPT !.stray = stray]
        /\ UNCHANGED <<session, job, record, events>>
    BY <1>15 DEF Cleanup
  <2>2. x \in ExecType /\ x.pc = "over" /\ x.run = exec[e].run
    BY <1>1 DEF ExecType, ExecStates
  <2>3. stray \in SUBSET Runs
    BY <1>1 DEF SeenType
  <2>. HIDE DEF x, stray
  <2>4. seen' \in SeenType
    BY <1>1, <2>1, <2>3 DEF SeenType
  <2>5. intent' \in [Runs -> {"none", "registered", "cancelled"}]
    BY <1>1, <2>1 DEF CleanedUp
  <2>. QED
    BY <1>1, <1>2, <1>3, <2>1, <2>2, <2>4, <2>5 DEF Active
<1>. QED
  BY <1>7, <1>8, <1>9, <1>10, <1>11, <1>12, <1>13, <1>14, <1>15 DEF ExecStep

LEMMA RecordedType ==
    ASSUME TypeInv, NEW result \in Results, NEW run \in Runs \cup {NoRun}, Recorded(result, run)
    PROVE  /\ JobOK' /\ record' \in [Attempts -> RecordType] /\ events' \in 0..MaxEvents
           /\ job'.pc \in {"submit", "done"}
           /\ job'.attempt = job.attempt \/ (job'.attempt = job.attempt + 1 /\ result = "failed")
           /\ record' = [record EXCEPT ![job.attempt] = [status |-> result, run |-> run]]
           /\ UNCHANGED <<session, exec, intent, events>>
<1>. DEFINE last == IF run = NoRun THEN job.last ELSE run
            j == [job EXCEPT !.last = last]
<1>1. /\ record' = [record EXCEPT ![job.attempt] = [status |-> result, run |-> run]]
      /\ job' = IF result = "failed" /\ job.attempt < MaxRetries + 1
                THEN [j EXCEPT !.pc = "submit", !.attempt = @ + 1, !.run = NoRun]
                ELSE [j EXCEPT !.pc = "done"]
      /\ UNCHANGED <<session, exec, intent, events>>
  BY DEF Recorded
<1>2. job \in JobType /\ record \in [Attempts -> RecordType] /\ events \in 0..MaxEvents
  BY DEF TypeInv, JobOK
<1>3. last \in Runs \cup {NoRun}
  BY <1>2 DEF JobType
<1>. HIDE DEF last
<1>4. j \in JobType /\ j.attempt = job.attempt
  BY <1>2, <1>3 DEF JobType
<1>. HIDE DEF j
<1>5. record' \in [Attempts -> RecordType]
  BY <1>1, <1>2 DEF RecordType
<1>6. CASE result = "failed" /\ job.attempt < MaxRetries + 1
  <2>1. job.attempt \in Nat /\ job.attempt + 1 \in Attempts
    BY <1>2, <1>6, BackgroundRunsAssumption DEF JobType, Attempts
  <2>2. job' = [j EXCEPT !.pc = "submit", !.attempt = job.attempt + 1, !.run = NoRun]
    BY <1>1, <1>4, <1>6
  <2>3. job' \in JobType /\ job'.pc = "submit" /\ job'.attempt = job.attempt + 1
    BY <1>4, <2>1, <2>2 DEF JobType
  <2>. QED
    BY <1>1, <1>2, <1>5, <1>6, <2>3 DEF JobOK
<1>7. CASE ~(result = "failed" /\ job.attempt < MaxRetries + 1)
  <2>1. job' \in JobType /\ job'.pc = "done" /\ job'.attempt = job.attempt
    BY <1>1, <1>4, <1>7 DEF JobType
  <2>. QED
    BY <1>1, <1>2, <1>5, <2>1 DEF JobOK
<1>. QED
  BY <1>6, <1>7

(* A step of the executor that ends an attempt: what is recorded, and whether  *)
(* the executor has given up.                                                *)
LEMMA AttemptEnds ==
    ASSUME TypeInv, Refused \/ CallRaises \/ PollEnds \/ Poll
    PROVE  /\ TypeInv'
           /\ UNCHANGED <<session, exec, intent, events>>
           /\ job'.pc \in {"submit", "done"}
           /\ \/ /\ \E run \in Runs \cup {NoRun} :
                       record' = [record EXCEPT ![job.attempt] = [status |-> "failed", run |-> run]]
                 /\ seen' = [seen EXCEPT !.gaveUp = seen.gaveUp \cup {job.attempt}]
                 /\ job'.attempt \in {job.attempt, job.attempt + 1}
              \/ /\ job.pc = "poll" /\ session[job.run] \in Terminal
                 /\ record' = [record EXCEPT ![job.attempt] = [status |-> ResultOf(session[job.run]),
                                                              run |-> job.run]]
                 /\ job'.attempt = job.attempt
                       \/ (job'.attempt = job.attempt + 1 /\ ResultOf(session[job.run]) = "failed")
                 /\ seen' = seen
<1>1. job \in JobType /\ seen \in SeenType /\ (job.pc \in {"wait", "poll"} => job.run \in Runs)
  BY DEF TypeInv, JobOK
<1>2. "failed" \in Results /\ job.attempt \in Attempts /\ job.last \in Runs \cup {NoRun}
  BY <1>1 DEF Results, JobType
<1>3. ASSUME NEW run \in Runs \cup {NoRun}, Recorded("failed", run), GivenUp
      PROVE  /\ TypeInv'
             /\ UNCHANGED <<session, exec, intent, events>>
             /\ job'.pc \in {"submit", "done"}
             /\ record' = [record EXCEPT ![job.attempt] = [status |-> "failed", run |-> run]]
             /\ seen' = [seen EXCEPT !.gaveUp = seen.gaveUp \cup {job.attempt}]
             /\ job'.attempt \in {job.attempt, job.attempt + 1}
  <2>1. seen' = [seen EXCEPT !.gaveUp = seen.gaveUp \cup {job.attempt}]
    BY <1>3 DEF GivenUp
  <2>2. seen' \in SeenType
    <3>1. seen.gaveUp \cup {job.attempt} \in SUBSET Attempts
      BY <1>1, <1>2 DEF SeenType
    <3>. QED
      BY <1>1, <2>1, <3>1 DEF SeenType
  <2>3. /\ JobOK' /\ record' \in [Attempts -> RecordType] /\ events' \in 0..MaxEvents
        /\ job'.pc \in {"submit", "done"} /\ job'.attempt \in {job.attempt, job.attempt + 1}
        /\ record' = [record EXCEPT ![job.attempt] = [status |-> "failed", run |-> run]]
        /\ UNCHANGED <<session, exec, intent, events>>
    BY <1>2, <1>3, RecordedType
  <2>. QED
    BY <2>1, <2>2, <2>3 DEF TypeInv, ExecOK
<1>4. CASE Refused
  BY <1>2, <1>3, <1>4 DEF Refused
<1>5. CASE CallRaises
  BY <1>3, <1>5 DEF CallRaises
<1>6. CASE PollEnds
  BY <1>1, <1>3, <1>6 DEF PollEnds
<1>7. CASE Poll
  <2>1. /\ job.pc = "poll" /\ session[job.run] \in Terminal /\ seen' = seen
        /\ Recorded(ResultOf(session[job.run]), job.run)
    BY <1>7 DEF Poll
  <2>2. ResultOf(session[job.run]) \in Results /\ job.run \in Runs
    BY <1>1, <2>1 DEF ResultOf, Results
  <2>3. /\ JobOK' /\ record' \in [Attempts -> RecordType] /\ events' \in 0..MaxEvents
        /\ job'.pc \in {"submit", "done"}
        /\ record' = [record EXCEPT ![job.attempt] = [status |-> ResultOf(session[job.run]), run |-> job.run]]
        /\ job'.attempt = job.attempt
              \/ (job'.attempt = job.attempt + 1 /\ ResultOf(session[job.run]) = "failed")
        /\ UNCHANGED <<session, exec, intent, events>>
    BY <2>1, <2>2, RecordedType
  <2>4. TypeInv'
    BY <1>1, <2>1, <2>3 DEF TypeInv, ExecOK
  <2>. QED
    BY <2>1, <2>3, <2>4
<1>. QED
  BY <1>4, <1>5, <1>6, <1>7

LEMMA EventType ==
    ASSUME TypeInv, Event
    PROVE  events' \in 0..MaxEvents
  BY BackgroundRunsAssumption DEF TypeInv, Event, Faults

LEMMA NextTypeInv ==
    ASSUME TypeInv, Next
    PROVE  TypeInv'
<1>1. /\ session \in SessionType /\ exec \in [Execs -> ExecType] /\ ExecOK
      /\ intent \in [Runs -> {"none", "registered", "cancelled"}]
      /\ record \in [Attempts -> RecordType] /\ events \in 0..MaxEvents /\ seen \in SeenType
      /\ job \in JobType /\ (job.pc \in {"wait", "poll"} => job.run \in Runs)
  BY DEF TypeInv, ExecOK, JobOK
<1>2. ASSUME NEW e \in Execs, ExecStep(e)
      PROVE  TypeInv'
  BY <1>2, ExecStepType
<1>3. ASSUME NEW e \in Execs, JobSubmits(e)
      PROVE  TypeInv'
  <2>1. /\ Submitted(e) /\ job' = [job EXCEPT !.pc = "wait", !.run = e]
        /\ record' = [record EXCEPT ![job.attempt].status = "running"]
        /\ UNCHANGED <<session, events>>
    BY <1>3 DEF JobSubmits
  <2>2. job' \in JobType /\ job'.run \in Runs
    BY <1>1, <2>1 DEF JobType, Runs
  <2>3. record' \in [Attempts -> RecordType]
    BY <1>1, <2>1 DEF RecordType
  <2>. QED
    BY <1>1, <2>1, <2>2, <2>3, SubmittedType DEF TypeInv, JobOK
<1>4. CASE Refused \/ CallRaises \/ PollEnds \/ Poll
  BY <1>4, AttemptEnds
<1>5. ASSUME NEW e \in Execs, UserSubmits(e)
      PROVE  TypeInv'
  <2>1. Submitted(e) /\ Event /\ UNCHANGED <<session, job, record>>
    BY <1>5 DEF UserSubmits
  <2>. QED
    BY <1>1, <2>1, SubmittedType, EventType DEF TypeInv, JobOK
<1>6. ASSUME NEW e \in Execs, NEW r \in Runs, Continue(e, r)
      PROVE  TypeInv'
  <2>. DEFINE asked == IF intent[r] = "cancelled" THEN "early" ELSE "no"
              x == [Idle EXCEPT !.pc = "begin", !.run = r, !.status = "paused", !.asked = asked]
              shared == IF ActiveOn(r) = {} THEN seen.shared ELSE seen.shared \cup {r}
  <2>1. /\ Event /\ StepExec(e, x) /\ UNCHANGED <<session, intent, job, record>>
        /\ \E view \in ReadOutcomes :
              seen' = [seen EXCEPT !.fault = @ \/ view # session, !.exposed = @ \cup Met({r}),
                                   !.shared = IF ActiveOn(r) = {} THEN @ ELSE @ \cup {r}]
    BY <1>6 DEF Continue
  <2>2. PICK view \in ReadOutcomes :
              seen' = [seen EXCEPT !.fault = @ \/ view # session, !.exposed = @ \cup Met({r}),
                                   !.shared = IF ActiveOn(r) = {} THEN @ ELSE @ \cup {r}]
    BY <2>1
  <2>. DEFINE fault == seen.fault \/ view # session
              exposed == seen.exposed \cup Met({r})
  <2>3. asked \in {"no", "early", "late"} /\ shared \in SUBSET Runs /\ fault \in BOOLEAN
    BY <1>1 DEF SeenType
  <2>4. exposed \in SUBSET Runs
    <3>1. Met({r}) \in SUBSET Runs
      BY MetType
    <3>. QED
      BY <1>1, <3>1 DEF SeenType
  <2>5. seen' = [seen EXCEPT !.fault = fault, !.exposed = exposed, !.shared = shared]
    BY <2>2
  <2>. HIDE DEF asked, shared, fault, exposed
  <2>6. x \in ExecType /\ x.pc = "begin" /\ x.run = r
    BY <2>3, IdleType DEF ExecType, ExecStates, Statuses, Terminal
  <2>. HIDE DEF x
  <2>7. ExecOK'
    BY <2>1, <2>6, StepExecType
  <2>8. seen' \in SeenType
    BY <1>1, <2>3, <2>5, <2>4 DEF SeenType
  <2>. QED
    BY <1>1, <2>1, <2>7, <2>8, EventType DEF TypeInv, JobOK
<1>7. ASSUME NEW r \in Runs, Cancel(r)
      PROVE  TypeInv'
  <2>. DEFINE stray == IF ActiveOn(r) = {} THEN seen.stray \cup {r} ELSE seen.stray
  <2>1. /\ Event /\ UNCHANGED <<session, job, record>>
        /\ intent' = [intent EXCEPT ![r] = "cancelled"]
        /\ exec' = [e \in Execs |-> IF e \in ActiveOn(r) THEN [exec[e] EXCEPT !.asked = Asked(exec[e])]
                                                         ELSE exec[e]]
        /\ seen' = [seen EXCEPT !.stray = stray]
    BY <1>7 DEF Cancel
  <2>2. stray \in SUBSET Runs
    BY <1>1 DEF SeenType
  <2>. HIDE DEF stray
  <2>3. seen' \in SeenType
    BY <1>1, <2>1, <2>2 DEF SeenType
  <2>4. ASSUME NEW e \in Execs
        PROVE  exec'[e] \in ExecType /\ exec'[e].pc = exec[e].pc /\ exec'[e].run = exec[e].run
    <3>1. Asked(exec[e]) \in {"no", "early", "late"}
      BY <1>1 DEF Asked, ExecType
    <3>2. CASE e \in ActiveOn(r)
      <4>. DEFINE asked == Asked(exec[e])
      <4>1. exec'[e] = [exec[e] EXCEPT !.asked = asked] /\ exec[e] \in ExecType
        BY <1>1, <2>1, <3>2
      <4>. HIDE DEF asked
      <4>2. asked \in {"no", "early", "late"}
        BY <3>1 DEF asked
      <4>. QED
        BY <4>1, <4>2 DEF ExecType
    <3>3. CASE e \notin ActiveOn(r)
      BY <1>1, <2>1, <3>3
    <3>. QED
      BY <3>2, <3>3
  <2>5. ExecOK'
    BY <1>1, <2>1, <2>4 DEF ExecOK
  <2>6. intent' \in [Runs -> {"none", "registered", "cancelled"}]
    BY <1>1, <2>1
  <2>. QED
    BY <1>1, <2>1, <2>3, <2>5, <2>6, EventType DEF TypeInv, JobOK
<1>8. CASE DeleteSession
  <2>. DEFINE deleted == seen.deleted \cup InRow
              exposed == seen.exposed \cup Met(InRow)
  <2>1. /\ Event /\ session' = NewSession /\ UNCHANGED <<exec, intent, job, record>>
        /\ seen' = [seen EXCEPT !.deleted = deleted, !.exposed = exposed]
    BY <1>8 DEF DeleteSession
  <2>2. deleted \in SUBSET Runs /\ exposed \in SUBSET Runs
    <3>1. InRow \in SUBSET Runs
      BY DEF InRow
    <3>2. Met(InRow) \in SUBSET Runs
      BY <3>1, MetType
    <3>. QED
      BY <1>1, <3>1, <3>2 DEF SeenType
  <2>. HIDE DEF deleted, exposed
  <2>3. seen' \in SeenType
    BY <1>1, <2>1, <2>2 DEF SeenType
  <2>. QED
    BY <1>1, <2>1, <2>3, EventType, IdleType DEF TypeInv, ExecOK, JobOK
<1>9. CASE Crash
  <2>1. /\ Event /\ UNCHANGED <<session, job, record>>
        /\ intent' = [r \in Runs |-> "none"] /\ seen' = [seen EXCEPT !.stray = {}]
        /\ exec' = [e \in Execs |-> IF Active(e) THEN [exec[e] EXCEPT !.pc = "dead", !.attempt = 0,
                                                                     !.view = NewSession, !.asked = "no"]
                                                ELSE exec[e]]
    BY <1>9 DEF Crash
  <2>2. ASSUME NEW e \in Execs
        PROVE  /\ exec'[e] \in ExecType /\ exec'[e].run = exec[e].run
               /\ exec'[e].pc = "idle" <=> exec[e].pc = "idle"
    <3>1. 0 \in 0..Retries
      BY BackgroundRunsAssumption
    <3>2. CASE Active(e)
      BY <1>1, <2>1, <3>1, <3>2, IdleType DEF ExecType, ExecStates, Active
    <3>3. CASE ~Active(e)
      BY <1>1, <2>1, <3>3
    <3>. QED
      BY <3>2, <3>3
  <2>3. ExecOK'
    BY <1>1, <2>1, <2>2 DEF ExecOK
  <2>4. seen' \in SeenType
    BY <1>1, <2>1 DEF SeenType
  <2>. QED
    BY <1>1, <2>1, <2>3, <2>4, EventType DEF TypeInv, JobOK
<1>. QED
  BY <1>2, <1>3, <1>4, <1>5, <1>6, <1>7, <1>8, <1>9 DEF Next, JobStep

LEMMA StutterTypeInv ==
    ASSUME TypeInv, UNCHANGED vars
    PROVE  TypeInv'
  BY DEF vars, TypeInv, ExecOK, JobOK

LEMMA TypeInvariant == Spec => []TypeInv
<1>1. Init => TypeInv
  BY InitTypeInv
<1>2. TypeInv /\ [Next]_vars => TypeInv'
  BY NextTypeInv, StutterTypeInv
<1>. QED
  BY <1>1, <1>2, PTL DEF Spec

(* Every variable keeps its type, and an execution that has begun has a run.  *)
THEOREM TypeCorrect == Spec => []TypeOK
<1>1. TypeInv => TypeOK
  BY TypeInvType
<1>. QED
  BY <1>1, TypeInvariant, PTL

-----------------------------------------------------------------------------
(* What the steps do, field by field. *)

Final == {"cleanup", "over", "dead"}

Others(e) == \A d \in Execs \ {e} : exec'[d] = exec[d]

(* What these steps leave of the history; a failure of the database stays. *)
Tells ==
    /\ seen'.exposed = seen.exposed /\ seen'.shared = seen.shared
    /\ seen'.stray = seen.stray /\ seen'.gaveUp = seen.gaveUp
    /\ seen.fault => seen'.fault

Wrote(view, r) ==
    \/ session' = view /\ seen'.deleted = seen.deleted \ {r}
    \/ session' = session /\ seen'.fault

(* The row is saved with the run as pending, then as running. *)
Saves(e) ==
    /\ \/ exec[e].pc = "pending" /\ exec'[e].pc = "running"
          /\ exec'[e].view = WithRun(exec[e].view, exec[e].run, "pending")
          /\ Wrote(exec'[e].view, exec[e].run)
       \/ exec[e].pc = "running" /\ exec'[e].pc = "begin" /\ exec'[e].view = NewSession
          /\ Wrote(WithRun(exec[e].view, exec[e].run, "running"), exec[e].run)
    /\ exec'[e].asked = exec[e].asked /\ intent' = intent

Begins(e) ==
    /\ exec[e].pc = "begin"
    /\ \/ exec'[e].pc = "begin" /\ intent' = intent
       \/ exec'[e].pc = "store" /\ exec'[e].status = "error" /\ intent' = intent
       \/ exec'[e].pc = "work" /\ intent' = Registered(exec[e].run)
    /\ exec'[e].view \in {session, NewSession}
    /\ exec'[e].pc # "begin" /\ exec'[e].view # session => seen'.fault
    /\ session' = session /\ seen'.deleted = seen.deleted /\ exec'[e].asked = exec[e].asked

Works(e) ==
    /\ exec[e].pc \in {"work", "answered"}
    /\ \/ /\ exec[e].pc = "work" /\ exec'[e].pc = "answered" /\ intent[exec[e].run] # "cancelled"
       \/ exec'[e].pc = "begin"
       \/ exec'[e].pc = "store" /\ exec'[e].status \in {"error", "cancelled"}
       \/ exec[e].pc = "answered" /\ exec'[e].pc = "store" /\ exec'[e].status = "paused"
       \/ /\ exec[e].pc = "answered" /\ exec'[e].pc = "store" /\ exec'[e].status = "completed"
          /\ intent[exec[e].run] # "cancelled"
    /\ exec'[e].view = IF exec'[e].pc = "begin" THEN NewSession ELSE exec[e].view
    /\ exec'[e].asked = exec[e].asked
    /\ session' = session /\ seen'.deleted = seen.deleted /\ intent' = intent

Stores(e) ==
    /\ exec[e].pc = "store" /\ exec'[e].pc = "cleanup"
    /\ exec'[e].status = exec[e].status /\ exec'[e].view = NewSession
    /\ Wrote(WithRun(exec[e].view, exec[e].run, exec[e].status), exec[e].run)
    /\ intent' = intent

Leaves(e) ==
    /\ exec[e].pc = "cleanup" /\ exec'[e].pc = "over"
    /\ exec'[e].status = exec[e].status /\ exec'[e].view = exec[e].view
    /\ intent' = [intent EXCEPT ![exec[e].run] = "none"]
    /\ session' = session
    /\ seen' = [seen EXCEPT !.stray = seen.stray \ {exec[e].run}]

LEMMA ExecMoves ==
    ASSUME TypeInv, NEW e \in Execs, ExecStep(e)
    PROVE  /\ exec'[e].run = exec[e].run /\ exec[e].run \in Runs /\ Others(e) /\ UNCHANGED record
           /\ \/ Tells /\ (Saves(e) \/ Begins(e) \/ Works(e) \/ Stores(e))
              \/ Leaves(e)
<1>1. /\ exec \in [Execs -> ExecType] /\ exec[e] \in ExecType /\ seen \in SeenType
      /\ exec[e].pc # "idle" => exec[e].run \in Runs
  BY DEF TypeInv, ExecOK
<1>2. /\ exec'[e].run = exec[e].run /\ Others(e) /\ Active(e)
  BY ExecStepType DEF Others
<1>3. exec[e].run \in Runs
  BY <1>1, <1>2 DEF Active
<1>4. UNCHANGED record
  BY DEF ExecStep, SavePending, SaveRunning, Begin, Answer, Fails, Pause, Complete, Store, Cleanup
<1>5. ASSUME NEW x, StepExec(e, x)
      PROVE  exec'[e] = x
  BY <1>1, <1>5 DEF StepExec
<1>6. ASSUME NEW view, NEW r, Upsert(view, r)
      PROVE  Wrote(view, r) /\ Tells
  <2>1. CASE session' = view /\ seen' = [seen EXCEPT !.deleted = @ \ {r}]
    BY <1>1, <2>1 DEF Wrote, Tells, SeenType
  <2>2. CASE UNCHANGED session /\ seen' = [seen EXCEPT !.fault = TRUE]
    BY <1>1, <2>2 DEF Wrote, Tells, SeenType
  <2>. QED
    BY <1>6, <2>1, <2>2 DEF Upsert
<1>7. UNCHANGED seen => Tells
  BY DEF Tells
<1>8. ASSUME NEW x \in ExecType
      PROVE  /\ Failed(x).asked = x.asked
             /\ \/ Failed(x).pc = "begin" /\ Failed(x).view = NewSession
                \/ Failed(x).pc = "store" /\ Failed(x).status = "error" /\ Failed(x).view = x.view
  BY DEF Failed, ExecType
<1>9. CASE SavePending(e)
  <2>. DEFINE view == WithRun(exec[e].view, exec[e].run, "pending")
              x == [exec[e] EXCEPT !.pc = "running", !.view = view]
  <2>1. exec[e].pc = "pending" /\ Upsert(view, exec[e].run) /\ StepExec(e, x) /\ intent' = intent
    BY <1>9 DEF SavePending
  <2>2. exec'[e] = x
    BY <1>5, <2>1
  <2>3. Wrote(view, exec[e].run) /\ Tells
    BY <1>6, <2>1
  <2>4. x.pc = "running" /\ x.view = view /\ x.asked = exec[e].asked
    BY <1>1 DEF ExecType
  <2>. HIDE DEF x
  <2>5. Saves(e)
    BY <2>1, <2>2, <2>3, <2>4 DEF Saves
  <2>. QED
    BY <1>2, <1>3, <1>4, <2>3, <2>5
<1>10. CASE SaveRunning(e)
  <2>. DEFINE view == WithRun(exec[e].view, exec[e].run, "running")
              x == [exec[e] EXCEPT !.pc = "begin", !.status = "running", !.view = NewSession]
  <2>1. exec[e].pc = "running" /\ Upsert(view, exec[e].run) /\ StepExec(e, x) /\ intent' = intent
    BY <1>10 DEF SaveRunning
  <2>2. exec'[e] = x
    BY <1>5, <2>1
  <2>3. Wrote(view, exec[e].run) /\ Tells
    BY <1>6, <2>1
  <2>4. x.pc = "begin" /\ x.view = NewSession /\ x.asked = exec[e].asked
    BY <1>1 DEF ExecType
  <2>. HIDE DEF x
  <2>5. Saves(e)
    BY <2>1, <2>2, <2>3, <2>4 DEF Saves
  <2>. QED
    BY <1>2, <1>3, <1>4, <2>3, <2>5
<1>11. CASE Begin(e)
  <2>1. exec[e].pc = "begin" /\ UNCHANGED session
    BY <1>11 DEF Begin
  <2>2. PICK view \in ReadOutcomes :
            LET x == [exec[e] EXCEPT !.view = view] IN
            /\ IF Missing(x, e)
               THEN /\ StepExec(e, Failed(x)) \/ StepExec(e, Failed([x EXCEPT !.status = "running"]))
                    /\ UNCHANGED intent
               ELSE /\ StepExec(e, [x EXCEPT !.pc = "work", !.status = "running"])
                    /\ intent' = Registered(x.run)
            /\ seen' = [seen EXCEPT !.fault = @ \/ view # session]
    BY <1>11 DEF Begin
  <2>. DEFINE x == [exec[e] EXCEPT !.view = view]
              y == [x EXCEPT !.pc = "work", !.status = "running"]
              z == [x EXCEPT !.status = "running"]
              fault == seen.fault \/ view # session
  <2>3. view \in {session, NewSession} /\ view \in SessionType
    BY IdleType DEF ReadOutcomes, TypeInv
  <2>4. x \in ExecType /\ x.view = view /\ x.asked = exec[e].asked /\ x.run = exec[e].run
    BY <1>1, <2>3 DEF ExecType
  <2>5. \/ (StepExec(e, Failed(x)) \/ StepExec(e, Failed(z))) /\ UNCHANGED intent
        \/ StepExec(e, y) /\ intent' = Registered(x.run)
    BY <2>2
  <2>6. seen' = [seen EXCEPT !.fault = fault] /\ fault \in BOOLEAN
    BY <1>1, <2>2 DEF SeenType
  <2>7. (seen.fault => fault) /\ (view # session => fault)
    OBVIOUS
  <2>. HIDE DEF fault
  <2>8. Tells /\ (view # session => seen'.fault) /\ seen'.deleted = seen.deleted
    BY <1>1, <2>6, <2>7 DEF Tells, SeenType
  <2>9. y.pc = "work" /\ y.view = view /\ y.asked = exec[e].asked
    BY <2>4 DEF ExecType
  <2>10. z \in ExecType /\ z.view = view /\ z.asked = exec[e].asked
    BY <2>4 DEF ExecType, Statuses
  <2>. HIDE DEF x, y, z
  <2>11. CASE (StepExec(e, Failed(x)) \/ StepExec(e, Failed(z))) /\ UNCHANGED intent
    <3>1. exec'[e] = Failed(x) \/ exec'[e] = Failed(z)
      BY <1>5, <2>11
    <3>2. /\ exec'[e].asked = exec[e].asked
          /\ \/ exec'[e].pc = "begin" /\ exec'[e].view = NewSession
             \/ exec'[e].pc = "store" /\ exec'[e].status = "error" /\ exec'[e].view = view
      BY <1>8, <2>4, <2>10, <3>1
    <3>3. Begins(e)
      BY <2>1, <2>3, <2>8, <2>11, <3>2 DEF Begins
    <3>. QED
      BY <1>2, <1>3, <1>4, <2>8, <3>3
  <2>12. CASE StepExec(e, y) /\ intent' = Registered(x.run)
    <3>1. exec'[e] = y
      BY <1>5, <2>12
    <3>2. Begins(e)
      BY <2>1, <2>3, <2>4, <2>8, <2>9, <2>12, <3>1 DEF Begins
    <3>. QED
      BY <1>2, <1>3, <1>4, <2>8, <3>2
  <2>. QED
    BY <2>5, <2>11, <2>12
<1>13. CASE Answer(e)
  <2>1. exec[e].pc = "work" /\ StepExec(e, Checked(exec[e], "answered")) /\ UNCHANGED <<session, intent, seen>>
    BY <1>13 DEF Answer
  <2>2. exec'[e] = Checked(exec[e], "answered")
    BY <1>5, <2>1
  <2>3. exec'[e].pc \in {"answered", "store"} /\ exec'[e].view = exec[e].view /\ exec'[e].asked = exec[e].asked
        /\ (exec'[e].pc = "answered" => intent[exec[e].run] # "cancelled")
        /\ (exec'[e].pc = "store" => exec'[e].status = "cancelled")
    BY <1>1, <2>2 DEF Checked, ExecType
  <2>4. Works(e)
    BY <2>1, <2>3 DEF Works
  <2>. QED
    BY <1>2, <1>3, <1>4, <1>7, <2>1, <2>4
<1>14. CASE Fails(e)
  <2>. DEFINE x == [exec[e] EXCEPT !.status = "error", !.pc = "store"]
  <2>1. exec[e].pc \in {"work", "answered"} /\ (StepExec(e, Failed(exec[e])) \/ StepExec(e, x))
        /\ UNCHANGED <<session, intent, seen>>
    BY <1>14 DEF Fails
  <2>2. x.pc = "store" /\ x.status = "error" /\ x.view = exec[e].view /\ x.asked = exec[e].asked
    BY <1>1 DEF ExecType
  <2>. HIDE DEF x
  <2>3. exec'[e] = Failed(exec[e]) \/ exec'[e] = x
    BY <1>5, <2>1
  <2>4. Works(e)
    BY <1>1, <1>8, <2>1, <2>2, <2>3 DEF Works
  <2>. QED
    BY <1>2, <1>3, <1>4, <1>7, <2>1, <2>4
<1>15. CASE Pause(e)
  <2>. DEFINE x == [exec[e] EXCEPT !.status = "paused", !.pc = "store"]
  <2>1. exec[e].pc = "answered" /\ StepExec(e, x) /\ UNCHANGED <<session, intent, seen>>
    BY <1>15 DEF Pause
  <2>2. x.pc = "store" /\ x.status = "paused" /\ x.view = exec[e].view /\ x.asked = exec[e].asked
    BY <1>1 DEF ExecType
  <2>. HIDE DEF x
  <2>3. exec'[e] = x
    BY <1>5, <2>1
  <2>4. Works(e)
    BY <2>1, <2>2, <2>3 DEF Works
  <2>. QED
    BY <1>2, <1>3, <1>4, <1>7, <2>1, <2>4
<1>16. CASE Complete(e)
  <2>. DEFINE x == [exec[e] EXCEPT !.status = "completed"]
  <2>1. exec[e].pc = "answered" /\ StepExec(e, Checked(x, "store")) /\ UNCHANGED <<session, intent, seen>>
    BY <1>16 DEF Complete
  <2>2. /\ x \in ExecType /\ x.status = "completed" /\ x.view = exec[e].view /\ x.asked = exec[e].asked
        /\ x.run = exec[e].run
    BY <1>1 DEF ExecType, Statuses, Terminal
  <2>. HIDE DEF x
  <2>3. exec'[e] = Checked(x, "store")
    BY <1>5, <2>1
  <2>4. exec'[e].pc = "store" /\ exec'[e].view = exec[e].view /\ exec'[e].asked = exec[e].asked
        /\ (\/ exec'[e].status = "cancelled"
            \/ exec'[e].status = "completed" /\ intent[exec[e].run] # "cancelled")
    BY <2>2, <2>3 DEF Checked, ExecType
  <2>5. Works(e)
    BY <2>1, <2>4 DEF Works
  <2>. QED
    BY <1>2, <1>3, <1>4, <1>7, <2>1, <2>5
<1>17. CASE Store(e)
  <2>. DEFINE view == WithRun(exec[e].view, exec[e].run, exec[e].status)
              x == [exec[e] EXCEPT !.pc = "cleanup", !.attempt = 0, !.view = NewSession, !.asked = "no"]
  <2>1. exec[e].pc = "store" /\ Upsert(view, exec[e].run) /\ StepExec(e, x) /\ intent' = intent
    BY <1>17 DEF Store
  <2>2. exec'[e] = x
    BY <1>5, <2>1
  <2>3. Wrote(view, exec[e].run) /\ Tells
    BY <1>6, <2>1
  <2>4. x.pc = "cleanup" /\ x.view = NewSession /\ x.status = exec[e].status
    BY <1>1 DEF ExecType
  <2>. HIDE DEF x
  <2>5. Stores(e)
    BY <2>1, <2>2, <2>3, <2>4 DEF Stores
  <2>. QED
    BY <1>2, <1>3, <1>4, <2>3, <2>5
<1>18. CASE Cleanup(e)
  <2>. DEFINE x == [exec[e] EXCEPT !.pc = "over"]
  <2>1. /\ exec[e].pc = "cleanup" /\ StepExec(e, x) /\ UNCHANGED session
        /\ intent' = [intent EXCEPT ![exec[e].run] = "none"]
        /\ seen' = [seen EXCEPT !.stray = seen.stray \ {exec[e].run}]
    BY <1>18 DEF Cleanup, CleanedUp
  <2>2. exec'[e] = x
    BY <1>5, <2>1
  <2>3. x.pc = "over" /\ x.view = exec[e].view /\ x.status = exec[e].status
    BY <1>1 DEF ExecType
  <2>. HIDE DEF x
  <2>4. Leaves(e)
    BY <2>1, <2>2, <2>3 DEF Leaves
  <2>. QED
    BY <1>2, <1>3, <1>4, <2>4
<1>. QED
  BY <1>9, <1>10, <1>11, <1>13, <1>14, <1>15, <1>16, <1>17, <1>18 DEF ExecStep

LEMMA ContinueMoves ==
    ASSUME TypeInv, NEW e \in Execs, NEW r \in Runs, Continue(e, r)
    PROVE  /\ exec[e].pc = "idle" /\ GivenOut(r)
           /\ exec'[e].pc = "begin" /\ exec'[e].run = r /\ exec'[e].view = NewSession
           /\ exec'[e].asked # "no" => intent[r] = "cancelled"
           /\ Others(e)
           /\ UNCHANGED <<session, intent, job, record>>
           /\ seen'.shared = IF ActiveOn(r) = {} THEN seen.shared ELSE seen.shared \cup {r}
           /\ seen'.exposed = seen.exposed \cup Met({r})
           /\ seen.fault => seen'.fault
           /\ seen'.deleted = seen.deleted
           /\ seen'.stray = seen.stray /\ seen'.gaveUp = seen.gaveUp
<1>. DEFINE asked == IF intent[r] = "cancelled" THEN "early" ELSE "no"
            x == [Idle EXCEPT !.pc = "begin", !.run = r, !.status = "paused", !.asked = asked]
            shared == IF ActiveOn(r) = {} THEN seen.shared ELSE seen.shared \cup {r}
            exposed == seen.exposed \cup Met({r})
<1>1. /\ exec[e].pc = "idle" /\ GivenOut(r) /\ StepExec(e, x)
      /\ UNCHANGED <<session, intent, job, record>>
  BY DEF Continue, Unused
<1>2. PICK view \in ReadOutcomes :
          seen' = [seen EXCEPT !.fault = @ \/ view # session, !.exposed = @ \cup Met({r}),
                               !.shared = IF ActiveOn(r) = {} THEN @ ELSE @ \cup {r}]
  BY DEF Continue
<1>3. x.pc = "begin" /\ x.run = r /\ x.view = NewSession /\ x.asked = asked
  BY DEF Idle
<1>4. exec \in [Execs -> ExecType] /\ seen \in SeenType
  BY DEF TypeInv, ExecOK
<1>. DEFINE fault == seen.fault \/ view # session
<1>5. seen' = [seen EXCEPT !.fault = fault, !.exposed = exposed, !.shared = shared]
  BY <1>2
<1>6. seen.fault => fault
  OBVIOUS
<1>. HIDE DEF x, shared, exposed, fault
<1>7. exec'[e] = x /\ Others(e)
  BY <1>1, <1>4 DEF StepExec, Others
<1>8. /\ seen'.shared = shared /\ seen'.exposed = exposed
      /\ seen.fault => seen'.fault
      /\ seen'.deleted = seen.deleted
      /\ seen'.stray = seen.stray /\ seen'.gaveUp = seen.gaveUp
  BY <1>4, <1>5, <1>6 DEF SeenType
<1>9. exec'[e].asked # "no" => intent[r] = "cancelled"
  BY <1>3, <1>7
<1>. QED
  BY <1>1, <1>3, <1>7, <1>8, <1>9 DEF shared, exposed

LEMMA DeleteMoves ==
    ASSUME TypeInv, DeleteSession
    PROVE  /\ session' = NewSession /\ UNCHANGED <<exec, intent, job, record>>
           /\ seen'.deleted = seen.deleted \cup InRow /\ seen'.exposed = seen.exposed \cup Met(InRow)
           /\ seen'.fault = seen.fault /\ seen'.shared = seen.shared
           /\ seen'.stray = seen.stray /\ seen'.gaveUp = seen.gaveUp
<1>. DEFINE deleted == seen.deleted \cup InRow
            exposed == seen.exposed \cup Met(InRow)
<1>1. /\ session' = NewSession /\ UNCHANGED <<exec, intent, job, record>>
      /\ seen' = [seen EXCEPT !.deleted = deleted, !.exposed = exposed]
      /\ seen \in SeenType
  BY DEF DeleteSession, TypeInv
<1>. HIDE DEF deleted, exposed
<1>2. /\ seen'.deleted = deleted /\ seen'.exposed = exposed
      /\ seen'.fault = seen.fault /\ seen'.shared = seen.shared
      /\ seen'.stray = seen.stray /\ seen'.gaveUp = seen.gaveUp
  BY <1>1 DEF SeenType
<1>. QED
  BY <1>1, <1>2 DEF deleted, exposed

LEMMA CancelMoves ==
    ASSUME TypeInv, NEW r \in Runs, Cancel(r)
    PROVE  /\ \A e \in Execs :
                 /\ exec'[e].pc = exec[e].pc /\ exec'[e].run = exec[e].run
                 /\ exec'[e].status = exec[e].status /\ exec'[e].view = exec[e].view
                 /\ exec'[e].asked = IF e \in ActiveOn(r) THEN Asked(exec[e]) ELSE exec[e].asked
           /\ intent' = [intent EXCEPT ![r] = "cancelled"]
           /\ UNCHANGED <<session, job, record>>
           /\ seen' = [seen EXCEPT !.stray = IF ActiveOn(r) = {} THEN seen.stray \cup {r} ELSE seen.stray]
<1>1. /\ exec \in [Execs -> ExecType] /\ UNCHANGED <<session, job, record>>
      /\ intent' = [intent EXCEPT ![r] = "cancelled"]
      /\ exec' = [e \in Execs |-> IF e \in ActiveOn(r) THEN [exec[e] EXCEPT !.asked = Asked(exec[e])]
                                                       ELSE exec[e]]
      /\ seen' = [seen EXCEPT !.stray = IF ActiveOn(r) = {} THEN seen.stray \cup {r} ELSE seen.stray]
  BY DEF TypeInv, ExecOK, Cancel
<1>2. ASSUME NEW e \in Execs
      PROVE  /\ exec'[e].pc = exec[e].pc /\ exec'[e].run = exec[e].run
             /\ exec'[e].status = exec[e].status /\ exec'[e].view = exec[e].view
             /\ exec'[e].asked = IF e \in ActiveOn(r) THEN Asked(exec[e]) ELSE exec[e].asked
  <2>1. CASE e \in ActiveOn(r)
    <3>. DEFINE asked == Asked(exec[e])
    <3>1. exec'[e] = [exec[e] EXCEPT !.asked = asked] /\ exec[e] \in ExecType
      BY <1>1, <2>1
    <3>. HIDE DEF asked
    <3>2. /\ exec'[e].pc = exec[e].pc /\ exec'[e].run = exec[e].run
          /\ exec'[e].status = exec[e].status /\ exec'[e].view = exec[e].view
          /\ exec'[e].asked = asked
      BY <3>1 DEF ExecType
    <3>. QED
      BY <2>1, <3>2 DEF asked
  <2>2. CASE e \notin ActiveOn(r)
    BY <1>1, <2>2
  <2>. QED
    BY <2>1, <2>2
<1>. QED
  BY <1>1, <1>2

LEMMA CrashMoves ==
    ASSUME TypeInv, Crash
    PROVE  /\ \A e \in Execs :
                 /\ exec'[e].run = exec[e].run /\ exec'[e].status = exec[e].status
                 /\ exec'[e].pc = IF Active(e) THEN "dead" ELSE exec[e].pc
                 /\ exec'[e].view \in {exec[e].view, NewSession}
           /\ intent' = [r \in Runs |-> "none"]
           /\ UNCHANGED <<session, job, record>>
           /\ seen' = [seen EXCEPT !.stray = {}]
<1>1. /\ exec \in [Execs -> ExecType] /\ UNCHANGED <<session, job, record>>
      /\ intent' = [r \in Runs |-> "none"] /\ seen' = [seen EXCEPT !.stray = {}]
      /\ exec' = [e \in Execs |-> IF Active(e) THEN [exec[e] EXCEPT !.pc = "dead", !.attempt = 0,
                                                                   !.view = NewSession, !.asked = "no"]
                                              ELSE exec[e]]
  BY DEF TypeInv, ExecOK, Crash
<1>2. ASSUME NEW e \in Execs
      PROVE  /\ exec'[e].run = exec[e].run /\ exec'[e].status = exec[e].status
             /\ exec'[e].pc = IF Active(e) THEN "dead" ELSE exec[e].pc
             /\ exec'[e].view \in {exec[e].view, NewSession}
  <2>1. CASE Active(e)
    <3>1. exec'[e] = [exec[e] EXCEPT !.pc = "dead", !.attempt = 0, !.view = NewSession, !.asked = "no"]
          /\ exec[e] \in ExecType
      BY <1>1, <2>1
    <3>. QED
      BY <2>1, <3>1 DEF ExecType
  <2>2. CASE ~Active(e)
    BY <1>1, <2>2
  <2>. QED
    BY <2>1, <2>2
<1>. QED
  BY <1>1, <1>2

(* An execution keeps its run, and once over stays over, with its status.     *)
LEMMA Shape ==
    ASSUME TypeInv, [Next]_vars, NEW d \in Execs
    PROVE  /\ exec[d].pc # "idle" => exec'[d].pc # "idle" /\ exec'[d].run = exec[d].run
           /\ exec[d].pc \in Final => exec'[d].pc \in Final /\ exec'[d].status = exec[d].status
<1>1. ASSUME NEW e \in Execs, ExecStep(e)
      PROVE  /\ exec[d].pc # "idle" => exec'[d].pc # "idle" /\ exec'[d].run = exec[d].run
             /\ exec[d].pc \in Final => exec'[d].pc \in Final /\ exec'[d].status = exec[d].status
  <2>1. CASE d # e
    BY <1>1, <2>1, ExecMoves DEF Others
  <2>2. CASE d = e
    <3>1. exec'[e].run = exec[e].run /\ exec'[e].pc # "idle"
      BY <1>1, ExecStepType
    <3>2. CASE Leaves(e)
      BY <2>2, <3>1, <3>2 DEF Leaves, Final
    <3>3. CASE Saves(e) \/ Begins(e) \/ Works(e) \/ Stores(e)
      BY <2>2, <3>1, <3>3 DEF Saves, Begins, Works, Stores, Final
    <3>. QED
      BY <1>1, <3>2, <3>3, ExecMoves
  <2>. QED
    BY <2>1, <2>2
<1>2. ASSUME NEW e \in Execs, Submitted(e)
      PROVE  /\ exec[d].pc # "idle" => exec'[d].pc # "idle" /\ exec'[d].run = exec[d].run
             /\ exec[d].pc \in Final => exec'[d].pc \in Final /\ exec'[d].status = exec[d].status
  <2>1. exec[e].pc = "idle" /\ \A c \in Execs \ {e} : exec'[c] = exec[c]
    BY <1>2, SubmittedType
  <2>. QED
    BY <2>1 DEF Final
<1>3. ASSUME NEW e \in Execs, NEW r \in Runs, Continue(e, r)
      PROVE  /\ exec[d].pc # "idle" => exec'[d].pc # "idle" /\ exec'[d].run = exec[d].run
             /\ exec[d].pc \in Final => exec'[d].pc \in Final /\ exec'[d].status = exec[d].status
  <2>1. exec[e].pc = "idle" /\ \A c \in Execs \ {e} : exec'[c] = exec[c]
    BY <1>3, ContinueMoves DEF Others
  <2>. QED
    BY <2>1 DEF Final
<1>4. ASSUME NEW r \in Runs, Cancel(r)
      PROVE  /\ exec[d].pc # "idle" => exec'[d].pc # "idle" /\ exec'[d].run = exec[d].run
             /\ exec[d].pc \in Final => exec'[d].pc \in Final /\ exec'[d].status = exec[d].status
  BY <1>4, CancelMoves
<1>5. CASE Crash
  BY <1>5, CrashMoves DEF Active, Final
<1>6. CASE Refused \/ CallRaises \/ PollEnds \/ Poll \/ DeleteSession \/ UNCHANGED vars
  <2>1. exec' = exec
    BY <1>6, AttemptEnds DEF DeleteSession, vars
  <2>. QED
    BY <2>1
<1>. QED
  BY <1>1, <1>2, <1>3, <1>4, <1>5, <1>6 DEF Next, JobStep, JobSubmits, UserSubmits

-----------------------------------------------------------------------------
(* The table of intentions. *)

LEMMA LiveStep ==
    ASSUME TypeInv, EntriesAreLive, [Next]_vars
    PROVE  EntriesAreLive'
<1>1. intent \in [Runs -> {"none", "registered", "cancelled"}] /\ seen \in SeenType
  BY DEF TypeInv
<1>2. ASSUME NEW e \in Execs, ExecStep(e)
      PROVE  EntriesAreLive'
  <2>. DEFINE run == exec[e].run
  <2>1. /\ exec'[e].run = run /\ run \in Runs
        /\ \A d \in Execs \ {e} : exec'[d] = exec[d]
    BY <1>2, ExecMoves DEF Others
  <2>2. CASE Leaves(e)
    <3>1. /\ intent' = [intent EXCEPT ![run] = "none"]
          /\ seen' = [seen EXCEPT !.stray = seen.stray \ {run}]
      BY <2>2 DEF Leaves
    <3>2. ASSUME NEW r \in Runs, intent'[r] # "none"
          PROVE  ActiveOn(r)' # {} \/ r \in seen'.stray
      <4>1. r # run /\ intent[r] # "none"
        BY <1>1, <3>1, <3>2
      <4>2. CASE r \in seen.stray
        BY <1>1, <3>1, <4>1, <4>2 DEF SeenType
      <4>3. CASE ActiveOn(r) # {}
        <5>1. PICK d \in Execs : Active(d) /\ exec[d].run = r
          BY <4>3 DEF ActiveOn
        <5>2. d # e /\ exec'[d] = exec[d]
          BY <2>1, <4>1, <5>1
        <5>. QED
          BY <5>1, <5>2 DEF ActiveOn, Active
      <4>. QED
        BY <4>1, <4>2, <4>3 DEF EntriesAreLive
    <3>. QED
      BY <3>2 DEF EntriesAreLive
  <2>3. CASE Tells /\ (Saves(e) \/ Begins(e) \/ Works(e) \/ Stores(e))
    <3>1. exec'[e].pc \in {"running", "begin", "work", "answered", "store", "cleanup"}
      BY <2>3 DEF Saves, Begins, Works, Stores
    <3>2. intent' = intent \/ intent' = Registered(run)
      BY <2>3 DEF Saves, Begins, Works, Stores
    <3>3. ASSUME NEW r \in Runs, intent'[r] # "none"
          PROVE  ActiveOn(r)' # {} \/ r \in seen'.stray
      <4>1. CASE r = run
        BY <2>1, <3>1, <4>1 DEF ActiveOn, Active
      <4>2. CASE r # run
        <5>1. intent[r] # "none"
          BY <1>1, <3>2, <3>3, <4>2 DEF Registered
        <5>2. CASE ActiveOn(r) # {}
          <6>1. PICK d \in Execs : Active(d) /\ exec[d].run = r
            BY <5>2 DEF ActiveOn
          <6>2. d # e /\ exec'[d] = exec[d]
            BY <2>1, <4>2, <6>1
          <6>. QED
            BY <6>1, <6>2 DEF ActiveOn, Active
        <5>3. CASE r \in seen.stray
          BY <2>3, <5>3 DEF Tells
        <5>. QED
          BY <5>1, <5>2, <5>3 DEF EntriesAreLive
      <4>. QED
        BY <4>1, <4>2
    <3>. QED
      BY <3>3 DEF EntriesAreLive
  <2>. QED
    BY <1>2, <2>2, <2>3, ExecMoves
<1>3. ASSUME NEW e \in Execs, NEW run \in Runs,
             exec[e].pc = "idle", exec'[e].pc \in {"pending", "begin"}, exec'[e].run = run,
             \A d \in Execs \ {e} : exec'[d] = exec[d],
             intent' = intent \/ intent' = Registered(run), seen'.stray = seen.stray
      PROVE  EntriesAreLive'
  <2>1. ASSUME NEW r \in Runs, intent'[r] # "none"
        PROVE  ActiveOn(r)' # {} \/ r \in seen'.stray
    <3>1. CASE r = run
      BY <1>3, <3>1 DEF ActiveOn, Active
    <3>2. CASE r # run
      <4>1. intent[r] # "none"
        BY <1>1, <1>3, <2>1, <3>2 DEF Registered
      <4>2. CASE ActiveOn(r) # {}
        <5>1. PICK d \in Execs : Active(d) /\ exec[d].run = r
          BY <4>2 DEF ActiveOn
        <5>2. d # e /\ exec'[d] = exec[d]
          BY <1>3, <5>1 DEF Active
        <5>. QED
          BY <5>1, <5>2 DEF ActiveOn, Active
      <4>3. CASE r \in seen.stray
        BY <1>3, <4>3
      <4>. QED
        BY <4>1, <4>2, <4>3 DEF EntriesAreLive
    <3>. QED
      BY <3>1, <3>2
  <2>. QED
    BY <2>1 DEF EntriesAreLive
<1>4. ASSUME NEW e \in Execs, Submitted(e)
      PROVE  EntriesAreLive'
  <2>1. e \in Runs
    BY DEF Runs
  <2>2. /\ exec[e].pc = "idle" /\ exec'[e].pc = "pending" /\ exec'[e].run = e
        /\ \A d \in Execs \ {e} : exec'[d] = exec[d]
        /\ intent' = Registered(e) /\ seen'.stray = seen.stray
    BY <1>4, SubmittedType
  <2>. QED
    BY <1>3, <2>1, <2>2
<1>5. ASSUME NEW e \in Execs, NEW r \in Runs, Continue(e, r)
      PROVE  EntriesAreLive'
  <2>1. /\ exec[e].pc = "idle" /\ exec'[e].pc = "begin" /\ exec'[e].run = r
        /\ \A d \in Execs \ {e} : exec'[d] = exec[d]
        /\ intent' = intent /\ seen'.stray = seen.stray
    BY <1>5, ContinueMoves, ZenonT(60) DEF Others
  <2>. QED
    BY <1>3, <2>1
<1>6. ASSUME NEW r \in Runs, Cancel(r)
      PROVE  EntriesAreLive'
  <2>1. /\ \A e \in Execs : exec'[e].pc = exec[e].pc /\ exec'[e].run = exec[e].run
        /\ intent' = [intent EXCEPT ![r] = "cancelled"]
        /\ seen'.stray = IF ActiveOn(r) = {} THEN seen.stray \cup {r} ELSE seen.stray
    BY <1>1, <1>6, CancelMoves, ZenonT(60) DEF SeenType
  <2>2. \A q \in Runs : ActiveOn(q)' = ActiveOn(q)
    BY <2>1 DEF ActiveOn, Active
  <2>. QED
    BY <1>1, <2>1, <2>2 DEF EntriesAreLive
<1>7. CASE Crash
  BY <1>7, CrashMoves DEF EntriesAreLive
<1>8. CASE Refused \/ CallRaises \/ PollEnds \/ Poll
  <2>1. exec' = exec /\ intent' = intent /\ seen'.stray = seen.stray
    BY <1>1, <1>8, AttemptEnds DEF SeenType
  <2>. QED
    BY <2>1 DEF EntriesAreLive, ActiveOn, Active
<1>9. CASE DeleteSession \/ UNCHANGED vars
  <2>1. exec' = exec /\ intent' = intent /\ seen'.stray = seen.stray
    <3>1. CASE DeleteSession
      BY <3>1, DeleteMoves
    <3>. QED
      BY <1>9, <3>1 DEF vars
  <2>. QED
    BY <2>1 DEF EntriesAreLive, ActiveOn, Active
<1>. QED
  BY <1>2, <1>4, <1>5, <1>6, <1>7, <1>8, <1>9 DEF Next, JobStep, JobSubmits, UserSubmits

(* The table of the cancellation manager does not grow with the runs: it has   *)
(* entries of runs under way, and of those cancelled when they were not.      *)
THEOREM TableHasLiveRuns == Spec => []EntriesAreLive
<1>1. Init => EntriesAreLive
  BY DEF Init, EntriesAreLive
<1>2. TypeInv /\ EntriesAreLive /\ [Next]_vars => EntriesAreLive'
  BY LiveStep
<1>. QED
  BY <1>1, <1>2, TypeInvariant, PTL DEF Spec

-----------------------------------------------------------------------------
(* What the row and the copies of it say about the runs. *)

IsFinal(x, shared, r) == x[r].pc # "idle" /\ (x[r].pc \in Final \/ r \in shared)

EndedWith(x, r, status) == \E e \in Execs : x[e].run = r /\ x[e].status = status /\ x[e].pc \in Final

(* A status in it was written by an execution of the run, and a terminal one   *)
(* at the end of an execution; by then the first one is over, unless the run  *)
(* was continued while it was under way.                                     *)
Says(view, x, shared) ==
    \A r \in Runs :
        /\ view[r] # "absent" => x[r].pc # "idle"
        /\ view[r] \in Terminal => IsFinal(x, shared, r) /\ EndedWith(x, r, view[r])

RunInv ==
    /\ Says(session, exec, seen.shared)
    /\ \A e \in Execs : Says(exec[e].view, exec, seen.shared)
    /\ \A e \in Execs : exec[e].pc \in {"pending", "running"} => exec[e].run = e
    /\ \A e \in Execs : exec[e].pc # "idle" /\ exec[e].run # e => IsFinal(exec, seen.shared, exec[e].run)

LEMMA SharedGrows ==
    ASSUME TypeInv, [Next]_vars
    PROVE  seen.shared \subseteq seen'.shared
<1>1. seen \in SeenType
  BY DEF TypeInv
<1>2. ASSUME NEW e \in Execs, ExecStep(e)
      PROVE  seen'.shared = seen.shared
  BY <1>1, <1>2, ExecMoves DEF Tells, Leaves, SeenType
<1>3. ASSUME NEW e \in Execs, Submitted(e)
      PROVE  seen'.shared = seen.shared
  BY <1>3, SubmittedType
<1>4. ASSUME NEW e \in Execs, NEW r \in Runs, Continue(e, r)
      PROVE  seen.shared \subseteq seen'.shared
  BY <1>4, ContinueMoves
<1>5. ASSUME NEW r \in Runs, Cancel(r)
      PROVE  seen'.shared = seen.shared
  BY <1>1, <1>5, CancelMoves DEF SeenType
<1>6. CASE Crash
  BY <1>1, <1>6, CrashMoves DEF SeenType
<1>7. CASE Refused \/ CallRaises \/ PollEnds \/ Poll
  BY <1>1, <1>7, AttemptEnds DEF SeenType
<1>8. CASE DeleteSession
  BY <1>8, DeleteMoves
<1>9. CASE UNCHANGED vars
  BY <1>9 DEF vars
<1>. QED
  BY <1>2, <1>3, <1>4, <1>5, <1>6, <1>7, <1>8, <1>9 DEF Next, JobStep, JobSubmits, UserSubmits

LEMMA EndedKept ==
    ASSUME TypeInv, [Next]_vars, NEW r \in Runs, NEW status, EndedWith(exec, r, status)
    PROVE  EndedWith(exec', r, status)
<1>1. PICK e \in Execs : exec[e].run = r /\ exec[e].status = status /\ exec[e].pc \in Final
  BY DEF EndedWith
<1>2. exec'[e].pc \in Final /\ exec'[e].status = exec[e].status
  BY <1>1, Shape
<1>3. exec'[e].run = r
  BY <1>1, Shape DEF Final
<1>. QED
  BY <1>1, <1>2, <1>3 DEF EndedWith

LEMMA SaysKept ==
    ASSUME TypeInv, [Next]_vars, NEW view, Says(view, exec, seen.shared)
    PROVE  Says(view, exec', seen'.shared)
<1>1. ASSUME NEW r \in Runs, view[r] # "absent"
      PROVE  exec'[r].pc # "idle"
  BY <1>1, Shape DEF Says, Runs
<1>2. ASSUME NEW r \in Runs, view[r] \in Terminal
      PROVE  IsFinal(exec', seen'.shared, r) /\ EndedWith(exec', r, view[r])
  <2>1. IsFinal(exec, seen.shared, r) /\ EndedWith(exec, r, view[r])
    BY <1>2 DEF Says
  <2>2. IsFinal(exec', seen'.shared, r)
    BY <2>1, Shape, SharedGrows DEF Runs, IsFinal
  <2>. QED
    BY <2>1, <2>2, EndedKept DEF IsFinal
<1>. QED
  BY <1>1, <1>2 DEF Says

LEMMA RunStep ==
    ASSUME TypeInv, RunInv, [Next]_vars
    PROVE  RunInv'
<1>1. /\ exec \in [Execs -> ExecType] /\ session \in SessionType /\ Runs = Execs
      /\ \A e \in Execs : exec[e].view \in SessionType
  BY DEF TypeInv, ExecOK, ExecType, Runs
<1>2. /\ Says(session, exec', seen'.shared) /\ Says(NewSession, exec', seen'.shared)
      /\ \A e \in Execs : Says(exec[e].view, exec', seen'.shared)
  <2>1. Says(session, exec', seen'.shared)
    BY SaysKept DEF RunInv
  <2>2. Says(NewSession, exec', seen'.shared)
    BY DEF NewSession, Terminal, Says
  <2>3. ASSUME NEW e \in Execs
        PROVE  Says(exec[e].view, exec', seen'.shared)
    <3>1. Says(exec[e].view, exec, seen.shared)
      BY DEF RunInv
    <3>. QED
      BY <3>1, SaysKept
  <2>. QED
    BY <2>1, <2>2, <2>3
<1>3. ASSUME NEW view \in SessionType, NEW run \in Runs, NEW status \in Statuses, Says(view, exec', seen'.shared),
             exec'[run].pc # "idle",
             status \in Terminal => IsFinal(exec', seen'.shared, run) /\ EndedWith(exec', run, status)
      PROVE  Says(WithRun(view, run, status), exec', seen'.shared)
  <2>1. ASSUME NEW r \in Runs
        PROVE  WithRun(view, run, status)[r] = IF r = run THEN status ELSE view[r]
    BY DEF WithRun, SessionType
  <2>2. ASSUME NEW r \in Runs
        PROVE  /\ WithRun(view, run, status)[r] # "absent" => exec'[r].pc # "idle"
               /\ WithRun(view, run, status)[r] \in Terminal =>
                     IsFinal(exec', seen'.shared, r) /\ EndedWith(exec', r, WithRun(view, run, status)[r])
    <3>1. CASE r = run
      BY <1>3, <2>1, <3>1
    <3>2. CASE r # run
      BY <1>3, <2>1, <3>2 DEF Says
    <3>. QED
      BY <3>1, <3>2
  <2>. QED
    BY <2>2 DEF Says
<1>5. ASSUME NEW d \in Execs, exec[d].pc # "idle", exec[d].run # d
      PROVE  IsFinal(exec', seen'.shared, exec[d].run)
  <2>1. exec[d].run \in Execs /\ IsFinal(exec, seen.shared, exec[d].run)
    BY <1>1, <1>5 DEF RunInv, TypeInv, ExecOK
  <2>. QED
    BY <2>1, Shape, SharedGrows DEF IsFinal
<1>6. ASSUME NEW e \in Execs, \A d \in Execs \ {e} : exec'[d] = exec[d],
             Says(session', exec', seen'.shared), Says(exec'[e].view, exec', seen'.shared),
             exec'[e].pc \in {"pending", "running"} => exec'[e].run = e,
             exec'[e].pc # "idle" /\ exec'[e].run # e => IsFinal(exec', seen'.shared, exec'[e].run)
      PROVE  RunInv'
  <2>1. \A d \in Execs : Says(exec'[d].view, exec', seen'.shared)
    <3>1. ASSUME NEW d \in Execs
          PROVE  Says(exec'[d].view, exec', seen'.shared)
      <4>1. CASE d = e
        BY <1>6, <4>1
      <4>2. CASE d # e
        BY <1>2, <1>6, <4>2
      <4>. QED
        BY <4>1, <4>2
    <3>. QED
      BY <3>1
  <2>2. ASSUME NEW d \in Execs, exec'[d].pc \in {"pending", "running"}
        PROVE  exec'[d].run = d
    BY <1>6, <2>2 DEF RunInv
  <2>3. ASSUME NEW d \in Execs, exec'[d].pc # "idle", exec'[d].run # d
        PROVE  IsFinal(exec', seen'.shared, exec'[d].run)
    <3>1. CASE d = e
      BY <1>6, <2>3, <3>1
    <3>2. CASE d # e
      <4>1. exec'[d] = exec[d]
        BY <1>6, <3>2
      <4>2. exec[d].pc # "idle" /\ exec[d].run # d
        BY <2>3, <4>1
      <4>3. IsFinal(exec', seen'.shared, exec[d].run)
        BY <1>5, <4>2
      <4>. QED
        BY <4>1, <4>3 DEF IsFinal
    <3>. QED
      BY <3>1, <3>2
  <2>. QED
    BY <1>6, <2>1, <2>2, <2>3 DEF RunInv
<1>7. ASSUME NEW e \in Execs, ExecStep(e)
      PROVE  RunInv'
  <2>. DEFINE run == exec[e].run
  <2>1. /\ exec'[e].run = run /\ run \in Runs /\ exec'[e].pc # "idle" /\ exec[e].pc # "idle"
        /\ \A d \in Execs \ {e} : exec'[d] = exec[d]
    BY <1>7, ExecMoves, ExecStepType DEF Others, Active
  <2>2. exec'[e].pc # "idle" /\ exec'[e].run # e => IsFinal(exec', seen'.shared, exec'[e].run)
    <3>1. ASSUME run # e
          PROVE  IsFinal(exec', seen'.shared, exec'[e].run)
      <4>1. IsFinal(exec', seen'.shared, run)
        BY <1>5, <2>1, <3>1
      <4>. QED
        BY <2>1, <4>1 DEF IsFinal
    <3>. QED
      BY <2>1, <3>1
  <2>3. CASE Saves(e)
    <3>. DEFINE status == IF exec[e].pc = "pending" THEN "pending" ELSE "running"
                view == exec[e].view
    <3>1. /\ exec'[e].view \in {WithRun(view, run, status), NewSession}
          /\ session' = WithRun(view, run, status) \/ session' = session
          /\ exec[e].pc \in {"pending", "running"} /\ exec'[e].pc # "pending"
      BY <2>3 DEF Saves, Wrote
    <3>2. status \in Statuses /\ status \notin Terminal /\ run = e
      BY <3>1 DEF Statuses, Terminal, RunInv
    <3>3. view \in SessionType /\ Says(view, exec', seen'.shared) /\ exec'[run].pc # "idle"
      BY <1>1, <1>2, <2>1, <3>2
    <3>. HIDE DEF status, view
    <3>4. Says(WithRun(view, run, status), exec', seen'.shared)
      BY <1>3, <2>1, <3>2, <3>3
    <3>5. Says(session', exec', seen'.shared) /\ Says(exec'[e].view, exec', seen'.shared)
      BY <1>2, <3>1, <3>4
    <3>. QED
      BY <1>6, <2>1, <2>2, <3>2, <3>5
  <2>4. CASE Begins(e)
    <3>1. /\ exec'[e].view \in {session, NewSession} /\ session' = session
          /\ exec'[e].pc \notin {"pending", "running"}
      BY <2>4 DEF Begins
    <3>2. Says(session', exec', seen'.shared) /\ Says(exec'[e].view, exec', seen'.shared)
      BY <1>2, <3>1
    <3>. QED
      BY <1>6, <2>1, <2>2, <3>1, <3>2
  <2>5. CASE Works(e) \/ Leaves(e)
    <3>1. /\ exec'[e].view \in {exec[e].view, NewSession} /\ session' = session
          /\ exec'[e].pc \notin {"pending", "running"}
      BY <2>5 DEF Works, Leaves
    <3>2. Says(session', exec', seen'.shared) /\ Says(exec'[e].view, exec', seen'.shared)
      BY <1>2, <3>1
    <3>. QED
      BY <1>6, <2>1, <2>2, <3>1, <3>2
  <2>6. CASE Stores(e)
    <3>. DEFINE view == exec[e].view
                status == exec[e].status
    <3>1. /\ exec'[e].view = NewSession /\ exec'[e].pc = "cleanup" /\ exec'[e].status = status
          /\ session' = WithRun(view, run, status) \/ session' = session
      BY <2>6 DEF Stores, Wrote
    <3>2. IsFinal(exec', seen'.shared, run) /\ exec'[run].pc # "idle"
      <4>1. CASE run = e
        BY <3>1, <4>1 DEF IsFinal, Final
      <4>2. CASE run # e
        BY <1>5, <2>1, <4>2 DEF IsFinal, Final
      <4>. QED
        BY <4>1, <4>2
    <3>3. EndedWith(exec', run, status)
      BY <2>1, <3>1 DEF EndedWith, Final
    <3>4. view \in SessionType /\ status \in Statuses /\ Says(view, exec', seen'.shared)
      BY <1>1, <1>2 DEF ExecType
    <3>. HIDE DEF view, status
    <3>5. Says(WithRun(view, run, status), exec', seen'.shared)
      BY <1>3, <2>1, <3>2, <3>3, <3>4
    <3>6. Says(session', exec', seen'.shared) /\ Says(exec'[e].view, exec', seen'.shared)
      BY <1>2, <3>1, <3>5
    <3>. QED
      BY <1>6, <2>1, <2>2, <3>1, <3>6
  <2>. QED
    BY <1>7, <2>3, <2>4, <2>5, <2>6, ExecMoves
<1>8. ASSUME NEW e \in Execs, Submitted(e), UNCHANGED session
      PROVE  RunInv'
  <2>1. /\ \A d \in Execs \ {e} : exec'[d] = exec[d]
        /\ exec'[e].run = e /\ exec'[e].view \in {session, NewSession}
    BY <1>8, SubmittedType
  <2>2. Says(session', exec', seen'.shared) /\ Says(exec'[e].view, exec', seen'.shared)
    BY <1>2, <1>8, <2>1
  <2>. QED
    BY <1>6, <2>1, <2>2
<1>9. ASSUME NEW e \in Execs, NEW r \in Runs, Continue(e, r)
      PROVE  RunInv'
  <2>1. /\ \A d \in Execs \ {e} : exec'[d] = exec[d]
        /\ exec'[e].run = r /\ exec'[e].view = NewSession /\ exec'[e].pc = "begin"
        /\ session' = session /\ GivenOut(r) /\ exec[e].pc = "idle"
        /\ seen'.shared = IF ActiveOn(r) = {} THEN seen.shared ELSE seen.shared \cup {r}
    BY <1>9, ContinueMoves, ZenonT(60) DEF Others
  <2>2. Says(session', exec', seen'.shared) /\ Says(exec'[e].view, exec', seen'.shared)
    BY <1>2, <2>1
  <2>3. IsFinal(exec', seen'.shared, r)
    <3>1. exec[r].run = r /\ exec[r].pc # "idle" /\ r \in Execs /\ exec'[r] = exec[r]
      BY <1>1, <2>1 DEF GivenOut
    <3>2. CASE ActiveOn(r) = {}
      BY <3>1, <3>2 DEF ActiveOn, Active, IsFinal, Final
    <3>3. CASE ActiveOn(r) # {}
      BY <2>1, <3>1, <3>3 DEF IsFinal
    <3>. QED
      BY <3>2, <3>3
  <2>4. IsFinal(exec', seen'.shared, exec'[e].run)
    BY <2>1, <2>3 DEF IsFinal
  <2>. QED
    BY <1>6, <2>1, <2>2, <2>4
<1>10. ASSUME session' \in {session, NewSession},
              \A d \in Execs : /\ exec'[d].view \in {exec[d].view, NewSession}
                               /\ exec'[d].run = exec[d].run
                               /\ exec'[d].pc \in {exec[d].pc, "dead"}
                               /\ exec'[d].pc = "dead" => exec[d].pc # "idle"
       PROVE  RunInv'
  <2>1. Says(session', exec', seen'.shared) /\ \A d \in Execs : Says(exec'[d].view, exec', seen'.shared)
    BY <1>2, <1>10
  <2>2. ASSUME NEW d \in Execs, exec'[d].pc \in {"pending", "running"}
        PROVE  exec'[d].run = d
    BY <1>10, <2>2 DEF RunInv
  <2>3. ASSUME NEW d \in Execs, exec'[d].pc # "idle", exec'[d].run # d
        PROVE  IsFinal(exec', seen'.shared, exec'[d].run)
    <3>1. exec[d].pc # "idle" /\ exec[d].run # d /\ exec'[d].run = exec[d].run
      BY <1>10, <2>3
    <3>2. IsFinal(exec', seen'.shared, exec[d].run)
      BY <1>5, <3>1
    <3>. QED
      BY <3>1, <3>2 DEF IsFinal
  <2>. QED
    BY <2>1, <2>2, <2>3 DEF RunInv
<1>11. ASSUME NEW r \in Runs, Cancel(r)
       PROVE  RunInv'
  <2>1. /\ session' = session
        /\ \A d \in Execs : /\ exec'[d].view = exec[d].view /\ exec'[d].run = exec[d].run
                            /\ exec'[d].pc = exec[d].pc
    BY <1>11, CancelMoves
  <2>2. ASSUME NEW d \in Execs
        PROVE  exec'[d].pc = "dead" => exec[d].pc # "idle"
    BY <2>1
  <2>. QED
    BY <1>10, <2>1, <2>2
<1>12. CASE Crash
  <2>1. /\ session' = session
        /\ \A d \in Execs : /\ exec'[d].run = exec[d].run
                            /\ exec'[d].pc = IF Active(d) THEN "dead" ELSE exec[d].pc
                            /\ exec'[d].view \in {exec[d].view, NewSession}
    BY <1>12, CrashMoves
  <2>2. ASSUME NEW d \in Execs
        PROVE  exec'[d].pc \in {exec[d].pc, "dead"} /\ (exec'[d].pc = "dead" => exec[d].pc # "idle")
    BY <2>1 DEF Active
  <2>. QED
    BY <1>10, <2>1, <2>2
<1>13. CASE Refused \/ CallRaises \/ PollEnds \/ Poll \/ DeleteSession \/ UNCHANGED vars
  <2>1. exec' = exec /\ session' \in {session, NewSession}
    BY <1>13, AttemptEnds DEF DeleteSession, vars
  <2>. QED
    BY <1>10, <2>1
<1>. QED
  BY <1>7, <1>8, <1>9, <1>11, <1>12, <1>13 DEF Next, JobStep, JobSubmits, UserSubmits

LEMMA RunInvariant == Spec => []RunInv
<1>1. Init => RunInv
  BY DEF Init, RunInv, Says, NewSession, Idle, Terminal, Runs
<1>2. TypeInv /\ RunInv /\ [Next]_vars => RunInv'
  BY RunStep
<1>. QED
  BY <1>1, <1>2, TypeInvariant, PTL DEF Spec

-----------------------------------------------------------------------------
(* The executor's records. *)

(* What the record of attempt a says, and that the first execution of a failed *)
(* attempt followed by others is over, or its run shared, unless the executor *)
(* gave up on it.                                                            *)
Truth(a, row, x, shared, gaveUp, attempt) ==
    /\ row.status = "success" => EndedWith(x, row.run, "completed")
    /\ row.status = "paused" => EndedWith(x, row.run, "paused")
    /\ row.status = "failed" /\ a \notin gaveUp =>
          EndedWith(x, row.run, "error") \/ EndedWith(x, row.run, "cancelled")
    /\ a < attempt /\ a \notin gaveUp => row.run \in Runs /\ IsFinal(x, shared, row.run)

TruthInv == \A a \in Attempts : Truth(a, record[a], exec, seen.shared, seen.gaveUp, job.attempt)

LEMMA TruthKept ==
    ASSUME TypeInv, TruthInv, [Next]_vars, NEW a \in Attempts
    PROVE  Truth(a, record[a], exec', seen'.shared, seen.gaveUp, job.attempt)
<1>. DEFINE row == record[a]
<1>1. row \in RecordType /\ Truth(a, row, exec, seen.shared, seen.gaveUp, job.attempt)
  BY DEF TypeInv, TruthInv
<1>. HIDE DEF row
<1>2. \A status : row.run \in Runs /\ EndedWith(exec, row.run, status) => EndedWith(exec', row.run, status)
  BY EndedKept
<1>3. row.run \notin Runs => \A status : ~EndedWith(exec, row.run, status)
  <2>1. ASSUME NEW status, EndedWith(exec, row.run, status)
        PROVE  row.run \in Runs
    <3>1. PICK e \in Execs : exec[e].run = row.run /\ exec[e].pc \in Final
      BY <2>1 DEF EndedWith
    <3>. QED
      BY <3>1 DEF TypeInv, ExecOK, Final
  <2>. QED
    BY <2>1
<1>4. row.run \in Runs /\ IsFinal(exec, seen.shared, row.run) => IsFinal(exec', seen'.shared, row.run)
  BY Shape, SharedGrows DEF IsFinal, Runs
<1>5. \A status : EndedWith(exec, row.run, status) => EndedWith(exec', row.run, status)
  BY <1>2, <1>3
<1>6. Truth(a, row, exec', seen'.shared, seen.gaveUp, job.attempt)
  BY <1>1, <1>4, <1>5 DEF Truth
<1>. QED
  BY <1>6 DEF row

LEMMA TruthStep ==
    ASSUME TypeInv, RunInv, TruthInv, [Next]_vars
    PROVE  TruthInv'
<1>1. /\ record \in [Attempts -> RecordType] /\ job \in JobType /\ seen \in SeenType
      /\ session \in SessionType /\ job.attempt \in Attempts
      /\ job.pc \in {"wait", "poll"} => job.run \in Runs
  BY DEF TypeInv, JobOK, JobType
<1>2. \A a \in Attempts : Truth(a, record[a], exec', seen'.shared, seen.gaveUp, job.attempt)
  BY TruthKept
<1>3. ASSUME record' = record, seen'.gaveUp = seen.gaveUp, job'.attempt = job.attempt
      PROVE  TruthInv'
  <2>1. \A a \in Attempts : Truth(a, record'[a], exec', seen'.shared, seen'.gaveUp, job'.attempt)
    BY <1>2, <1>3
  <2>. QED
    BY <2>1 DEF TruthInv
<1>4. ASSUME NEW e \in Execs, ExecStep(e)
      PROVE  TruthInv'
  <2>1. record' = record
    BY <1>4, ExecMoves
  <2>2. seen'.gaveUp = seen.gaveUp
    <3>1. CASE Tells
      BY <3>1 DEF Tells
    <3>2. CASE Leaves(e)
      BY <1>1, <3>2 DEF Leaves, SeenType
    <3>. QED
      BY <1>4, <3>1, <3>2, ExecMoves
  <2>3. job'.attempt = job.attempt
    <3>1. job' = job \/ job' = [job EXCEPT !.pc = "poll"]
      BY <1>4 DEF ExecStep, SavePending, SaveRunning, Begin, Answer, Fails, Pause, Complete, Store, Cleanup
    <3>. QED
      BY <1>1, <3>1 DEF JobType
  <2>. QED
    BY <1>3, <2>1, <2>2, <2>3
<1>5. ASSUME NEW e \in Execs, UserSubmits(e)
      PROVE  TruthInv'
  <2>1. record' = record /\ seen'.gaveUp = seen.gaveUp /\ job' = job
    BY <1>5, SubmittedType DEF UserSubmits
  <2>. QED
    BY <1>3, <2>1
<1>6. ASSUME NEW e \in Execs, NEW r \in Runs, Continue(e, r)
      PROVE  TruthInv'
  <2>1. record' = record /\ seen'.gaveUp = seen.gaveUp /\ job' = job
    BY <1>6, ContinueMoves
  <2>. QED
    BY <1>3, <2>1
<1>7. ASSUME NEW r \in Runs, Cancel(r)
      PROVE  TruthInv'
  <2>1. record' = record /\ job' = job
        /\ seen' = [seen EXCEPT !.stray = IF ActiveOn(r) = {} THEN seen.stray \cup {r} ELSE seen.stray]
    BY <1>7, CancelMoves
  <2>2. seen'.gaveUp = seen.gaveUp
    BY <1>1, <2>1 DEF SeenType
  <2>. QED
    BY <1>3, <2>1, <2>2
<1>8. CASE Crash
  <2>1. record' = record /\ job' = job /\ seen' = [seen EXCEPT !.stray = {}]
    BY <1>8, CrashMoves
  <2>2. seen'.gaveUp = seen.gaveUp
    BY <1>1, <2>1 DEF SeenType
  <2>. QED
    BY <1>3, <2>1, <2>2
<1>9. CASE DeleteSession
  BY <1>3, <1>9, DeleteMoves
<1>10. CASE UNCHANGED vars
  BY <1>3, <1>10 DEF vars
(* The attempt that begins is not recorded yet. *)
<1>11. ASSUME NEW e \in Execs, JobSubmits(e)
       PROVE  TruthInv'
  <2>1. /\ record' = [record EXCEPT ![job.attempt].status = "running"]
        /\ job' = [job EXCEPT !.pc = "wait", !.run = e] /\ seen'.gaveUp = seen.gaveUp
    BY <1>11, SubmittedType DEF JobSubmits
  <2>2. job'.attempt = job.attempt
    BY <1>1, <2>1 DEF JobType
  <2>3. ASSUME NEW a \in Attempts
        PROVE  Truth(a, record'[a], exec', seen'.shared, seen.gaveUp, job.attempt)
    <3>1. CASE a = job.attempt
      <4>1. record[a] \in RecordType
        BY <1>1
      <4>2. record'[a] = [record[a] EXCEPT !.status = "running"]
        BY <1>1, <2>1, <3>1
      <4>3. record'[a].status = "running"
        BY <4>1, <4>2 DEF RecordType
      <4>4. ~(a < job.attempt)
        BY <3>1, <1>1, BackgroundRunsAssumption DEF Attempts
      <4>. QED
        BY <4>3, <4>4 DEF Truth
    <3>2. CASE a # job.attempt
      <4>1. record'[a] = record[a]
        BY <1>1, <2>1, <3>2
      <4>. QED
        BY <1>2, <4>1
    <3>. QED
      BY <3>1, <3>2
  <2>. QED
    BY <2>1, <2>2, <2>3 DEF TruthInv
<1>12. CASE Refused \/ CallRaises \/ PollEnds \/ Poll
  <2>1. exec' = exec /\ seen'.shared = seen.shared
    BY <1>1, <1>12, AttemptEnds DEF SeenType
  <2>2. ASSUME NEW a \in Attempts, a # job.attempt, NEW next \in {job.attempt, job.attempt + 1},
               NEW gaveUp, gaveUp \in {seen.gaveUp, seen.gaveUp \cup {job.attempt}}
        PROVE  Truth(a, record[a], exec, seen.shared, gaveUp, next)
    <3>1. a < next => a < job.attempt
      BY <1>1, <2>2, BackgroundRunsAssumption DEF Attempts
    <3>2. a \notin gaveUp => a \notin seen.gaveUp
      BY <2>2
    <3>3. Truth(a, record[a], exec, seen.shared, seen.gaveUp, job.attempt)
      BY DEF TruthInv
    <3>. QED
      BY <3>1, <3>2, <3>3 DEF Truth
  <2>3. ASSUME NEW run \in Runs \cup {NoRun},
               record' = [record EXCEPT ![job.attempt] = [status |-> "failed", run |-> run]],
               seen' = [seen EXCEPT !.gaveUp = seen.gaveUp \cup {job.attempt}],
               job'.attempt \in {job.attempt, job.attempt + 1}
        PROVE  TruthInv'
    <3>. DEFINE gaveUp == seen.gaveUp \cup {job.attempt}
    <3>1. seen'.gaveUp = gaveUp
      BY <1>1, <2>3 DEF SeenType
    <3>2. ASSUME NEW a \in Attempts
          PROVE  Truth(a, record'[a], exec, seen.shared, gaveUp, job'.attempt)
      <4>1. CASE a = job.attempt
        <5>1. record'[a].status = "failed" /\ a \in gaveUp
          BY <1>1, <2>3, <4>1
        <5>. QED
          BY <5>1 DEF Truth
      <4>2. CASE a # job.attempt
        <5>1. record'[a] = record[a]
          BY <1>1, <2>3, <4>2
        <5>. QED
          BY <2>2, <2>3, <4>2, <5>1
      <4>. QED
        BY <4>1, <4>2
    <3>. QED
      BY <2>1, <3>1, <3>2 DEF TruthInv
  <2>4. ASSUME job.pc = "poll", session[job.run] \in Terminal,
               record' = [record EXCEPT ![job.attempt] = [status |-> ResultOf(session[job.run]),
                                                         run |-> job.run]],
               job'.attempt = job.attempt
                     \/ (job'.attempt = job.attempt + 1 /\ ResultOf(session[job.run]) = "failed"),
               seen' = seen
        PROVE  TruthInv'
    <3>. DEFINE status == session[job.run]
    <3>1. job.run \in Runs /\ status \in Terminal
      BY <1>1, <2>4
    <3>2. IsFinal(exec, seen.shared, job.run) /\ EndedWith(exec, job.run, status)
      BY <3>1 DEF RunInv, Says
    <3>3. record'[job.attempt].status = ResultOf(status) /\ record'[job.attempt].run = job.run
      BY <1>1, <2>4
    <3>4. ASSUME NEW a \in Attempts
          PROVE  Truth(a, record'[a], exec, seen.shared, seen.gaveUp, job'.attempt)
      <4>1. CASE a = job.attempt
        <5>. HIDE DEF status
        <5>1. /\ ResultOf(status) = "success" => status = "completed"
              /\ ResultOf(status) = "paused" => status = "paused"
              /\ ResultOf(status) = "failed" => status \in {"error", "cancelled"}
          BY <3>1 DEF ResultOf, Terminal
        <5>. QED
          BY <3>1, <3>2, <3>3, <4>1, <5>1 DEF Truth
      <4>2. CASE a # job.attempt
        <5>1. record'[a] = record[a]
          BY <1>1, <2>4, <4>2
        <5>. QED
          BY <2>2, <2>4, <4>2, <5>1
      <4>. QED
        BY <4>1, <4>2
    <3>. QED
      BY <2>1, <2>4, <3>4 DEF TruthInv
  <2>. QED
    BY <1>12, <2>3, <2>4, AttemptEnds
<1>. QED
  BY <1>4, <1>5, <1>6, <1>7, <1>8, <1>9, <1>10, <1>11, <1>12 DEF Next, JobStep

LEMMA TruthInvariant == Spec => []TruthInv
<1>1. Init => TruthInv
  <2>. SUFFICES ASSUME Init PROVE TruthInv
    OBVIOUS
  <2>1. \A a \in Attempts : record[a].status = "none" /\ ~(a < job.attempt)
    BY BackgroundRunsAssumption DEF Init, Attempts
  <2>. QED
    BY <2>1 DEF TruthInv, Truth
<1>2. TypeInv /\ RunInv /\ TruthInv /\ [Next]_vars => TruthInv'
  BY TruthStep
<1>. QED
  BY <1>1, <1>2, TypeInvariant, RunInvariant, PTL DEF Spec

(* A record says "success" or "paused" only of a run that completed or paused, *)
(* and "failed" of one that failed or was cancelled, unless the executor gave *)
(* up on it, whatever the other runs, the users, crashes and the database do. *)
THEOREM RecordsHold == Spec => []RecordsTellTruth
<1>1. TruthInv => RecordsTellTruth
  <2>. SUFFICES ASSUME TruthInv, NEW a \in Attempts
                PROVE  LET r == record[a].run IN
                       /\ record[a].status = "success" => Ended(r, {"completed"})
                       /\ record[a].status = "paused" => Ended(r, {"paused"})
                       /\ record[a].status = "failed" /\ a \notin seen.gaveUp => Ended(r, {"error", "cancelled"})
    BY DEF RecordsTellTruth
  <2>1. Truth(a, record[a], exec, seen.shared, seen.gaveUp, job.attempt)
    BY DEF TruthInv
  <2>2. ASSUME NEW status, NEW statuses, status \in statuses, EndedWith(exec, record[a].run, status)
        PROVE  Ended(record[a].run, statuses)
    BY <2>2 DEF EndedWith, Ended, Final
  <2>. QED
    BY <2>1, <2>2 DEF Truth
<1>. QED
  BY <1>1, TruthInvariant, PTL

(* A retry of the schedule begins after the executions that the earlier         *)
(* attempts started are over, but for those the executor gave up on and those *)
(* of a run that was continued while it was under way.                       *)
THEOREM RetriesComeAfter == Spec => []RetriesFollow
<1>1. TypeInv /\ TruthInv => RetriesFollow
  <2>. SUFFICES ASSUME TypeInv, TruthInv, NEW a \in 1..(job.attempt - 1) \ seen.gaveUp
                PROVE  \/ exec[record[a].run].pc \in {"cleanup", "over", "dead"}
                       \/ record[a].run \in seen.shared
    BY DEF RetriesFollow
  <2>1. job.attempt \in Attempts
    BY DEF TypeInv, JobOK, JobType
  <2>2. a \in Attempts /\ a < job.attempt /\ a \notin seen.gaveUp
    BY <2>1, BackgroundRunsAssumption DEF Attempts
  <2>3. Truth(a, record[a], exec, seen.shared, seen.gaveUp, job.attempt)
    BY <2>2 DEF TruthInv
  <2>. QED
    BY <2>2, <2>3 DEF Truth, IsFinal, Final
<1>. QED
  BY <1>1, TypeInvariant, TruthInvariant, PTL

-----------------------------------------------------------------------------
(* Cancellation. *)

Alive(x) == x.pc \notin {"idle", "over", "dead"}

(* Two executions of one run at a time make it shared. *)
Apart(x, shared) ==
    \A d, e \in Execs : d # e /\ Alive(x[d]) /\ Alive(x[e]) /\ x[d].run = x[e].run => x[e].run \in shared

(* A cancellation that the execution has not met yet is in the table; once it  *)
(* has answered none of before is left; at the end it has had its effect.     *)
Heard(x, table, shared) ==
    /\ x.pc = "pending" => x.asked = "no"
    /\ Alive(x) /\ x.run \notin shared =>
          /\ x.pc \in {"running", "begin", "work", "answered"} /\ x.asked # "no" => table[x.run] = "cancelled"
          /\ x.pc = "answered" => x.asked # "early"
          /\ x.pc = "store" /\ x.asked = "early" => x.status \in {"cancelled", "error"}
          /\ x.pc = "store" /\ x.asked = "late" => x.status # "completed"

CancelInv ==
    /\ Apart(exec, seen.shared)
    /\ \A e \in Execs : Heard(exec[e], intent, seen.shared)

(* What is heard of stays heard of when the table keeps cancelled entries. *)
LEMMA HeardKept ==
    ASSUME NEW x, NEW table, NEW later, NEW shared, NEW more, Heard(x, table, shared),
           shared \subseteq more,
           x.run \notin more /\ Alive(x) /\ table[x.run] = "cancelled" => later[x.run] = "cancelled"
    PROVE  Heard(x, later, more)
  BY DEF Heard, Alive

LEMMA RegisteredKeeps ==
    ASSUME TypeInv, NEW r \in Runs, NEW q \in Runs, intent[q] = "cancelled"
    PROVE  Registered(r)[q] = "cancelled"
<1>1. intent \in [Runs -> {"none", "registered", "cancelled"}]
  BY DEF TypeInv
<1>. QED
  BY <1>1 DEF Registered

(* One execution moves and the others do not. *)
LEMMA MovesApart ==
    ASSUME TypeInv, CancelInv, NEW e \in Execs, Others(e), NEW more, seen.shared \subseteq more,
           \A d \in Execs \ {e} : Alive(exec[d]) /\ Alive(exec'[e]) /\ exec[d].run = exec'[e].run
                                     => exec'[e].run \in more
    PROVE  Apart(exec', more)
<1>. SUFFICES ASSUME NEW c \in Execs, NEW d \in Execs, c # d, Alive(exec'[c]), Alive(exec'[d]),
                     exec'[c].run = exec'[d].run
              PROVE  exec'[d].run \in more
  BY DEF Apart
<1>1. CASE c = e
  BY <1>1 DEF Others
<1>2. CASE d = e
  BY <1>2 DEF Others
<1>3. CASE c # e /\ d # e
  <2>1. exec'[c] = exec[c] /\ exec'[d] = exec[d]
    BY <1>3 DEF Others
  <2>. QED
    BY <2>1 DEF CancelInv, Apart
<1>. QED
  BY <1>1, <1>2, <1>3

LEMMA OneHears ==
    ASSUME TypeInv, CancelInv, NEW e \in Execs, Others(e), seen.shared \subseteq seen'.shared,
           \A d \in Execs \ {e} : Alive(exec[d]) /\ Alive(exec'[e]) /\ exec[d].run = exec'[e].run
                                     => exec'[e].run \in seen'.shared,
           \A d \in Execs \ {e} : exec[d].run \notin seen'.shared /\ Alive(exec[d])
                /\ intent[exec[d].run] = "cancelled" => intent'[exec[d].run] = "cancelled",
           Heard(exec'[e], intent', seen'.shared)
    PROVE  CancelInv'
<1>1. Apart(exec', seen'.shared)
  BY MovesApart
<1>2. ASSUME NEW d \in Execs
      PROVE  Heard(exec'[d], intent', seen'.shared)
  <2>1. CASE d = e
    BY <2>1
  <2>2. CASE d # e
    <3>1. exec'[d] = exec[d]
      BY <2>2 DEF Others
    <3>2. Heard(exec[d], intent, seen.shared)
      BY DEF CancelInv
    <3>3. Heard(exec[d], intent', seen'.shared)
      BY <2>2, <3>2, HeardKept
    <3>. QED
      BY <3>1, <3>3
  <2>. QED
    BY <2>1, <2>2
<1>. QED
  BY <1>1, <1>2 DEF CancelInv

LEMMA CancelStep ==
    ASSUME TypeInv, RunInv, CancelInv, [Next]_vars
    PROVE  CancelInv'
<1>1. /\ intent \in [Runs -> {"none", "registered", "cancelled"}] /\ seen \in SeenType
      /\ exec \in [Execs -> ExecType]
      /\ \A e \in Execs : Alive(exec[e]) => exec[e].run \in Runs
  BY DEF TypeInv, ExecOK, Alive
<1>2. ASSUME NEW e \in Execs, ExecStep(e)
      PROVE  CancelInv'
  <2>. DEFINE run == exec[e].run
  <2>1. exec'[e].run = run /\ run \in Runs /\ Others(e) /\ Alive(exec[e])
    BY <1>2, ExecMoves, ExecStepType DEF Alive, Active
  <2>2. ASSUME seen'.shared = seen.shared
        PROVE  /\ seen.shared \subseteq seen'.shared
               /\ \A d \in Execs \ {e} : Alive(exec[d]) /\ Alive(exec'[e]) /\ exec[d].run = exec'[e].run
                                            => exec'[e].run \in seen'.shared
    BY <2>1, <2>2 DEF CancelInv, Apart
  <2>3. Heard(exec[e], intent, seen.shared)
    BY DEF CancelInv
  <2>4. ASSUME Tells, intent' \in {intent, Registered(run)}
        PROVE  /\ seen'.shared = seen.shared
               /\ \A q \in Runs : intent[q] = "cancelled" => intent'[q] = "cancelled"
    BY <2>1, <2>4, RegisteredKeeps DEF Tells
  <2>5. CASE Tells /\ Saves(e)
    <3>1. Heard(exec'[e], intent', seen'.shared)
      BY <2>1, <2>3, <2>5 DEF Saves, Tells, Heard, Alive
    <3>2. intent' = intent
      BY <2>5 DEF Saves
    <3>. QED
      BY <1>1, <2>1, <2>2, <2>4, <2>5, <3>1, <3>2, OneHears
  <2>6. CASE Tells /\ Begins(e)
    <3>1. intent' \in {intent, Registered(run)}
      BY <2>6 DEF Begins
    <3>2. exec'[e].asked # "no" /\ run \notin seen.shared => intent'[run] = "cancelled"
      BY <2>1, <2>3, <2>4, <2>6, <3>1 DEF Begins, Heard
    <3>3. Heard(exec'[e], intent', seen'.shared)
      BY <2>1, <2>4, <2>6, <3>1, <3>2 DEF Begins, Heard, Alive
    <3>. QED
      BY <1>1, <2>1, <2>2, <2>4, <2>6, <3>1, <3>3, OneHears
  <2>7. CASE Tells /\ Works(e)
    <3>1. intent' = intent
      BY <2>7 DEF Works
    <3>2. exec[e].asked \in {"no", "early", "late"}
      BY <1>1 DEF ExecType
    <3>3. Heard(exec'[e], intent', seen'.shared)
      BY <2>1, <2>3, <2>7, <3>1, <3>2 DEF Works, Tells, Heard, Alive
    <3>. QED
      BY <1>1, <2>1, <2>2, <2>4, <2>7, <3>1, <3>3, OneHears
  <2>8. CASE Tells /\ Stores(e)
    <3>1. intent' = intent
      BY <2>8 DEF Stores
    <3>2. Heard(exec'[e], intent', seen'.shared)
      BY <2>1, <2>3, <2>8 DEF Stores, Tells, Heard, Alive
    <3>. QED
      BY <1>1, <2>1, <2>2, <2>4, <2>8, <3>1, <3>2, OneHears
  <2>9. CASE Leaves(e)
    <3>1. seen'.shared = seen.shared /\ intent' = [intent EXCEPT ![run] = "none"] /\ exec'[e].pc = "over"
      BY <1>1, <2>9 DEF Leaves, SeenType
    <3>2. ASSUME NEW d \in Execs \ {e}, exec[d].run \notin seen'.shared, Alive(exec[d]),
                 intent[exec[d].run] = "cancelled"
          PROVE  intent'[exec[d].run] = "cancelled"
      <4>1. exec[d].run # run
        BY <2>1, <3>1, <3>2 DEF CancelInv, Apart
      <4>. QED
        BY <1>1, <3>1, <3>2, <4>1
    <3>3. Heard(exec'[e], intent', seen'.shared)
      BY <3>1 DEF Heard, Alive
    <3>. QED
      BY <2>1, <2>2, <3>1, <3>2, <3>3, OneHears
  <2>. QED
    BY <1>2, <2>5, <2>6, <2>7, <2>8, <2>9, ExecMoves
<1>3. ASSUME NEW e \in Execs, Submitted(e)
      PROVE  CancelInv'
  <2>1. /\ Others(e) /\ exec[e].pc = "idle" /\ exec'[e].run = e /\ exec'[e].pc = "pending"
        /\ exec'[e].asked = "no" /\ seen'.shared = seen.shared /\ intent' = Registered(e) /\ e \in Runs
    BY <1>3, SubmittedType DEF Others, Runs
  <2>2. ASSUME NEW d \in Execs \ {e}, Alive(exec[d]), exec[d].run = e
        PROVE  e \in seen'.shared
    <3>1. IsFinal(exec, seen.shared, e)
      BY <2>2 DEF RunInv, Alive
    <3>. QED
      BY <2>1, <3>1 DEF IsFinal, Final
  <2>3. Heard(exec'[e], intent', seen'.shared)
    BY <2>1 DEF Heard
  <2>4. \A q \in Runs : intent[q] = "cancelled" => intent'[q] = "cancelled"
    BY <2>1, RegisteredKeeps
  <2>. QED
    BY <1>1, <2>1, <2>2, <2>3, <2>4, OneHears
<1>4. ASSUME NEW e \in Execs, NEW r \in Runs, Continue(e, r)
      PROVE  CancelInv'
  <2>1. /\ Others(e) /\ exec'[e].run = r /\ exec'[e].pc = "begin" /\ intent' = intent
        /\ exec'[e].asked # "no" => intent[r] = "cancelled"
        /\ seen'.shared = IF ActiveOn(r) = {} THEN seen.shared ELSE seen.shared \cup {r}
    BY <1>4, ContinueMoves
  <2>2. seen.shared \subseteq seen'.shared
    BY <2>1
  <2>3. ASSUME NEW d \in Execs \ {e}, Alive(exec[d]), exec[d].run = r
        PROVE  r \in seen'.shared
    <3>1. d \in ActiveOn(r)
      BY <2>3 DEF ActiveOn, Active, Alive
    <3>. QED
      BY <2>1, <3>1
  <2>4. Heard(exec'[e], intent', seen'.shared)
    BY <2>1 DEF Heard, Alive
  <2>. QED
    BY <1>1, <2>1, <2>2, <2>3, <2>4, OneHears
<1>5. ASSUME NEW r \in Runs, Cancel(r)
      PROVE  CancelInv'
  <2>1. /\ \A e \in Execs :
              /\ exec'[e].pc = exec[e].pc /\ exec'[e].run = exec[e].run
              /\ exec'[e].status = exec[e].status
              /\ exec'[e].asked = IF e \in ActiveOn(r) THEN Asked(exec[e]) ELSE exec[e].asked
        /\ intent' = [intent EXCEPT ![r] = "cancelled"]
        /\ seen' = [seen EXCEPT !.stray = IF ActiveOn(r) = {} THEN seen.stray \cup {r} ELSE seen.stray]
    BY <1>5, CancelMoves
  <2>2. seen'.shared = seen.shared
    BY <1>1, <2>1 DEF SeenType
  <2>3. Apart(exec', seen'.shared)
    BY <2>1, <2>2 DEF CancelInv, Apart, Alive
  <2>4. ASSUME NEW e \in Execs
        PROVE  Heard(exec'[e], intent', seen'.shared)
    <3>1. Heard(exec[e], intent, seen.shared)
      BY DEF CancelInv
    <3>2. CASE e \in ActiveOn(r)
      <4>1. Alive(exec[e]) /\ exec[e].run = r
        BY <3>2 DEF ActiveOn, Active, Alive
      <4>2. exec[e].pc # "pending"
        BY <1>5, <4>1 DEF RunInv, Cancel, GivenOut
      <4>3. intent'[r] = "cancelled"
        BY <1>1, <2>1
      <4>4. exec'[e].asked = Asked(exec[e])
        BY <2>1, <3>2
      <4>5. CASE exec[e].pc \in {"running", "begin", "work"}
        BY <2>1, <2>2, <3>1, <4>1, <4>3, <4>5 DEF Heard, Alive
      <4>6. CASE exec[e].pc \notin {"running", "begin", "work"}
        <5>1. exec'[e].asked = IF exec[e].pc = "answered" /\ exec[e].asked = "no" THEN "late" ELSE exec[e].asked
          BY <4>4, <4>6 DEF Asked
        <5>. QED
          BY <2>1, <2>2, <3>1, <4>1, <4>2, <4>3, <4>6, <5>1 DEF Heard, Alive
      <4>. QED
        BY <4>5, <4>6
    <3>3. CASE e \notin ActiveOn(r)
      <4>1. exec'[e].asked = exec[e].asked
        BY <2>1, <3>3
      <4>2. Alive(exec[e]) /\ intent[exec[e].run] = "cancelled" => intent'[exec[e].run] = "cancelled"
        BY <1>1, <2>1
      <4>. QED
        BY <2>1, <2>2, <3>1, <4>1, <4>2 DEF Heard, Alive
    <3>. QED
      BY <3>2, <3>3
  <2>. QED
    BY <2>3, <2>4 DEF CancelInv
<1>6. CASE Crash
  <2>1. ASSUME NEW e \in Execs
        PROVE  ~Alive(exec'[e])
    BY <1>6, CrashMoves DEF Active, Alive
  <2>2. \A e \in Execs : exec'[e].pc # "pending"
    BY <2>1 DEF Alive
  <2>. QED
    BY <2>1, <2>2 DEF CancelInv, Apart, Heard
<1>7. CASE Refused \/ CallRaises \/ PollEnds \/ Poll \/ DeleteSession \/ UNCHANGED vars
  <2>1. exec' = exec /\ intent' = intent
    BY <1>7, AttemptEnds DEF DeleteSession, vars
  <2>2. seen'.shared = seen.shared
    <3>1. CASE DeleteSession
      BY <3>1, DeleteMoves
    <3>2. CASE Refused \/ CallRaises \/ PollEnds \/ Poll
      <4>1. seen' = seen \/ seen' = [seen EXCEPT !.gaveUp = seen.gaveUp \cup {job.attempt}]
        BY <3>2, AttemptEnds
      <4>. QED
        BY <1>1, <4>1 DEF SeenType
    <3>3. CASE UNCHANGED vars
      BY <3>3 DEF vars
    <3>. QED
      BY <1>7, <3>1, <3>2, <3>3
  <2>. QED
    BY <2>1, <2>2 DEF CancelInv
<1>. QED
  BY <1>2, <1>3, <1>4, <1>5, <1>6, <1>7 DEF Next, JobStep, JobSubmits, UserSubmits

(* A cancellation that comes before the model has answered ends the run as     *)
(* cancelled or failed, one that comes before the last check not as completed, *)
(* unless two executions of the run have overlapped.                          *)
THEOREM CancelTakesEffect == Spec => []CancelEndsRun
<1>1. Init => CancelInv
  <2>. SUFFICES ASSUME Init PROVE CancelInv
    OBVIOUS
  <2>1. \A e \in Execs : exec[e].pc = "idle"
    BY DEF Init, Idle
  <2>2. \A e \in Execs : ~Alive(exec[e]) /\ exec[e].pc # "pending"
    BY <2>1 DEF Alive
  <2>. QED
    BY <2>2 DEF CancelInv, Apart, Heard
<1>2. TypeInv /\ RunInv /\ CancelInv /\ [Next]_vars => CancelInv'
  BY CancelStep
<1>3. CancelInv => CancelEndsRun
  <2>. SUFFICES ASSUME CancelInv, NEW e \in Execs, exec[e].pc = "store",
                       exec[e].run \notin seen.shared
                PROVE  /\ exec[e].asked = "early" => exec[e].status \in {"cancelled", "error"}
                       /\ exec[e].asked = "late" => exec[e].status # "completed"
    BY DEF CancelEndsRun
  <2>1. Heard(exec[e], intent, seen.shared) /\ Alive(exec[e])
    BY DEF CancelInv, Alive
  <2>. QED
    BY <2>1 DEF Heard
<1>. QED
  BY <1>1, <1>2, <1>3, TypeInvariant, RunInvariant, PTL DEF Spec

-----------------------------------------------------------------------------
(* The row, as long as the database does not fail. *)

Writing(x) == x.pc \notin {"idle", "cleanup", "over", "dead"}

Copies == {"pending", "running", "work", "answered", "store"}

LastOf(r, e, x) == x[e].run = r /\ \A d \in Execs : x[d].run = r => d <= e

Outcome(r, x, deleted) == IF r \in deleted THEN "absent" ELSE x.status

(* A writer whose run has met no other one is the only one, and the latest     *)
(* execution of all.                                                         *)
Alone(x, exposed) ==
    \A e \in Execs : Writing(x[e]) /\ x[e].run \notin exposed =>
        \A d \in Execs \ {e} : x[d].pc # "idle" => d < e /\ ~Writing(x[d])

(* What became of a run is in the row, and in every copy that somebody else is *)
(* going to write.                                                           *)
Kept(row, x, deleted, exposed) ==
    \A r \in Runs \ exposed, f \in Execs : LastOf(r, f, x) /\ x[f].pc \in {"cleanup", "over"} =>
        /\ row[r] = Outcome(r, x[f], deleted)
        /\ \A d \in Execs : x[d].pc \in Copies /\ x[d].run # r => x[d].view[r] = Outcome(r, x[f], deleted)

InOrder(x) == \A d, e \in Execs : d <= e /\ x[e].pc # "idle" => x[d].pc # "idle"

KeepInv ==
    /\ InOrder(exec)
    /\ Alone(exec, seen.exposed)
    /\ ~seen.fault => Kept(session, exec, seen.deleted, seen.exposed)

LEMMA WithRunOther ==
    ASSUME NEW view \in SessionType, NEW run \in Runs, NEW status
    PROVE  /\ WithRun(view, run, status)[run] = status
           /\ \A r \in Runs \ {run} : WithRun(view, run, status)[r] = view[r]
  BY DEF WithRun, SessionType

LEMMA OrderStep ==
    ASSUME TypeInv, InOrder(exec), [Next]_vars
    PROVE  InOrder(exec')
<1>1. ASSUME \A d \in Execs : exec'[d].pc # "idle" => exec[d].pc # "idle"
      PROVE  InOrder(exec')
  BY <1>1, Shape DEF InOrder
<1>2. ASSUME NEW e \in Execs, Others(e), Unused(e), exec'[e].pc # "idle"
      PROVE  InOrder(exec')
  <2>. SUFFICES ASSUME NEW c \in Execs, NEW d \in Execs, c <= d, exec'[d].pc # "idle"
                PROVE  exec'[c].pc # "idle"
    BY DEF InOrder
  <2>1. CASE d = e
    <3>1. CASE c = e
      BY <1>2, <3>1
    <3>2. CASE c # e
      <4>1. c \in 1..(e - 1)
        BY <2>1, <3>2, BackgroundRunsAssumption DEF Execs
      <4>2. exec[c].pc # "idle"
        BY <1>2, <4>1 DEF Unused
      <4>. QED
        BY <4>2, Shape
    <3>. QED
      BY <3>1, <3>2
  <2>2. CASE d # e
    <3>1. exec[c].pc # "idle"
      BY <1>2, <2>2 DEF InOrder, Others
    <3>. QED
      BY <3>1, Shape
  <2>. QED
    BY <2>1, <2>2
<1>3. ASSUME NEW e \in Execs, ExecStep(e)
      PROVE  InOrder(exec')
  BY <1>1, <1>3, ExecStepType DEF Active
<1>4. ASSUME NEW e \in Execs, Submitted(e)
      PROVE  InOrder(exec')
  <2>1. Others(e) /\ exec'[e].pc # "idle"
    BY <1>4, SubmittedType DEF Others
  <2>2. Unused(e)
    BY <1>4 DEF Submitted
  <2>. QED
    BY <1>2, <2>1, <2>2
<1>5. ASSUME NEW e \in Execs, NEW r \in Runs, Continue(e, r)
      PROVE  InOrder(exec')
  <2>1. Others(e) /\ exec'[e].pc # "idle"
    BY <1>5, ContinueMoves
  <2>2. Unused(e)
    BY <1>5 DEF Continue
  <2>. QED
    BY <1>2, <2>1, <2>2
<1>6. ASSUME NEW r \in Runs, Cancel(r)
      PROVE  InOrder(exec')
  <2>1. \A d \in Execs : exec'[d].pc = exec[d].pc
    BY <1>6, CancelMoves
  <2>. QED
    BY <1>1, <2>1
<1>7. CASE Crash
  <2>1. \A d \in Execs : exec'[d].pc = IF Active(d) THEN "dead" ELSE exec[d].pc
    BY <1>7, CrashMoves
  <2>2. ASSUME NEW d \in Execs, exec'[d].pc # "idle"
        PROVE  exec[d].pc # "idle"
    BY <2>1, <2>2 DEF Active
  <2>. QED
    BY <1>1, <2>2
<1>8. CASE Refused \/ CallRaises \/ PollEnds \/ Poll \/ DeleteSession \/ UNCHANGED vars
  <2>1. exec' = exec
    BY <1>8, AttemptEnds DEF DeleteSession, vars
  <2>. QED
    BY <1>1, <2>1
<1>. QED
  BY <1>3, <1>4, <1>5, <1>6, <1>7, <1>8 DEF Next, JobStep, JobSubmits, UserSubmits

LEMMA AloneKept ==
    ASSUME Alone(exec, seen.exposed), NEW more, seen.exposed \subseteq more,
           \A d \in Execs :
              /\ exec'[d].pc # "idle" => exec[d].pc # "idle" /\ exec'[d].run = exec[d].run
              /\ Writing(exec'[d]) => Writing(exec[d])
    PROVE  Alone(exec', more)
<1>. SUFFICES ASSUME NEW e \in Execs, Writing(exec'[e]), exec'[e].run \notin more,
                     NEW d \in Execs \ {e}, exec'[d].pc # "idle"
              PROVE  d < e /\ ~Writing(exec'[d])
  BY DEF Alone
<1>1. exec'[e].pc # "idle" /\ exec'[e].run = exec[e].run /\ Writing(exec[e])
  BY DEF Writing
<1>2. exec[e].run \notin seen.exposed /\ exec[d].pc # "idle"
  BY <1>1
<1>. QED
  BY <1>1, <1>2 DEF Alone

(* Whoever begins while others write is exposed, and so are they. *)
LEMMA AloneComes ==
    ASSUME TypeInv, InOrder(exec), NEW e \in Execs, NEW r \in Runs, exec[e].pc = "idle", Others(e),
           exec'[e].run = r, seen'.exposed = seen.exposed \cup Met({r})
    PROVE  Alone(exec', seen'.exposed)
<1>. SUFFICES ASSUME NEW c \in Execs, Writing(exec'[c]), exec'[c].run \notin seen'.exposed,
                     NEW d \in Execs \ {c}, exec'[d].pc # "idle"
              PROVE  d < c /\ ~Writing(exec'[d])
  BY DEF Alone
<1>1. \A b \in Execs \ {e} : Writing(exec'[b]) => exec'[b].run \in Met({r}) /\ r \in Met({r})
  <2>1. \A b \in Execs : Busy(b) => exec[b].run \in Met({r}) /\ {r} \subseteq Met({r})
    BY MetType
  <2>2. \A b \in Execs \ {e} : exec'[b] = exec[b]
    BY DEF Others
  <2>. QED
    BY <2>1, <2>2 DEF Writing, Busy, Active
<1>2. c = e
  BY <1>1
<1>3. ~Writing(exec'[d])
  BY <1>1, <1>2
<1>4. ~(e <= d)
  BY <1>2 DEF InOrder, Others
<1>. QED
  BY <1>2, <1>3, <1>4 DEF Execs

LEMMA AloneStep ==
    ASSUME TypeInv, InOrder(exec), Alone(exec, seen.exposed), [Next]_vars
    PROVE  Alone(exec', seen'.exposed) /\ seen.exposed \subseteq seen'.exposed
<1>1. seen \in SeenType
  BY DEF TypeInv
<1>2. ASSUME NEW e \in Execs, ExecStep(e)
      PROVE  Alone(exec', seen'.exposed) /\ seen.exposed \subseteq seen'.exposed
  <2>1. exec'[e].run = exec[e].run /\ Others(e) /\ Active(e)
    BY <1>2, ExecMoves, ExecStepType
  <2>2. seen'.exposed = seen.exposed
    BY <1>1, <1>2, ExecMoves DEF Tells, Leaves, SeenType
  <2>3. Writing(exec'[e]) => Writing(exec[e])
    <3>1. CASE Leaves(e)
      BY <3>1 DEF Leaves, Writing
    <3>2. CASE Saves(e) \/ Begins(e) \/ Works(e) \/ Stores(e)
      BY <3>2 DEF Saves, Begins, Works, Stores, Writing
    <3>. QED
      BY <1>2, <3>1, <3>2, ExecMoves
  <2>4. ASSUME NEW d \in Execs
        PROVE  /\ exec'[d].pc # "idle" => exec[d].pc # "idle" /\ exec'[d].run = exec[d].run
               /\ Writing(exec'[d]) => Writing(exec[d])
    <3>1. CASE d = e
      BY <2>1, <2>3, <3>1 DEF Active
    <3>2. CASE d # e
      BY <2>1, <3>2 DEF Others
    <3>. QED
      BY <3>1, <3>2
  <2>. QED
    BY <2>2, <2>4, AloneKept
<1>3. ASSUME NEW e \in Execs, Submitted(e)
      PROVE  Alone(exec', seen'.exposed) /\ seen.exposed \subseteq seen'.exposed
  <2>1. /\ exec[e].pc = "idle" /\ Others(e) /\ exec'[e].run = e /\ e \in Runs
        /\ seen'.exposed = seen.exposed \cup Met({e})
    BY <1>3, SubmittedType DEF Others, Runs
  <2>. QED
    BY <2>1, AloneComes
<1>4. ASSUME NEW e \in Execs, NEW r \in Runs, Continue(e, r)
      PROVE  Alone(exec', seen'.exposed) /\ seen.exposed \subseteq seen'.exposed
  <2>1. /\ exec[e].pc = "idle" /\ Others(e) /\ exec'[e].run = r
        /\ seen'.exposed = seen.exposed \cup Met({r})
    BY <1>4, ContinueMoves, ZenonT(60)
  <2>. QED
    BY <2>1, AloneComes
<1>5. ASSUME NEW r \in Runs, Cancel(r)
      PROVE  Alone(exec', seen'.exposed) /\ seen.exposed \subseteq seen'.exposed
  <2>1. \A d \in Execs : exec'[d].pc = exec[d].pc /\ exec'[d].run = exec[d].run
    BY <1>5, CancelMoves
  <2>2. seen'.exposed = seen.exposed
    BY <1>1, <1>5, CancelMoves DEF SeenType
  <2>. QED
    BY <2>1, <2>2, AloneKept DEF Writing
<1>6. CASE Crash
  <2>1. \A d \in Execs : /\ exec'[d].run = exec[d].run
                         /\ exec'[d].pc = IF Active(d) THEN "dead" ELSE exec[d].pc
    BY <1>6, CrashMoves
  <2>2. \A d \in Execs : /\ exec'[d].pc # "idle" => exec[d].pc # "idle"
                         /\ ~Writing(exec'[d])
    BY <2>1 DEF Active, Writing
  <2>3. seen'.exposed = seen.exposed
    BY <1>1, <1>6, CrashMoves DEF SeenType
  <2>. QED
    BY <2>1, <2>2, <2>3, AloneKept
<1>7. CASE Refused \/ CallRaises \/ PollEnds \/ Poll \/ DeleteSession \/ UNCHANGED vars
  <2>1. exec' = exec
    BY <1>7, AttemptEnds DEF DeleteSession, vars
  <2>2. seen.exposed \subseteq seen'.exposed
    <3>1. CASE DeleteSession
      BY <3>1, DeleteMoves
    <3>2. CASE Refused \/ CallRaises \/ PollEnds \/ Poll
      BY <1>1, <3>2, AttemptEnds DEF SeenType
    <3>3. CASE UNCHANGED vars
      BY <3>3 DEF vars
    <3>. QED
      BY <1>7, <3>1, <3>2, <3>3
  <2>. QED
    BY <2>1, <2>2, AloneKept
<1>. QED
  BY <1>2, <1>3, <1>4, <1>5, <1>6, <1>7 DEF Next, JobStep, JobSubmits, UserSubmits

(* Nothing is written and nothing begins. *)
LEMMA NobodyWrites ==
    ASSUME NEW deleted, NEW exposed, NEW more, Kept(session, exec, deleted, exposed), exposed \subseteq more,
           session' = session,
           \A d \in Execs :
              /\ exec'[d].run = exec[d].run
              /\ exec'[d].pc \in {"cleanup", "over"} =>
                    exec[d].pc \in {"cleanup", "over"} /\ exec'[d].status = exec[d].status
              /\ exec'[d].pc \in Copies => exec[d].pc \in Copies /\ exec'[d].view = exec[d].view
    PROVE  Kept(session', exec', deleted, more)
<1>. SUFFICES ASSUME NEW r \in Runs \ more, NEW f \in Execs, LastOf(r, f, exec'),
                     exec'[f].pc \in {"cleanup", "over"}
              PROVE  /\ session'[r] = Outcome(r, exec'[f], deleted)
                     /\ \A d \in Execs : exec'[d].pc \in Copies /\ exec'[d].run # r
                           => exec'[d].view[r] = Outcome(r, exec'[f], deleted)
  BY DEF Kept
<1>1. LastOf(r, f, exec) /\ exec[f].pc \in {"cleanup", "over"} /\ r \in Runs \ exposed
  BY DEF LastOf
<1>2. Outcome(r, exec'[f], deleted) = Outcome(r, exec[f], deleted)
  BY DEF Outcome
<1>3. /\ session[r] = Outcome(r, exec[f], deleted)
      /\ \A d \in Execs : exec[d].pc \in Copies /\ exec[d].run # r => exec[d].view[r] = Outcome(r, exec[f], deleted)
  BY <1>1 DEF Kept
<1>. QED
  BY <1>2, <1>3

(* One execution begins or moves on, and writes nothing: it has read the row,  *)
(* or keeps the copy it has, or has none.                                    *)
LEMMA OneMoves ==
    ASSUME TypeInv, NEW deleted, NEW exposed, NEW more,
           Kept(session, exec, deleted, exposed), exposed \subseteq more,
           NEW e \in Execs, Others(e), session' = session,
           exec[e].pc = "idle" \/ exec'[e].run = exec[e].run,
           exec'[e].pc \notin {"cleanup", "over"},
           exec'[e].pc \in Copies =>
              \/ exec'[e].view = session
              \/ exec[e].pc \in Copies /\ exec'[e].view = exec[e].view /\ exec'[e].run = exec[e].run
    PROVE  Kept(session', exec', deleted, more)
<1>. SUFFICES ASSUME NEW r \in Runs \ more, NEW f \in Execs, LastOf(r, f, exec'),
                     exec'[f].pc \in {"cleanup", "over"}
              PROVE  /\ session'[r] = Outcome(r, exec'[f], deleted)
                     /\ \A d \in Execs : exec'[d].pc \in Copies /\ exec'[d].run # r
                           => exec'[d].view[r] = Outcome(r, exec'[f], deleted)
  BY DEF Kept
<1>1. f # e /\ exec'[f] = exec[f] /\ r \in Runs \ exposed
  BY DEF Others
<1>2. exec[e].run = r => exec'[e].run = r
  BY DEF TypeInv, ExecOK, Runs, Execs, NoRun
<1>3. LastOf(r, f, exec)
  <2>1. exec[f].run = r
    BY <1>1 DEF LastOf
  <2>2. ASSUME NEW d \in Execs, exec[d].run = r
        PROVE  d <= f
    <3>1. exec'[d].run = r
      BY <1>2, <2>2 DEF Others
    <3>. QED
      BY <3>1 DEF LastOf
  <2>. QED
    BY <2>1, <2>2 DEF LastOf
<1>4. /\ session[r] = Outcome(r, exec[f], deleted)
      /\ \A d \in Execs : exec[d].pc \in Copies /\ exec[d].run # r => exec[d].view[r] = Outcome(r, exec[f], deleted)
  BY <1>1, <1>3 DEF Kept
<1>5. ASSUME NEW d \in Execs, exec'[d].pc \in Copies, exec'[d].run # r
      PROVE  exec'[d].view[r] = Outcome(r, exec[f], deleted)
  <2>1. CASE d = e
    BY <1>4, <1>5, <2>1
  <2>2. CASE d # e
    BY <1>4, <1>5, <2>2 DEF Others
  <2>. QED
    BY <2>1, <2>2
<1>. QED
  BY <1>1, <1>4, <1>5

(* One execution writes its copy with its run's status. *)
LEMMA OneWrites ==
    ASSUME TypeInv, NEW deleted, NEW exposed, Alone(exec, exposed), Kept(session, exec, deleted, exposed),
           NEW e \in Execs, Others(e), exec[e].pc \in Copies, exec'[e].run = exec[e].run,
           \A r \in Runs \ {exec[e].run} : session'[r] = exec[e].view[r],
           exec'[e].pc \in Copies => exec'[e].view = session',
           exec'[e].pc \in {"cleanup", "over"} => session'[exec[e].run] = exec'[e].status
    PROVE  Kept(session', exec', deleted \ {exec[e].run}, exposed)
<1>. DEFINE run == exec[e].run
            later == deleted \ {run}
<1>. SUFFICES ASSUME NEW r \in Runs \ exposed, NEW f \in Execs, LastOf(r, f, exec'),
                     exec'[f].pc \in {"cleanup", "over"}
              PROVE  /\ session'[r] = Outcome(r, exec'[f], later)
                     /\ \A d \in Execs : exec'[d].pc \in Copies /\ exec'[d].run # r
                           => exec'[d].view[r] = Outcome(r, exec'[f], later)
  BY DEF Kept
<1>1. \A d \in Execs : exec'[d].run = exec[d].run
  BY DEF Others
<1>2. LastOf(r, f, exec) /\ exec[f].run = r
  BY <1>1 DEF LastOf
<1>3. Writing(exec[e])
  BY DEF Copies, Writing
<1>4. CASE f = e
  <2>1. r = run /\ Outcome(r, exec'[f], later) = exec'[f].status
    BY <1>2, <1>4 DEF Outcome
  <2>2. ASSUME NEW d \in Execs, exec'[d].pc \in Copies, exec'[d].run # r
        PROVE  FALSE
    <3>1. d # e /\ exec'[d] = exec[d]
      BY <1>1, <2>1, <2>2 DEF Others
    <3>2. Writing(exec[d]) /\ exec[d].pc # "idle"
      BY <2>2, <3>1 DEF Copies, Writing
    <3>. QED
      BY <1>3, <2>1, <3>1, <3>2 DEF Alone
  <2>. QED
    BY <1>4, <2>1, <2>2
<1>5. CASE f # e
  <2>1. exec'[f] = exec[f] /\ exec[f].pc \in {"cleanup", "over"}
    BY <1>5 DEF Others
  <2>2. r # run
    <3>1. r = run => e <= f
      BY <1>2 DEF LastOf
    <3>2. r = run => f < e
      BY <1>3, <1>5, <2>1 DEF Alone
    <3>. QED
      BY <3>1, <3>2 DEF Execs
  <2>3. Outcome(r, exec'[f], later) = Outcome(r, exec[f], deleted)
    BY <2>1, <2>2 DEF Outcome
  <2>4. \A d \in Execs : exec[d].pc \in Copies /\ exec[d].run # r => exec[d].view[r] = Outcome(r, exec[f], deleted)
    BY <1>2, <2>1 DEF Kept
  <2>5. session'[r] = Outcome(r, exec[f], deleted)
    BY <2>2, <2>4
  <2>6. ASSUME NEW d \in Execs, exec'[d].pc \in Copies, exec'[d].run # r
        PROVE  exec'[d].view[r] = Outcome(r, exec[f], deleted)
    <3>1. CASE d = e
      BY <2>5, <2>6, <3>1
    <3>2. CASE d # e
      BY <2>4, <2>6, <3>2 DEF Others
    <3>. QED
      BY <3>1, <3>2
  <2>. QED
    BY <2>3, <2>5, <2>6
<1>. QED
  BY <1>4, <1>5

LEMMA KeepStep ==
    ASSUME TypeInv, KeepInv, [Next]_vars
    PROVE  KeepInv'
<1>1. /\ seen \in SeenType /\ session \in SessionType /\ exec \in [Execs -> ExecType]
  BY DEF TypeInv, ExecOK
<1>2. InOrder(exec') /\ Alone(exec', seen'.exposed) /\ seen.exposed \subseteq seen'.exposed
  BY OrderStep, AloneStep DEF KeepInv
<1>3. ASSUME ~seen'.fault
      PROVE  Kept(session', exec', seen'.deleted, seen'.exposed)
  <2>. DEFINE Before == Kept(session, exec, seen.deleted, seen.exposed)
              After == Kept(session', exec', seen'.deleted, seen'.exposed)
  <2>1. ASSUME seen.fault => seen'.fault
        PROVE  Before
    BY <1>3, <2>1 DEF KeepInv
  <2>2. ASSUME NEW e \in Execs, ExecStep(e)
        PROVE  After
    <3>. DEFINE run == exec[e].run
                view == exec[e].view
    <3>1. /\ exec'[e].run = run /\ run \in Runs /\ Others(e) /\ view \in SessionType
          /\ exec[e].status \in Statuses
      BY <1>1, <2>2, ExecMoves DEF ExecType
    <3>2. CASE Tells /\ (Saves(e) \/ Stores(e))
      <4>1. Before /\ seen'.exposed = seen.exposed /\ exec[e].pc \in Copies
        BY <2>1, <3>2 DEF Tells, Saves, Stores, Copies
      <4>2. PICK status : /\ session' = WithRun(view, run, status) /\ seen'.deleted = seen.deleted \ {run}
                          /\ exec'[e].pc \in Copies => exec'[e].view = session'
                          /\ exec'[e].pc \in {"cleanup", "over"} => status = exec'[e].status
        <5>1. CASE exec[e].pc = "pending" /\ Saves(e)
          <6>1. /\ session' = WithRun(view, run, "pending") /\ seen'.deleted = seen.deleted \ {run}
                /\ exec'[e].view = session' /\ exec'[e].pc = "running"
            BY <1>3, <5>1 DEF Saves, Wrote
          <6>. QED
            BY <6>1
        <5>2. CASE exec[e].pc = "running" /\ Saves(e)
          <6>1. /\ session' = WithRun(view, run, "running") /\ seen'.deleted = seen.deleted \ {run}
                /\ exec'[e].pc = "begin"
            BY <1>3, <5>2 DEF Saves, Wrote
          <6>. QED
            BY <6>1 DEF Copies
        <5>3. CASE Stores(e)
          <6>1. /\ session' = WithRun(view, run, exec[e].status) /\ seen'.deleted = seen.deleted \ {run}
                /\ exec'[e].pc = "cleanup" /\ exec'[e].status = exec[e].status
            BY <1>3, <5>3 DEF Stores, Wrote
          <6>. QED
            BY <6>1 DEF Copies
        <5>. QED
          BY <3>2, <5>1, <5>2, <5>3 DEF Saves
      <4>3. session'[run] = status /\ \A r \in Runs \ {run} : session'[r] = view[r]
        BY <3>1, <4>2, WithRunOther
      <4>4. Alone(exec, seen.exposed)
        BY DEF KeepInv
      <4>5. Kept(session', exec', seen.deleted \ {run}, seen.exposed)
        BY <3>1, <4>1, <4>2, <4>3, <4>4, OneWrites
      <4>. QED
        BY <4>1, <4>2, <4>5
    <3>3. CASE Tells /\ (Begins(e) \/ Works(e))
      <4>1. Before /\ seen'.deleted = seen.deleted /\ session' = session
        BY <2>1, <3>3 DEF Tells, Begins, Works
      <4>2. exec'[e].pc \notin {"cleanup", "over"}
        BY <3>3 DEF Begins, Works
      <4>3. exec'[e].pc \in Copies =>
               \/ exec'[e].view = session
               \/ exec[e].pc \in Copies /\ exec'[e].view = view
        BY <1>3, <3>3 DEF Begins, Works, Copies
      <4>. QED
        BY <1>2, <3>1, <4>1, <4>2, <4>3, OneMoves
    <3>4. CASE Leaves(e)
      <4>1. /\ seen'.deleted = seen.deleted /\ seen'.fault = seen.fault /\ session' = session
            /\ exec[e].pc = "cleanup" /\ exec'[e].pc = "over" /\ exec'[e].status = exec[e].status
        BY <1>1, <3>4 DEF Leaves, SeenType
      <4>2. ASSUME NEW d \in Execs
            PROVE  /\ exec'[d].run = exec[d].run
                   /\ exec'[d].pc \in {"cleanup", "over"} =>
                         exec[d].pc \in {"cleanup", "over"} /\ exec'[d].status = exec[d].status
                   /\ exec'[d].pc \in Copies => exec[d].pc \in Copies /\ exec'[d].view = exec[d].view
        <5>1. CASE d = e
          BY <3>1, <4>1, <5>1 DEF Copies
        <5>2. CASE d # e
          BY <3>1, <5>2 DEF Others
        <5>. QED
          BY <5>1, <5>2
      <4>. QED
        BY <1>2, <2>1, <4>1, <4>2, NobodyWrites
    <3>. QED
      BY <2>2, <3>2, <3>3, <3>4, ExecMoves
  <2>3. ASSUME NEW e \in Execs, Submitted(e), session' = session
        PROVE  After
    <3>1. /\ exec[e].pc = "idle" /\ exec'[e].pc = "pending" /\ Others(e)
          /\ seen'.deleted = seen.deleted /\ exec'[e].view = session /\ Before
      BY <1>3, <2>1, <2>3, SubmittedType DEF Others
    <3>. QED
      BY <1>2, <2>3, <3>1, OneMoves
  <2>4. ASSUME NEW e \in Execs, NEW r \in Runs, Continue(e, r)
        PROVE  After
    <3>1. /\ exec[e].pc = "idle" /\ exec'[e].pc = "begin" /\ Others(e)
          /\ seen'.deleted = seen.deleted /\ session' = session /\ (seen.fault => seen'.fault)
      BY <2>4, ContinueMoves, ZenonT(60)
    <3>2. Before
      BY <2>1, <3>1
    <3>. QED
      BY <1>2, <3>1, <3>2, OneMoves DEF Copies
  <2>5. ASSUME NEW r \in Runs, Cancel(r)
        PROVE  After
    <3>1. /\ session' = session
          /\ \A d \in Execs : /\ exec'[d].pc = exec[d].pc /\ exec'[d].run = exec[d].run
                              /\ exec'[d].status = exec[d].status /\ exec'[d].view = exec[d].view
          /\ seen'.deleted = seen.deleted /\ seen'.fault = seen.fault
      BY <1>1, <2>5, CancelMoves DEF SeenType
    <3>2. Before
      BY <2>1, <3>1
    <3>. QED
      BY <1>2, <3>1, <3>2, NobodyWrites
  <2>6. CASE Crash
    <3>1. /\ session' = session /\ seen'.deleted = seen.deleted /\ seen'.fault = seen.fault
          /\ \A d \in Execs : /\ exec'[d].run = exec[d].run /\ exec'[d].status = exec[d].status
                              /\ exec'[d].pc = IF Active(d) THEN "dead" ELSE exec[d].pc
      BY <1>1, <2>6, CrashMoves DEF SeenType
    <3>2. \A d \in Execs : /\ exec'[d].pc \in {"cleanup", "over"} => exec[d].pc \in {"cleanup", "over"}
                           /\ exec'[d].pc \notin Copies
      BY <3>1 DEF Active, Copies
    <3>3. Before
      BY <2>1, <3>1
    <3>. QED
      BY <1>2, <3>1, <3>2, <3>3, NobodyWrites
  <2>7. CASE DeleteSession
    <3>1. /\ session' = NewSession /\ exec' = exec /\ seen'.fault = seen.fault
          /\ seen'.deleted = seen.deleted \cup InRow /\ seen'.exposed = seen.exposed \cup Met(InRow)
      BY <2>7, DeleteMoves
    <3>2. Before
      BY <2>1, <3>1
    <3>. SUFFICES ASSUME NEW r \in Runs \ seen'.exposed, NEW f \in Execs, LastOf(r, f, exec),
                         exec[f].pc \in {"cleanup", "over"}
                  PROVE  /\ NewSession[r] = Outcome(r, exec[f], seen'.deleted)
                         /\ \A d \in Execs : exec[d].pc \in Copies /\ exec[d].run # r
                               => exec[d].view[r] = Outcome(r, exec[f], seen'.deleted)
      BY <3>1 DEF Kept
    <3>3. /\ session[r] = Outcome(r, exec[f], seen.deleted)
          /\ \A d \in Execs : exec[d].pc \in Copies /\ exec[d].run # r
                => exec[d].view[r] = Outcome(r, exec[f], seen.deleted)
      BY <1>2, <3>2 DEF Kept
    <3>4. NewSession[r] = "absent" /\ exec[f].status # "absent"
      BY <1>1 DEF NewSession, ExecType, Statuses, Terminal
    <3>5. r \in seen'.deleted
      BY <3>1, <3>3, <3>4 DEF Outcome, InRow
    <3>6. ASSUME NEW d \in Execs, exec[d].pc \in Copies, exec[d].run # r
          PROVE  exec[d].view[r] = "absent"
      <4>1. Busy(d) /\ InRow \in SUBSET Runs
        BY <3>6 DEF Busy, Active, Copies, InRow
      <4>2. r \notin InRow
        BY <3>1, <4>1, MetType
      <4>. QED
        BY <3>3, <3>6, <4>2 DEF InRow
    <3>. QED
      BY <3>4, <3>5, <3>6 DEF Outcome
  <2>8. CASE Refused \/ CallRaises \/ PollEnds \/ Poll \/ UNCHANGED vars
    <3>1. exec' = exec /\ session' = session
      BY <2>8, AttemptEnds DEF vars
    <3>2. seen'.deleted = seen.deleted /\ seen'.fault = seen.fault
      <4>1. seen' = seen \/ seen' = [seen EXCEPT !.gaveUp = seen.gaveUp \cup {job.attempt}]
        BY <2>8, AttemptEnds DEF vars
      <4>. QED
        BY <1>1, <4>1 DEF SeenType
    <3>3. Before
      BY <2>1, <3>2
    <3>. QED
      BY <1>2, <3>1, <3>2, <3>3, NobodyWrites
  <2>9. ASSUME NEW e \in Execs, UserSubmits(e)
        PROVE  After
    BY <2>3, <2>9 DEF UserSubmits
  <2>10. ASSUME NEW e \in Execs, JobSubmits(e)
         PROVE  After
    BY <2>3, <2>10 DEF JobSubmits
  <2>. QED
    BY <2>2, <2>4, <2>5, <2>6, <2>7, <2>8, <2>9, <2>10 DEF Next, JobStep
<1>. QED
  BY <1>2, <1>3 DEF KeepInv

(* As long as the database does not fail, the row has the last status of every *)
(* run that is over, or nothing of one that was deleted and not stored since, *)
(* if the run met no other writer, nor was deleted under a writer's hands;    *)
(* whatever other runs meet.                                                 *)
THEOREM RunsAreKept == Spec => []SessionKeepsAll
<1>1. Init => KeepInv
  <2>. SUFFICES ASSUME Init PROVE KeepInv
    OBVIOUS
  <2>1. \A e \in Execs : exec[e].pc = "idle"
    BY DEF Init, Idle
  <2>. QED
    BY <2>1 DEF KeepInv, InOrder, Alone, Kept, Writing
<1>2. TypeInv /\ KeepInv /\ [Next]_vars => KeepInv'
  BY KeepStep
<1>3. KeepInv => SessionKeepsAll
  <2>. SUFFICES ASSUME KeepInv, ~seen.fault, NEW r \in Runs \ seen.exposed, NEW e \in Execs,
                       Last(r, e), exec[e].pc = "over"
                PROVE  session[r] = IF r \in seen.deleted THEN "absent" ELSE exec[e].status
    BY DEF SessionKeepsAll
  <2>1. LastOf(r, e, exec) /\ Kept(session, exec, seen.deleted, seen.exposed)
    BY DEF Last, LastOf, KeepInv
  <2>. QED
    BY <2>1 DEF Kept, Outcome
<1>. QED
  BY <1>1, <1>2, <1>3, TypeInvariant, PTL DEF Spec

=============================================================================
