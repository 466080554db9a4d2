---------------------------- MODULE WorkflowRuns ----------------------------
(***************************************************************************)
(* A run of a workflow with humans in the loop.  The steps are executed in *)
(* order, by the first leg of the run and by the legs that continue it.  A *)
(* leg ends when a step must be confirmed or needs input, when its output  *)
(* must be reviewed, when its agent waits for the approval of a tool call, *)
(* or when it has failed and is to be retried or skipped by a human: the   *)
(* run is stored as paused, with a requirement appended to those it had    *)
(* before.  The answer to the last requirement, or to the error, decides   *)
(* where the next leg starts and what it does with the outputs so far.     *)
(*                                                                         *)
(* One run, one leg at a time; a step is opaque.                           *)
(***************************************************************************)
EXTENDS Naturals, Sequences, FiniteSets

CONSTANTS
    N,              \* the number of steps
    Settings,       \* the settings a step may have
    MaxRetries,     \* hitl_max_retries; 0 is no limit
    MaxLegs         \* bound

OnReject == {"skip", "cancel", "retry"}

(* HumanReview.  review: may a review of the output be required?  (It may be  *)
(* a predicate over the output.)  onTimeout is "never" without a timeout.    *)
SettingType == [before : {"none", "confirm", "input"}, review : BOOLEAN, onReject : OnReject,
                onError : {"fail", "skip", "pause"},
                onTimeout : {"never", "approve", "skip", "cancel"}]

ASSUME WorkflowRunsAssumption ==
    /\ N \in Nat \ {0}
    /\ Settings \subseteq SettingType
    /\ MaxRetries \in Nat /\ MaxLegs \in Nat

VARIABLES
    steps,      \* the settings of the steps, never changed
    row,        \* the run in the session's row
    leg,        \* the execution under way
    intent,     \* the run's entry in the cancellation manager
    legs,
    takes,      \* history: how often each step was executed
    seen        \* history: is the run to be cancelled, and since how many takes?

vars == <<steps, row, leg, intent, legs, takes, seen>>

-----------------------------------------------------------------------------
Steps == 1..N

(* StepRequirement.  A confirmed "input" is one that was given. *)
Requirement == [step : Steps, kind : {"confirm", "input", "review", "executor"},
                verdict : {"open", "yes", "no"}, edited : BOOLEAN, onReject : OnReject,
                retries : Nat]

(* StepOutput: of which execution of the step, does it ask to stop, and the    *)
(* step whose reviewer wrote its content, 0 for none.                        *)
Output == [step : Steps, take : Nat, stop : BOOLEAN, edit : 0..N]

(* History, kept with the run it is about: was an error answered while the    *)
(* requirement of an earlier pause was still the last; which steps did humans  *)
(* skip, and which outputs did they turn down?                               *)
Past == [stale : BOOLEAN, skipped : SUBSET Steps, rejected : SUBSET (Steps \X Nat)]

(* WorkflowRunOutput: at is paused_step_index, err the decision about         *)
(* error_requirements.                                                       *)
Run == [status : {"absent", "pending", "running", "paused", "completed", "cancelled", "error"},
        at : 0..N, reqs : Seq(Requirement), err : {"none", "open", "retry", "skip"},
        results : Seq(Output), past : Past]

NoRun == [status |-> "absent", at |-> 0, reqs |-> <<>>, err |-> "none", results |-> <<>>,
          past |-> [stale |-> FALSE, skipped |-> {}, rejected |-> {}]]

NoLeg == [pc |-> "none", run |-> NoRun, i |-> 1, start |-> 0, resolved |-> 0, executor |-> 0,
          retries |-> 0, collected |-> <<>>, first |-> FALSE, background |-> FALSE]

Leg == [pc : {"none", "launch", "head", "exec", "cleanup"}, run : Run, i : 1..(N + 1),
        start : 0..(N + 1), resolved : 0..N, executor : 0..N, retries : Nat,
        collected : Seq(Output), first : BOOLEAN, background : BOOLEAN]

TypeOK ==
    /\ steps \in [Steps -> Settings]
    /\ row \in Run
    /\ leg \in Leg
    /\ intent \in {"none", "registered", "cancelled"}
    /\ legs \in 0..MaxLegs
    /\ takes \in [Steps -> Nat]
    /\ seen \in [asked : BOOLEAN, then : [Steps -> Nat]]
    /\ leg.pc = "exec" => leg.i \in Steps
    /\ row.status = "paused" => row.at \in Steps /\ (row.err = "open" \/ row.reqs # <<>>)

NoTakes == [s \in Steps |-> 0]

Init ==
    /\ steps \in [Steps -> Settings]
    /\ row = NoRun
    /\ leg = NoLeg
    /\ intent = "none"
    /\ legs = 0
    /\ takes = NoTakes
    /\ seen = [asked |-> FALSE, then |-> NoTakes]

LastOf(seq) == seq[Len(seq)]
ButLast(seq) == SubSeq(seq, 1, Len(seq) - 1)

-----------------------------------------------------------------------------
(* Cancellation, by anybody and at any time: while the run is paused, too. *)
Cancel ==
    /\ legs > 0 /\ intent # "cancelled"
    /\ intent' = "cancelled"
    /\ seen' = [seen EXCEPT !.asked = TRUE, !.then = takes]
    /\ UNCHANGED <<steps, row, leg, legs, takes>>

(* The server dies: the leg and the manager's table are gone. *)
Crash ==
    /\ legs > 0
    /\ leg' = NoLeg
    /\ intent' = "none"
    /\ seen' = [seen EXCEPT !.asked = FALSE]
    /\ UNCHANGED <<steps, row, legs, takes>>

-----------------------------------------------------------------------------
(* The first leg, in the background or awaited by its caller. *)

Registered == IF intent = "none" THEN "registered" ELSE intent

Start(background) ==
    /\ legs = 0 /\ legs < MaxLegs /\ legs' = 1
    /\ LET run == [NoRun EXCEPT !.status = IF background THEN "pending" ELSE "running"] IN
       /\ row' = IF background THEN run ELSE row
       /\ leg' = [NoLeg EXCEPT !.pc = "launch", !.run = run, !.first = TRUE, !.background = background]
    /\ UNCHANGED <<steps, intent, takes, seen>>

(* execute_workflow_background stores the run as running; _aexecute registers *)
(* it.                                                                       *)
Launch ==
    /\ leg.pc = "launch"
    /\ LET run == [leg.run EXCEPT !.status = "running"] IN
       /\ row' = IF leg.background THEN run ELSE row
       /\ leg' = [leg EXCEPT !.pc = "head", !.run = run]
    /\ intent' = Registered
    /\ UNCHANGED <<steps, legs, takes, seen>>

-----------------------------------------------------------------------------
(* acontinue_run. *)

(* What a human may answer to the last requirement. *)
Decided(req) ==
    {[req EXCEPT !.verdict = "yes"]}
    \cup (IF req.kind \in {"confirm", "review"} THEN {[req EXCEPT !.verdict = "no"]} ELSE {})
    \cup (IF req.kind = "review" THEN {[req EXCEPT !.verdict = "yes", !.edited = TRUE]} ELSE {})

WithLast(run, req) == [run EXCEPT !.reqs = Append(ButLast(@), req)]

Answers(run) ==
    IF run.err = "open" THEN {[run EXCEPT !.err = decision] : decision \in {"retry", "skip"}}
    ELSE {WithLast(run, req) : req \in Decided(LastOf(run.reqs))}

(* check_timeout: when the last requirement is overdue its answer is replaced. *)
OnTime(req) ==
    LET action == steps[req.step].onTimeout IN
    {req} \cup (IF req.kind \notin {"confirm", "review"} \/ action = "never" THEN {}
                ELSE IF action = "approve" THEN {[req EXCEPT !.verdict = "yes"]}
                ELSE {[req EXCEPT !.verdict = "no", !.onReject = action]})

Timely(run) ==
    IF run.reqs = <<>> THEN {run} ELSE {WithLast(run, req) : req \in OnTime(LastOf(run.reqs))}

(* Is the last requirement of this kind, or has it this answer? *)
ActiveKind(run, kind) == run.reqs # <<>> /\ LastOf(run.reqs).kind = kind

Rejected(run, policy) ==
    run.reqs # <<>> /\ LastOf(run.reqs).verdict = "no" /\ LastOf(run.reqs).onReject = policy

Exhausted(run) ==
    Rejected(run, "retry") /\ MaxRetries # 0 /\ LastOf(run.reqs).retries >= MaxRetries

(* Mutant of StartIndex: a step that has been reviewed is not retried. *)
StartAfterReview(run) ==
    IF Rejected(run, "skip") \/ run.err = "skip" \/ ActiveKind(run, "review")
    THEN run.at + 1 ELSE run.at

StartIndex(run) ==
    IF \/ Rejected(run, "skip") \/ run.err = "skip"
       \/ ActiveKind(run, "review") /\ ~Rejected(run, "retry")
    THEN run.at + 1 ELSE run.at

(* Mutant of RemoveLast: an output that is turned down without a retry stays. *)
RemoveForRetry(run) == ActiveKind(run, "review") /\ Rejected(run, "retry") /\ run.err # "skip"

(* Mutant of RemoveLast: an output stays although its step is executed again. *)
RemoveForSkip(run) == ActiveKind(run, "review") /\ Rejected(run, "skip")

(* remove_last_output *)
RemoveLast(run) ==
    /\ ActiveKind(run, "review")
    /\ Rejected(run, "skip") \/ (Rejected(run, "retry") /\ run.err # "skip")

(* The first edited output among all requirements replaces the content of the *)
(* last output: what the outputs are after that.                             *)
Edits(run) == {k \in DOMAIN run.reqs : run.reqs[k].edited}

Edited(run) ==
    IF Edits(run) = {} \/ run.results = <<>> THEN {run.results}
    ELSE {[run.results EXCEPT ![Len(run.results)].edit = run.reqs[k].step] :
              k \in {k \in Edits(run) : \A j \in Edits(run) : k <= j}}

(* Mutant of ResolvedStep: it is the step that the leg starts with. *)
ResolvedStart(run) == IF StartIndex(run) \in Steps THEN StartIndex(run) ELSE 0

(* hitl_resolved_for_step *)
ResolvedStep(run) == run.at

Noted(run) ==
    LET turnedDown == run.err = "none" /\ ActiveKind(run, "review") /\ LastOf(run.reqs).verdict = "no"
        output == LastOf(run.results)
    IN  [stale |-> run.past.stale \/ (run.err # "none" /\ run.reqs # <<>>),
         skipped |-> run.past.skipped
                     \cup (IF Rejected(run, "skip") \/ run.err = "skip" THEN {run.at} ELSE {}),
         rejected |-> run.past.rejected
                      \cup (IF turnedDown THEN {<<output.step, output.take>>} ELSE {})]

Resume(run, results) ==
    /\ ~Rejected(run, "cancel") /\ ~Exhausted(run)
    /\ leg' = [NoLeg EXCEPT
          !.pc = "head",
          !.run = [run EXCEPT !.status = "running", !.err = "none", !.results = results,
                            !.past = Noted(run)],
          !.i = StartIndex(run), !.start = StartIndex(run), !.resolved = ResolvedStep(run),
          !.executor = IF ActiveKind(run, "executor") THEN LastOf(run.reqs).step ELSE 0,
          !.retries = IF Rejected(run, "retry") THEN LastOf(run.reqs).retries + 1 ELSE 0,
          !.collected = IF RemoveLast(run) /\ results # <<>> THEN ButLast(results) ELSE results]
    /\ UNCHANGED row

(* Rejected for good, or once too often: the run ends here. *)
GiveUp(run) ==
    /\ Rejected(run, "cancel") \/ Exhausted(run)
    /\ row' = [run EXCEPT !.status = "cancelled"]
    /\ UNCHANGED leg

Continue ==
    /\ leg.pc = "none" /\ row.status = "paused"
    /\ legs < MaxLegs /\ legs' = legs + 1
    /\ \E answered \in Answers(row) : \E run \in Timely(answered) :
          (\E results \in Edited(run) : Resume(run, results)) \/ GiveUp(run)
    /\ UNCHANGED <<steps, intent, takes, seen>>

-----------------------------------------------------------------------------
(* A leg. *)

(* The run is stored; but for the pause of a first leg, the cancellation      *)
(* manager forgets it.                                                       *)
EndLeg(run) ==
    /\ row' = run
    /\ leg' = IF leg.first /\ run.status = "paused" THEN NoLeg
                                                    ELSE [NoLeg EXCEPT !.pc = "cleanup", !.run = run]

(* Mutant of PausedAt: the pause is stored with the index of the next step. *)
PausedAfter(i, outputs) == [leg.run EXCEPT !.status = "paused", !.at = i + 1, !.results = outputs]

PausedAt(i, outputs) == [leg.run EXCEPT !.status = "paused", !.at = i, !.results = outputs]

Paused(kind, outputs, retries) ==
    [PausedAt(leg.i, outputs) EXCEPT
        !.reqs = Append(@, [step |-> leg.i, kind |-> kind, verdict |-> "open", edited |-> FALSE,
                            onReject |-> IF kind = "executor" THEN "cancel" ELSE steps[leg.i].onReject,
                            retries |-> retries])]

CancelledRun ==
    [leg.run EXCEPT !.status = "cancelled",
                    !.results = IF leg.collected = <<>> THEN @ ELSE leg.collected]

(* The requirements of a paused agent go back to it, in the first step only.  *)
Routed == leg.executor # 0 /\ leg.i = leg.start

AtStep == leg.pc = "head" /\ leg.i \in Steps

Finish ==
    /\ leg.pc = "head" /\ leg.i = N + 1
    /\ EndLeg([leg.run EXCEPT !.status = "completed", !.at = 0, !.results = leg.collected])
    /\ UNCHANGED <<steps, intent, legs, takes, seen>>

CheckCancelled ==
    /\ AtStep /\ intent = "cancelled"
    /\ EndLeg(CancelledRun)
    /\ UNCHANGED <<steps, intent, legs, takes, seen>>

(* step_pause_status, but for the step whose requirement has been resolved. *)
AskBefore ==
    /\ AtStep /\ intent # "cancelled"
    /\ ~Routed /\ leg.i # leg.resolved /\ steps[leg.i].before # "none"
    /\ EndLeg(Paused(steps[leg.i].before, leg.collected, 0))
    /\ UNCHANGED <<steps, intent, legs, takes, seen>>

(* Mutant of Execute: no check for cancellation. *)
ExecuteUnchecked ==
    /\ AtStep
    /\ Routed \/ leg.i = leg.resolved \/ steps[leg.i].before = "none"
    /\ leg' = [leg EXCEPT !.pc = "exec"]
    /\ takes' = [takes EXCEPT ![leg.i] = @ + 1]
    /\ UNCHANGED <<steps, row, intent, legs, seen>>

Execute ==
    /\ AtStep /\ intent # "cancelled"
    /\ Routed \/ leg.i = leg.resolved \/ steps[leg.i].before = "none"
    /\ leg' = [leg EXCEPT !.pc = "exec"]
    /\ takes' = [takes EXCEPT ![leg.i] = @ + 1]
    /\ UNCHANGED <<steps, row, intent, legs, seen>>

(* An output, that of a failure that is skipped included. *)
NewOutput(stop) == [step |-> leg.i, take |-> takes[leg.i], stop |-> stop, edit |-> 0]

(* Mutant of Review: the retries so far are forgotten. *)
ReviewAnew(outputs) == EndLeg(Paused("review", outputs, 0))

(* A step that was retried passes its count on; one that had been routed does not. *)
Review(outputs) == EndLeg(Paused("review", outputs, IF Routed THEN 0 ELSE leg.retries))

(* Mutant of Advance: a request to stop is not looked at. *)
AdvanceAlways(outputs) ==
    /\ leg' = [leg EXCEPT !.pc = "head", !.i = leg.i + 1, !.collected = outputs,
                          !.executor = IF Routed THEN 0 ELSE @]
    /\ UNCHANGED row

Advance(outputs) ==
    /\ leg' = [leg EXCEPT !.pc = "head", !.i = IF LastOf(outputs).stop THEN N + 1 ELSE leg.i + 1,
                          !.collected = outputs, !.executor = IF Routed THEN 0 ELSE @]
    /\ UNCHANGED row

(* Cancellation is checked before the output counts, the review comes before  *)
(* stop; the other way round when the output comes from a routed agent.      *)
Return(stop) ==
    /\ leg.pc = "exec"
    /\ LET outputs == Append(leg.collected, NewOutput(stop)) IN
       \/ intent = "cancelled" /\ ~Routed /\ EndLeg(CancelledRun)
       \/ /\ intent # "cancelled" \/ Routed
          /\ \/ Advance(outputs)
             \/ steps[leg.i].review /\ ~(Routed /\ stop) /\ Review(outputs)
    /\ UNCHANGED <<steps, intent, legs, takes, seen>>

(* The step's agent waits for a human: its run has requirements of its own. *)
ExecutorPauses ==
    /\ leg.pc = "exec"
    /\ EndLeg(Paused("executor", leg.collected, 0))
    /\ UNCHANGED <<steps, intent, legs, takes, seen>>

(* on_error="pause"; a routed agent's failure has no policy. *)
ErrorPauses ==
    /\ leg.pc = "exec" /\ ~Routed /\ steps[leg.i].onError = "pause"
    /\ EndLeg([PausedAt(leg.i, leg.collected) EXCEPT !.err = "open"])
    /\ UNCHANGED <<steps, intent, legs, takes, seen>>

(* The exception leaves a first leg before anything is stored: the background *)
(* task stores the run, a caller is left with the exception.  A leg that      *)
(* continues a run stores it, with the outputs it had been paused with.      *)
Fail ==
    /\ leg.pc = "exec" /\ (Routed \/ steps[leg.i].onError = "fail")
    /\ LET run == [leg.run EXCEPT !.status = "error"] IN
       IF leg.first
       THEN /\ row' = IF leg.background THEN run ELSE row
            /\ leg' = NoLeg
       ELSE EndLeg(run)
    /\ UNCHANGED <<steps, intent, legs, takes, seen>>

(* acleanup_run; a cancellation that no check has seen goes with the entry. *)
Cleanup ==
    /\ leg.pc = "cleanup"
    /\ leg' = NoLeg
    /\ intent' = "none"
    /\ seen' = [seen EXCEPT !.asked = FALSE]
    /\ UNCHANGED <<steps, row, legs, takes>>

-----------------------------------------------------------------------------
Next ==
    \/ \E background \in BOOLEAN : Start(background)
    \/ Launch \/ Continue
    \/ Finish \/ CheckCancelled \/ AskBefore \/ Execute
    \/ \E stop \in BOOLEAN : Return(stop)
    \/ ExecutorPauses \/ ErrorPauses \/ Fail \/ Cleanup
    \/ Cancel \/ Crash

Spec == Init /\ [][Next]_vars

-----------------------------------------------------------------------------
(* A step that needs confirmation or input is executed only after it has been *)
(* confirmed or given, in this leg or an earlier one; or rejected with the     *)
(* policy to execute it again.                                               *)
Cleared(run, s) ==
    steps[s].before # "none" =>
        \E k \in DOMAIN run.reqs :
            LET req == run.reqs[k] IN
            /\ req.step = s /\ req.kind = steps[s].before
            /\ req.verdict = "yes" \/ (req.verdict = "no" /\ req.onReject = "retry")

GateHolds == leg.pc = "exec" /\ ~leg.run.past.stale => Cleared(leg.run, leg.i)

(* Every step of a completed run has an output, unless somebody decided to     *)
(* skip it or an earlier step asked to stop.                                 *)
NothingDropped ==
    row.status = "completed" /\ ~row.past.stale =>
        \A s \in Steps \ row.past.skipped : \E k \in DOMAIN row.results :
            LET output == row.results[k] IN output.step = s \/ (output.step < s /\ output.stop)

(* Outputs are in the order of the steps, one for each.                      *)
Ordered(outputs) == \A j, k \in DOMAIN outputs : j < k => outputs[j].step < outputs[k].step

OrderKept == Ordered(row.results) /\ Ordered(leg.collected)

(* An output that a reviewer turned down is no result of a completed run.    *)
RejectedNotKept ==
    row.status = "completed" =>
        \A k \in DOMAIN row.results : <<row.results[k].step, row.results[k].take>> \notin row.past.rejected

(* No step comes after one that asked to stop, unless its output was reviewed. *)
StopEnds ==
    \A k \in DOMAIN leg.collected : leg.collected[k].stop /\ k < Len(leg.collected) =>
        \E j \in DOMAIN leg.run.reqs :
            leg.run.reqs[j].kind = "review" /\ leg.run.reqs[j].step = leg.collected[k].step

(* A step is not repeated more than hitl_max_retries times for its reviewers, *)
(* unless an agent's requirements came between, which start the count anew.  *)
RetriesOf(run, s) ==
    {k \in DOMAIN run.reqs : LET req == run.reqs[k] IN
        req.step = s /\ req.verdict = "no" /\ req.onReject = "retry"}

RetriesBounded ==
    leg.pc # "none" /\ MaxRetries # 0 /\ ~leg.run.past.stale =>
        \A s \in Steps :
            \/ Cardinality(RetriesOf(leg.run, s)) <= MaxRetries
            \/ \E k \in DOMAIN leg.run.reqs : leg.run.reqs[k].kind = "executor" /\ leg.run.reqs[k].step = s

(* No step is executed after the run has been cancelled, also when it was      *)
(* paused at the time; but a continued run that pauses forgets it.           *)
CancelStops == seen.asked => takes = seen.then

(* What a reviewer wrote in place of a step's output is no other step's.      *)
EditsStayPut == \A k \in DOMAIN row.results : row.results[k].edit \in {0, row.results[k].step}
=============================================================================
