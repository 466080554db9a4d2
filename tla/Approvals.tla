----------------------------- MODULE Approvals -----------------------------
(***************************************************************************)
(* Human approval of tool calls.  A run that wants to call tools which     *)
(* require approval pauses, inserts an approval record and stores itself.  *)
(* Reviewers resolve the record; requests to continue the run, given       *)
(* without tools of their own, look the record up, apply its verdict to    *)
(* the stored tools, execute or reject them and let the model go on, which *)
(* may pause the run again.                                                *)
(*                                                                         *)
(* One run; the first execution and every request to continue it is a      *)
(* process, and each of its database calls and tool calls a step.          *)
(***************************************************************************)
EXTENDS Naturals, Sequences

CONSTANTS
    Procs,          \* concurrent executions of the run
    Tools,          \* tool calls the model may make, all with approval_type "required"
    Kinds,          \* what the tools may be: functions from Tools to "confirm", "input" (user
                    \* input) and "external" (external execution)
    Retries,        \* the agent's retries
    Gated,          \* is authorization enabled, so that require_approval_resolved guards /continue?
    DbFaults,       \* may a call of the database fail?  Every failure here is logged and the run
                    \* goes on: a write is lost, a read finds nothing
    Crashes,        \* may an execution die with its server?
    MaxRounds,      \* bound: times the model calls tools
    MaxRequests,    \* bound: requests to continue
    First           \* the process of the first execution

ASSUME ApprovalsAssumption ==
    /\ First \in Procs
    /\ Kinds \subseteq [Tools -> {"confirm", "input", "external"}]
    /\ Retries \in Nat /\ MaxRounds \in Nat /\ MaxRequests \in Nat
    /\ Gated \in BOOLEAN /\ DbFaults \in BOOLEAN /\ Crashes \in BOOLEAN

VARIABLES
    stored,     \* the run in the session table
    approvals,  \* the approvals table, oldest first
    proc,       \* the executions
    rounds, requests,
    ran,        \* history: how often each tool call was executed
    kind,       \* one of Kinds, never changed
    seen        \* history: has an execution been retried, overlapped another one?  tool calls
                \* made, those whose outcome was lost, are run and approvals torn apart?

vars == <<stored, approvals, proc, rounds, requests, ran, kind, seen>>

-----------------------------------------------------------------------------
RunStatuses == {"running", "paused", "completed", "cancelled", "error"}
Steps == {"idle", "check", "load", "lookup", "handle", "model", "approve", "store", "mirror"}

(* A tool call: not made; waiting (is_paused); settled, when its requires_*   *)
(* flag is cleared.  stamp is approval_id, 0 for None.                       *)
ToolType == [st : {"absent", "waiting", "settled"}, confirmed : {"unset", "yes", "no"},
             result : BOOLEAN, stamp : Nat]

ApprovalType == [st : {"pending", "approved", "rejected"}, data : BOOLEAN, gone : BOOLEAN,
                 tools : SUBSET Tools, runStatus : RunStatuses]

TypeOK ==
    /\ stored \in [status : RunStatuses, tools : [Tools -> ToolType]]
    /\ approvals \in Seq(ApprovalType)
    /\ proc \in [Procs -> [pc : Steps, status : RunStatuses, tools : [Tools -> ToolType],
                           attempt : 0..Retries]]
    /\ rounds \in 0..MaxRounds /\ requests \in 0..MaxRequests
    /\ ran \in [Tools -> Nat]
    /\ kind \in Kinds
    /\ seen \in [retried : BOOLEAN, overlap : BOOLEAN, called : SUBSET Tools,
                 lost : SUBSET Tools, torn : BOOLEAN]
    /\ \A t \in Tools : stored.tools[t].stamp \in 0..Len(approvals)

NotCalled == [t \in Tools |-> [st |-> "absent", confirmed |-> "unset", result |-> FALSE, stamp |-> 0]]

Idle == [pc |-> "idle", status |-> "running", tools |-> NotCalled, attempt |-> 0]

Init ==
    /\ stored = [status |-> "running", tools |-> NotCalled]
    /\ approvals = <<>>
    /\ proc = [p \in Procs |-> IF p = First THEN [Idle EXCEPT !.pc = "model"] ELSE Idle]
    /\ rounds = 0 /\ requests = 0
    /\ ran = [t \in Tools |-> 0]
    /\ kind \in Kinds
    /\ seen = [retried |-> FALSE, overlap |-> FALSE, called |-> {}, lost |-> {}, torn |-> FALSE]

-----------------------------------------------------------------------------
(* The approvals table. *)

Existing == {a \in DOMAIN approvals : ~approvals[a].gone}

Pending == {a \in Existing : approvals[a].st = "pending"}

(* Mutant of Resolve: no expected_status. *)
ResolveAny(a, verdict, data) ==
    /\ a \in Existing
    /\ approvals' = [approvals EXCEPT ![a].st = verdict, ![a].data = data]
    /\ UNCHANGED <<stored, proc, rounds, requests, ran>>

(* update_approval(expected_status="pending"); a second reviewer gets 409.    *)
(* data: does the resolution bring a result for external tools?              *)
Resolve(a, verdict, data) ==
    /\ a \in Pending
    /\ approvals' = [approvals EXCEPT ![a].st = verdict, ![a].data = data]
    /\ UNCHANGED <<stored, proc, rounds, requests, ran>>

DeleteApproval(a) ==
    /\ a \in Existing
    /\ approvals' = [approvals EXCEPT ![a].gone = TRUE]
    /\ UNCHANGED <<stored, proc, rounds, requests, ran>>

-----------------------------------------------------------------------------
(* A request to continue the run, without tools. *)

StepProc(p, r) == proc' = [proc EXCEPT ![p] = r]

(* require_approval_resolved: 403 while an approval is pending, and it can be *)
(* read.                                                                     *)
Request(p) ==
    /\ proc[p].pc = "idle"
    /\ requests < MaxRequests /\ requests' = requests + 1
    /\ Gated => Pending = {} \/ DbFaults
    /\ StepProc(p, [proc[p] EXCEPT !.pc = "check"])
    /\ UNCHANGED <<stored, approvals, rounds, ran>>

(* 409 when the stored run is not paused. *)
Check(p) ==
    /\ proc[p].pc = "check"
    /\ StepProc(p, [proc[p] EXCEPT !.pc = IF stored.status = "paused" THEN "load" ELSE "idle"])
    /\ UNCHANGED <<stored, approvals, rounds, requests, ran>>

Load(p) ==
    /\ proc[p].pc = "load"
    /\ StepProc(p, [proc[p] EXCEPT !.pc = "lookup", !.tools = stored.tools])
    /\ UNCHANGED <<stored, approvals, rounds, requests, ran>>

(* Mutant of Fail: the next attempt reads the stored run again. *)
FailReloads(r) ==
    IF r.attempt < Retries THEN [r EXCEPT !.attempt = @ + 1, !.pc = "load"]
                           ELSE [r EXCEPT !.status = "error", !.pc = "store"]

(* An exception: the next attempt, which has a run_response and asks no       *)
(* approval, or the end of the run.                                          *)
Fail(r) ==
    IF r.attempt < Retries THEN [r EXCEPT !.attempt = @ + 1, !.status = "running", !.pc = "handle"]
                           ELSE [r EXCEPT !.status = "error", !.pc = "store"]

(* The newest approval of the run. *)
Newest(a) == a \in Existing /\ \A b \in Existing : b <= a

(* _apply_approval_to_tools, for the tools still waiting. *)
Applied(tools, approval) ==
    [t \in Tools |->
        IF tools[t].st # "waiting" THEN tools[t]
        ELSE IF approval.st = "rejected" THEN [tools[t] EXCEPT !.confirmed = "no"]
        ELSE IF approval.st = "pending" THEN tools[t]
        ELSE IF kind[t] = "confirm" THEN [tools[t] EXCEPT !.confirmed = "yes"]
        ELSE IF kind[t] = "external" /\ approval.data THEN [tools[t] EXCEPT !.result = TRUE]
        ELSE tools[t]]

Called(r) == {t \in Tools : r.tools[t].st # "absent"}

(* Mutant of Resolved: a pending approval will do. *)
ResolvedAny(a) == TRUE

Resolved(a) == approvals[a].st # "pending"

(* acheck_and_apply_approval_resolution: no record, or a pending one, raises; *)
(* so does a run without tools.                                              *)
Lookup(p) ==
    /\ proc[p].pc = "lookup"
    /\ StepProc(p,
         IF Called(proc[p]) # {} /\ \E a \in Existing : Newest(a) /\ Resolved(a)
         THEN LET a == CHOOSE a \in Existing : Newest(a)
              IN  [proc[p] EXCEPT !.pc = "handle", !.status = "running",
                                  !.tools = Applied(@, approvals[a])]
         ELSE Fail(proc[p]))
    /\ UNCHANGED <<stored, approvals, rounds, requests, ran>>

(* A read that fails finds nothing.  The check lets the request pass; a run    *)
(* that is not found is an exception, and the next attempt, or the end, has an *)
(* empty one in its place; without a record the lookup raises.               *)
ReadFails(p) ==
    /\ DbFaults
    /\ \/ proc[p].pc = "check" /\ StepProc(p, [proc[p] EXCEPT !.pc = "load"])
       \/ proc[p].pc = "load" /\ StepProc(p, Fail([proc[p] EXCEPT !.tools = NotCalled]))
       \/ proc[p].pc = "lookup" /\ StepProc(p, Fail(proc[p]))
    /\ UNCHANGED <<stored, approvals, rounds, requests, ran>>

-----------------------------------------------------------------------------
(* ahandle_tool_call_updates_stream, one waiting tool at a time. *)

Settled(tool, confirmed, result) ==
    [tool EXCEPT !.st = "settled", !.confirmed = confirmed, !.result = result]

Execute(p, t) ==
    /\ StepProc(p, [proc[p] EXCEPT !.tools[t] = Settled(@, proc[p].tools[t].confirmed, TRUE)])
    /\ ran' = [ran EXCEPT ![t] = @ + 1]

Reject(p, t) ==
    /\ StepProc(p, [proc[p] EXCEPT !.tools[t] = Settled(@, "no", FALSE)])
    /\ UNCHANGED ran

(* Case 1: executed when confirmed, else rejected. *)
HandleConfirmed(p, t) ==
    /\ kind[t] = "confirm"
    /\ IF proc[p].tools[t].confirmed = "yes" THEN Execute(p, t) ELSE Reject(p, t)

(* Case 4: the input is copied to the arguments, and the tool executed. *)
HandleInput(p, t) == kind[t] = "input" /\ Execute(p, t)

(* Case 2: executed elsewhere; without a result there is no going on. *)
HandleExternal(p, t) ==
    /\ kind[t] = "external"
    /\ StepProc(p, IF proc[p].tools[t].result
                   THEN [proc[p] EXCEPT !.tools[t] = Settled(@, proc[p].tools[t].confirmed, TRUE)]
                   ELSE Fail(proc[p]))
    /\ UNCHANGED ran

Waiting(r) == {t \in Tools : r.tools[t].st = "waiting"}

Handle(p) ==
    /\ proc[p].pc = "handle"
    /\ \E t \in Waiting(proc[p]) : HandleConfirmed(p, t) \/ HandleInput(p, t) \/ HandleExternal(p, t)
    /\ UNCHANGED <<stored, approvals, rounds, requests>>

Handled(p) ==
    /\ proc[p].pc = "handle" /\ Waiting(proc[p]) = {}
    /\ StepProc(p, [proc[p] EXCEPT !.pc = "model"])
    /\ UNCHANGED <<stored, approvals, rounds, requests, ran>>

(* The model calls tools, each call under an id of its own: the run pauses. *)
CallTools(p, calls) ==
    /\ proc[p].pc = "model" /\ rounds < MaxRounds
    /\ \A t \in calls : proc[p].tools[t].st = "absent" /\ t \notin seen.called
    /\ StepProc(p, [proc[p] EXCEPT !.pc = "approve", !.status = "paused",
                      !.tools = [t \in Tools |-> IF t \in calls THEN [@[t] EXCEPT !.st = "waiting"] ELSE @[t]]])
    /\ rounds' = rounds + 1
    /\ UNCHANGED <<stored, approvals, requests, ran>>

Complete(p) ==
    /\ proc[p].pc = "model"
    /\ StepProc(p, [proc[p] EXCEPT !.pc = "store", !.status = "completed"])
    /\ UNCHANGED <<stored, approvals, rounds, requests, ran>>

ModelFails(p) ==
    /\ proc[p].pc = "model"
    /\ StepProc(p, Fail(proc[p]))
    /\ UNCHANGED <<stored, approvals, rounds, requests, ran>>

(* RunCancelledException, at one of the checks between events. *)
Cancel(p) ==
    /\ proc[p].pc \in {"handle", "model"}
    /\ StepProc(p, [proc[p] EXCEPT !.pc = "store", !.status = "cancelled"])
    /\ UNCHANGED <<stored, approvals, rounds, requests, ran>>

-----------------------------------------------------------------------------
(* ahandle_agent_run_paused_stream and acleanup_and_store. *)

Stamped(r, id) ==
    [r EXCEPT !.pc = "store",
              !.tools = [t \in Tools |-> IF t \in Called(r) THEN [r.tools[t] EXCEPT !.stamp = id] ELSE r.tools[t]]]

(* acreate_approval_from_pause: nothing when any tool has been stamped before. *)
Approve(p) ==
    /\ proc[p].pc = "approve"
    /\ IF \E t \in Called(proc[p]) : proc[p].tools[t].stamp # 0
       THEN StepProc(p, [proc[p] EXCEPT !.pc = "store"]) /\ UNCHANGED approvals
       ELSE /\ approvals' = Append(approvals, [st |-> "pending", data |-> FALSE, gone |-> FALSE,
                                              tools |-> Waiting(proc[p]), runStatus |-> "paused"])
            /\ StepProc(p, Stamped(proc[p], Len(approvals) + 1))
    /\ UNCHANGED <<stored, rounds, requests, ran>>

(* Mutant of ApproveFails: stamped before the insertion. *)
ApproveFailsStamped(p) ==
    /\ DbFaults
    /\ proc[p].pc = "approve"
    /\ StepProc(p, Stamped(proc[p], Len(approvals) + 1))
    /\ UNCHANGED <<stored, approvals, rounds, requests, ran>>

(* create_approval raises, which is logged. *)
ApproveFails(p) ==
    /\ DbFaults
    /\ proc[p].pc = "approve"
    /\ StepProc(p, [proc[p] EXCEPT !.pc = "store"])
    /\ UNCHANGED <<stored, approvals, rounds, requests, ran>>

Store(p) ==
    /\ proc[p].pc = "store"
    /\ stored' = [status |-> proc[p].status, tools |-> proc[p].tools]
    /\ StepProc(p, [proc[p] EXCEPT !.pc = "mirror"])
    /\ UNCHANGED <<approvals, rounds, requests, ran>>

(* aupsert_session raises, which is logged: the row stays as it was. *)
StoreFails(p) ==
    /\ DbFaults
    /\ proc[p].pc = "store"
    /\ StepProc(p, [proc[p] EXCEPT !.pc = "mirror"])
    /\ UNCHANGED <<stored, approvals, rounds, requests, ran>>

(* Mutant of Mirror: a failed run is not reported. *)
MirrorUnlessError(p) ==
    /\ proc[p].pc = "mirror"
    /\ approvals' = [a \in DOMAIN approvals |->
          IF a \in Existing /\ proc[p].status # "error"
          THEN [approvals[a] EXCEPT !.runStatus = proc[p].status] ELSE approvals[a]]
    /\ StepProc(p, Idle)
    /\ UNCHANGED <<stored, rounds, requests, ran>>

(* aupdate_approval_run_status, for every approval of the run. *)
Mirror(p) ==
    /\ proc[p].pc = "mirror"
    /\ approvals' = [a \in DOMAIN approvals |->
          IF a \in Existing THEN [approvals[a] EXCEPT !.runStatus = proc[p].status] ELSE approvals[a]]
    /\ StepProc(p, Idle)
    /\ UNCHANGED <<stored, rounds, requests, ran>>

(* The update raises, which is logged. *)
MirrorFails(p) ==
    /\ DbFaults
    /\ proc[p].pc = "mirror"
    /\ StepProc(p, Idle)
    /\ UNCHANGED <<stored, approvals, rounds, requests, ran>>

-----------------------------------------------------------------------------
Review ==
    \E a \in DOMAIN approvals :
        \/ DeleteApproval(a)
        \/ \E verdict \in {"approved", "rejected"}, data \in BOOLEAN : Resolve(a, verdict, data)

(* What leaves no trace in the history of lost writes. *)
ProcStep(p) ==
    \/ Request(p) \/ Check(p) \/ Load(p) \/ Lookup(p) \/ ReadFails(p)
    \/ Handle(p) \/ Handled(p)
    \/ \E calls \in SUBSET Tools \ {{}} : CallTools(p, calls)
    \/ Complete(p) \/ ModelFails(p) \/ Cancel(p)
    \/ Approve(p) \/ ApproveFails(p) \/ Mirror(p)

Crash(p) ==
    /\ Crashes
    /\ proc[p].pc # "idle"
    /\ StepProc(p, Idle)
    /\ UNCHANGED <<stored, approvals, rounds, requests, ran>>

(* History. *)
Working(p) == proc[p].pc \notin {"idle", "check"}

Noted(lost, torn) ==
    [retried |-> seen.retried \/ \E p \in Procs : proc'[p].attempt > 0,
     overlap |-> seen.overlap \/ \E p, q \in Procs : p # q /\ Working(p)' /\ Working(q)',
     called |-> seen.called \cup UNION {Called(proc'[p]) : p \in Procs},
     lost |-> seen.lost \cup lost,
     torn |-> torn]

(* The calls that an execution has settled and the row does not know of. *)
Unsaved(p) == {t \in Tools : proc[p].tools[t].st = "settled" /\ stored.tools[t].st # "settled"}

(* The run is stored and its approvals are not updated yet, or a new approval *)
(* has been inserted and the run is not stored yet.                          *)
Between(p) == proc[p].pc = "mirror" \/ (proc[p].pc = "store" /\ proc[p].status = "paused")

Next ==
    /\ \/ Review /\ seen' = Noted({}, seen.torn)
       \/ \E p \in Procs :
             \/ ProcStep(p) /\ seen' = Noted({}, seen.torn)
             \/ Store(p) /\ seen' = Noted({}, FALSE)
             \/ StoreFails(p) /\ seen' = Noted(Unsaved(p), TRUE)
             \/ MirrorFails(p) /\ seen' = Noted({}, TRUE)
             \/ Crash(p) /\ seen' = Noted(Unsaved(p), seen.torn \/ Between(p))
    /\ UNCHANGED kind

Spec == Init /\ [][Next]_vars

-----------------------------------------------------------------------------
(* A tool call is executed only if an approval that was created for it has    *)
(* been approved and still is, however many requests to continue race with   *)
(* the reviewers, a deletion of the record or the death of a server.  (Calls *)
(* for user input do not look at the verdict.)                               *)
RanOnlyApproved ==
    \A t \in Tools : ran[t] > 0 /\ kind[t] # "input" =>
        \E a \in DOMAIN approvals : t \in approvals[a].tools /\ approvals[a].st = "approved"

(* So it is while the run has paused once.                                   *)
FirstPauseApproved == rounds <= 1 => RanOnlyApproved

(* A call that was turned down was turned down by a reviewer, on the first    *)
(* attempt of a run that has paused once.                                    *)
TurnedDownByVerdict ==
    rounds <= 1 /\ ~seen.retried =>
        \A p \in Procs, t \in Tools :
            LET tool == proc[p].tools[t] IN
            kind[t] = "confirm" /\ tool.st = "settled" /\ tool.confirmed = "no" =>
                \E a \in DOMAIN approvals : t \in approvals[a].tools /\ approvals[a].st = "rejected"

(* A tool call is executed at most once, over retries, pauses, continuations  *)
(* that do not overlap, deaths of the server and lost reads and writes: unless *)
(* it was settled by an execution that died or failed to store it.           *)
RanOnce == ~seen.overlap => \A t \in Tools \ seen.lost : ran[t] <= 1

(* When no execution is under way the approvals say what became of the run:   *)
(* completed, failed, cancelled or paused again (approval.py:580: "This       *)
(* allows the UI to know if the run has already been continued").  Unless the *)
(* last end of the run got only one of its two writes through.               *)
MirrorAgrees ==
    ~seen.overlap /\ ~seen.torn /\ (\A p \in Procs : proc[p].pc \notin {"store", "mirror"}) =>
        \A a \in Existing : approvals[a].runStatus = stored.status
=============================================================================
