-------------------------- MODULE ApprovalsProofs --------------------------
(* Proofs about Approvals, for any number of executions, tool calls, retries, *)
(* pauses and requests.                                                      *)
EXTENDS Approvals, TLAPS

-----------------------------------------------------------------------------
(* Type correctness. *)

ToolsType == [Tools -> ToolType]

ProcType == [pc : Steps, status : RunStatuses, tools : ToolsType, attempt : 0..Retries]

SeenType == [retried : BOOLEAN, overlap : BOOLEAN, called : SUBSET Tools, lost : SUBSET Tools, torn : BOOLEAN]

(* The stamps of a copy of the tools name approvals. *)
StampsIn(tools, n) == \A t \in Tools : tools[t].stamp <= n

TypeInv ==
    /\ stored \in [status : RunStatuses, tools : ToolsType]
    /\ approvals \in Seq(ApprovalType)
    /\ proc \in [Procs -> ProcType]
    /\ rounds \in 0..MaxRounds /\ requests \in 0..MaxRequests
    /\ ran \in [Tools -> Nat]
    /\ kind \in Kinds
    /\ seen \in SeenType
    /\ StampsIn(stored.tools, Len(approvals))
    /\ \A p \in Procs : StampsIn(proc[p].tools, Len(approvals))

LEMMA TypeInvType == ASSUME TypeInv PROVE TypeOK
<1>1. ASSUME NEW t \in Tools
      PROVE  stored.tools[t].stamp \in 0..Len(approvals)
  <2>1. stored.tools[t] \in ToolType /\ Len(approvals) \in Nat
    BY DEF TypeInv, ToolsType
  <2>2. stored.tools[t].stamp \in Nat /\ stored.tools[t].stamp <= Len(approvals)
    BY <2>1 DEF TypeInv, StampsIn, ToolType
  <2>. QED
    BY <2>1, <2>2
<1>. QED
  BY <1>1 DEF TypeInv, TypeOK, ToolsType, ProcType, SeenType

LEMMA NotCalledType ==
    /\ NotCalled \in ToolsType
    /\ \A n \in Nat : StampsIn(NotCalled, n)
    /\ \A t \in Tools : NotCalled[t].st = "absent" /\ NotCalled[t].confirmed = "unset"
  BY DEF NotCalled, ToolsType, ToolType, StampsIn

LEMMA IdleType == Idle \in ProcType /\ Idle.pc = "idle" /\ Idle.tools = NotCalled
<1>1. "idle" \in Steps /\ "running" \in RunStatuses /\ 0 \in 0..Retries
  BY ApprovalsAssumption DEF Steps, RunStatuses
<1>. QED
  BY <1>1, NotCalledType DEF Idle, ProcType

LEMMA InitTypeInv == ASSUME Init PROVE TypeInv
<1>1. /\ "idle" \in Steps /\ "model" \in Steps /\ "running" \in RunStatuses /\ 0 \in 0..Retries
      /\ rounds \in 0..MaxRounds /\ requests \in 0..MaxRequests
  BY ApprovalsAssumption DEF Init, Steps, RunStatuses
<1>2. /\ proc \in [Procs -> ProcType]
      /\ \A p \in Procs : proc[p].tools = NotCalled
  <2>1. [Idle EXCEPT !.pc = "model"] \in ProcType /\ [Idle EXCEPT !.pc = "model"].tools = NotCalled
    BY <1>1, IdleType DEF ProcType
  <2>. QED
    BY <2>1, IdleType DEF Init
<1>3. stored \in [status : RunStatuses, tools : ToolsType]
  BY <1>1, NotCalledType DEF Init
<1>4. Len(approvals) = 0 /\ approvals \in Seq(ApprovalType)
  BY DEF Init
<1>5. StampsIn(stored.tools, 0) /\ \A p \in Procs : StampsIn(proc[p].tools, 0)
  BY <1>2, NotCalledType DEF Init
<1>. QED
  BY <1>1, <1>2, <1>3, <1>4, <1>5 DEF Init, TypeInv, SeenType

(* A step of one execution that leaves the records alone. *)
LEMMA StepProcType ==
    ASSUME TypeInv, NEW p \in Procs, NEW r \in ProcType, StepProc(p, r)
    PROVE  /\ proc' \in [Procs -> ProcType]
           /\ proc'[p] = r
           /\ \A q \in Procs \ {p} : proc'[q] = proc[q]
<1>1. proc \in [Procs -> ProcType] /\ proc' = [proc EXCEPT ![p] = r]
  BY DEF TypeInv, StepProc
<1>. QED
  BY <1>1

LEMMA FailType ==
    ASSUME NEW r \in ProcType
    PROVE  /\ Fail(r) \in ProcType /\ Fail(r).tools = r.tools
           /\ \/ Fail(r).pc = "handle" /\ Fail(r).attempt > 0
              \/ Fail(r).pc = "store"
<1>1. "error" \in RunStatuses /\ "running" \in RunStatuses /\ "handle" \in Steps /\ "store" \in Steps
  BY DEF RunStatuses, Steps
<1>2. r.attempt \in 0..Retries /\ Retries \in Nat
  BY ApprovalsAssumption DEF ProcType
<1>3. CASE r.attempt < Retries
  <2>. DEFINE next == r.attempt + 1
  <2>1. Fail(r) = [r EXCEPT !.attempt = next, !.status = "running", !.pc = "handle"]
    BY <1>3 DEF Fail
  <2>2. next \in 0..Retries /\ next > 0
    BY <1>2, <1>3
  <2>. HIDE DEF next
  <2>. QED
    BY <1>1, <2>1, <2>2 DEF ProcType
<1>4. CASE ~(r.attempt < Retries)
  BY <1>1, <1>4 DEF Fail, ProcType
<1>. QED
  BY <1>3, <1>4

LEMMA AppliedType ==
    ASSUME TypeInv, NEW tools \in ToolsType, NEW approval \in ApprovalType
    PROVE  /\ Applied(tools, approval) \in ToolsType
           /\ \A n : StampsIn(tools, n) => StampsIn(Applied(tools, approval), n)
<1>1. ASSUME NEW t \in Tools
      PROVE  Applied(tools, approval)[t] \in ToolType /\ Applied(tools, approval)[t].stamp = tools[t].stamp
  <2>1. tools[t] \in ToolType
    BY DEF ToolsType
  <2>2. Applied(tools, approval)[t] \in {tools[t], [tools[t] EXCEPT !.confirmed = "no"],
                                         [tools[t] EXCEPT !.confirmed = "yes"], [tools[t] EXCEPT !.result = TRUE]}
    BY DEF Applied
  <2>. QED
    BY <2>1, <2>2 DEF ToolType
<1>2. Applied(tools, approval) \in ToolsType
  BY <1>1 DEF Applied, ToolsType
<1>. QED
  BY <1>1, <1>2 DEF StampsIn

LEMMA SettledType ==
    ASSUME NEW tool \in ToolType, NEW confirmed \in {"unset", "yes", "no"}, NEW result \in BOOLEAN
    PROVE  /\ Settled(tool, confirmed, result) \in ToolType
           /\ Settled(tool, confirmed, result).st = "settled"
           /\ Settled(tool, confirmed, result).confirmed = confirmed
           /\ Settled(tool, confirmed, result).stamp = tool.stamp
  BY DEF Settled, ToolType

-----------------------------------------------------------------------------
(* What the steps of an execution do to its tool calls and to what is shared. *)

Others(p) == \A q \in Procs \ {p} : proc'[q] = proc[q]

Tool(p, t) == proc[p].tools[t]

(* The calls are left alone. *)
Goes(p) ==
    /\ proc'[p].tools = proc[p].tools
    /\ UNCHANGED <<stored, approvals, ran, rounds>>
    /\ \/ proc[p].pc = "idle" /\ proc'[p].pc = "check"
       \/ proc[p].pc = "check" /\ proc'[p].pc = "idle"
       \/ proc[p].pc = "check" /\ proc'[p].pc = "load"
       \/ proc[p].pc = "handle" /\ Waiting(proc[p]) = {} /\ proc'[p].pc = "model"
       \/ proc[p].pc \in {"lookup", "handle", "model"} /\ proc'[p].pc = "handle" /\ proc'[p].attempt > 0
       \/ proc[p].pc \in {"lookup", "handle", "model", "approve"} /\ proc'[p].pc = "store"

Loads(p) ==
    /\ proc[p].pc = "load" /\ proc'[p].pc = "lookup" /\ proc'[p].tools = stored.tools
    /\ UNCHANGED <<stored, approvals, ran, rounds>>

LooksUp(p) ==
    /\ proc[p].pc = "lookup" /\ proc'[p].pc = "handle"
    /\ \E a \in DOMAIN approvals : Resolved(a) /\ proc'[p].tools = Applied(proc[p].tools, approvals[a])
    /\ UNCHANGED <<stored, approvals, ran, rounds>>

(* One waiting call is settled. *)
Settles(p, t) ==
    /\ Tool(p, t).st = "waiting" /\ Tool(p, t)'.st = "settled"
    /\ \A u \in Tools \ {t} : Tool(p, u)' = Tool(p, u)

Runs(p, t) ==
    /\ ran' = [ran EXCEPT ![t] = ran[t] + 1]
    /\ Tool(p, t)'.confirmed = Tool(p, t).confirmed
    /\ kind[t] = "input" \/ Tool(p, t).confirmed = "yes"

Rejects(p, t) ==
    /\ ran' = ran /\ kind[t] = "confirm"
    /\ Tool(p, t).confirmed # "yes" /\ Tool(p, t)'.confirmed = "no"

Accepts(p, t) ==
    /\ ran' = ran /\ kind[t] = "external"
    /\ Tool(p, t)'.confirmed = Tool(p, t).confirmed

Handles(p) ==
    /\ proc[p].pc = "handle" /\ proc'[p].pc = "handle"
    /\ \E t \in Tools : Settles(p, t) /\ (Runs(p, t) \/ Rejects(p, t) \/ Accepts(p, t))
    /\ UNCHANGED <<stored, approvals, rounds>>

Calls(p) ==
    /\ proc[p].pc = "model" /\ proc'[p].pc = "approve" /\ rounds' = rounds + 1
    /\ proc'[p].status = "paused"
    /\ \A t \in Tools : \/ Tool(p, t)' = Tool(p, t)
                        \/ /\ t \notin seen.called
                           /\ Tool(p, t).st = "absent" /\ Tool(p, t)'.st = "waiting"
                           /\ Tool(p, t)'.confirmed = Tool(p, t).confirmed
    /\ UNCHANGED <<stored, approvals, ran>>

Creates(p) ==
    /\ proc[p].pc = "approve" /\ proc'[p].pc = "store" /\ proc'[p].status = proc[p].status
    /\ approvals' = Append(approvals, [st |-> "pending", data |-> FALSE, gone |-> FALSE,
                                      tools |-> Waiting(proc[p]), runStatus |-> "paused"])
    /\ \A t \in Tools : Tool(p, t)'.st = Tool(p, t).st /\ Tool(p, t)'.confirmed = Tool(p, t).confirmed
    /\ UNCHANGED <<stored, ran, rounds>>

Stores(p) ==
    /\ proc[p].pc = "store" /\ proc'[p].pc = "mirror"
    /\ proc'[p].tools = proc[p].tools /\ proc'[p].status = proc[p].status
    /\ stored'.tools = proc[p].tools /\ stored'.status = proc[p].status
    /\ UNCHANGED <<approvals, ran, rounds>>

Mirrors(p) ==
    /\ proc[p].pc = "mirror" /\ proc'[p].pc = "idle" /\ proc'[p].tools = NotCalled
    /\ DOMAIN approvals' = DOMAIN approvals
    /\ \A a \in DOMAIN approvals :
          /\ approvals'[a].st = approvals[a].st /\ approvals'[a].tools = approvals[a].tools
          /\ approvals'[a].gone = approvals[a].gone
          /\ ~approvals[a].gone => approvals'[a].runStatus = proc[p].status
    /\ UNCHANGED <<stored, ran, rounds>>

(* The run is not found. *)
Forgets(p) ==
    /\ proc[p].pc = "load" /\ proc'[p].tools = NotCalled
    /\ (proc'[p].pc = "handle" /\ proc'[p].attempt > 0) \/ proc'[p].pc = "store"
    /\ UNCHANGED <<stored, approvals, ran, rounds>>

(* The writes that fail, and death. *)
SkipsStore(p) ==
    /\ proc[p].pc = "store" /\ proc'[p].pc = "mirror" /\ proc'[p].tools = proc[p].tools
    /\ UNCHANGED <<stored, approvals, ran, rounds>>

SkipsMirror(p) ==
    /\ proc[p].pc = "mirror" /\ proc'[p].pc = "idle" /\ proc'[p].tools = NotCalled
    /\ UNCHANGED <<stored, approvals, ran, rounds>>

Dies(p) ==
    /\ proc'[p].pc = "idle" /\ proc'[p].tools = NotCalled
    /\ UNCHANGED <<stored, approvals, ran, rounds>>

Moves(p) ==
    Goes(p) \/ Loads(p) \/ Forgets(p) \/ LooksUp(p) \/ Handles(p) \/ Calls(p) \/ Creates(p) \/ Mirrors(p)

Fails(p) == SkipsStore(p) \/ SkipsMirror(p) \/ Dies(p)

(* What a step of an execution has to keep for the state to stay well typed.   *)
LEMMA KeptType ==
    ASSUME TypeInv, NEW p \in Procs, NEW r \in ProcType, StepProc(p, r),
           stored' \in [status : RunStatuses, tools : ToolsType],
           approvals' \in Seq(ApprovalType), Len(approvals) <= Len(approvals'),
           rounds' \in 0..MaxRounds, requests' \in 0..MaxRequests, ran' \in [Tools -> Nat],
           kind' = kind, seen' \in SeenType,
           StampsIn(r.tools, Len(approvals')),
           StampsIn(stored'.tools, Len(approvals'))
    PROVE  TypeInv'
<1>1. /\ proc' \in [Procs -> ProcType] /\ proc'[p] = r
      /\ \A q \in Procs \ {p} : proc'[q] = proc[q]
  BY StepProcType
<1>2. ASSUME NEW q \in Procs
      PROVE  StampsIn(proc'[q].tools, Len(approvals'))
  <2>1. CASE q = p
    BY <1>1, <2>1
  <2>2. CASE q # p
    <3>1. proc'[q] = proc[q] /\ proc[q].tools \in ToolsType /\ StampsIn(proc[q].tools, Len(approvals))
      BY <1>1, <2>2 DEF TypeInv, ProcType
    <3>2. Len(approvals) \in Nat /\ Len(approvals') \in Nat
      BY DEF TypeInv
    <3>3. \A t \in Tools : proc[q].tools[t].stamp \in Nat
      BY <3>1 DEF ToolsType, ToolType
    <3>4. StampsIn(proc[q].tools, Len(approvals'))
      BY <3>1, <3>2, <3>3 DEF StampsIn
    <3>. QED
      BY <3>1, <3>4
  <2>. QED
    BY <2>1, <2>2
<1>. QED
  BY <1>1, <1>2 DEF TypeInv

(* With nothing but the execution and its tools at stake. *)
LEMMA LocalType ==
    ASSUME TypeInv, NEW p \in Procs, NEW r \in ProcType, StepProc(p, r),
           UNCHANGED <<stored, approvals>>,
           rounds' \in 0..MaxRounds, requests' \in 0..MaxRequests, ran' \in [Tools -> Nat],
           kind' = kind, seen' \in SeenType,
           StampsIn(r.tools, Len(approvals))
    PROVE  TypeInv'
<1>1. /\ stored' \in [status : RunStatuses, tools : ToolsType] /\ approvals' \in Seq(ApprovalType)
      /\ Len(approvals) <= Len(approvals') /\ StampsIn(stored'.tools, Len(approvals'))
      /\ StampsIn(r.tools, Len(approvals'))
  BY DEF TypeInv
<1>. QED
  BY <1>1, KeptType

LEMMA StepMoves ==
    ASSUME TypeInv, NEW p \in Procs, ProcStep(p), kind' = kind, seen' \in SeenType
    PROVE  TypeInv' /\ Others(p) /\ Moves(p)
<1>. DEFINE old == proc[p]
<1>1. /\ old \in ProcType /\ old.tools \in ToolsType /\ StampsIn(old.tools, Len(approvals))
      /\ \A t \in Tools : old.tools[t] \in ToolType
      /\ stored \in [status : RunStatuses, tools : ToolsType] /\ stored.tools \in ToolsType
      /\ StampsIn(stored.tools, Len(approvals)) /\ approvals \in Seq(ApprovalType)
      /\ ran \in [Tools -> Nat] /\ rounds \in 0..MaxRounds /\ requests \in 0..MaxRequests
      /\ kind \in [Tools -> {"confirm", "input", "external"}]
  BY ApprovalsAssumption DEF TypeInv, ProcType, ToolsType
<1>2. ASSUME NEW r \in ProcType, StepProc(p, r)
      PROVE  Others(p) /\ proc'[p] = r
  BY <1>2, StepProcType DEF Others
<1>3. /\ {"idle", "check", "load", "lookup", "handle", "model", "approve", "store", "mirror"} \subseteq Steps
      /\ {"running", "paused", "completed", "cancelled", "error"} \subseteq RunStatuses
  BY DEF Steps, RunStatuses
<1>4. CASE Request(p)
  <2>. DEFINE r == [old EXCEPT !.pc = "check"]
  <2>1. StepProc(p, r) /\ old.pc = "idle" /\ UNCHANGED <<stored, approvals, rounds, ran>>
    BY <1>4 DEF Request
  <2>2. r \in ProcType /\ r.tools = old.tools /\ r.pc = "check"
    BY <1>1, <1>3 DEF ProcType
  <2>3. requests' \in 0..MaxRequests
    BY <1>1, <1>4, ApprovalsAssumption DEF Request
  <2>. HIDE DEF r
  <2>4. Goes(p)
    BY <1>2, <2>1, <2>2 DEF Goes
  <2>. QED
    BY <1>1, <1>2, <2>1, <2>2, <2>3, <2>4, LocalType DEF Moves
<1>5. CASE Check(p) \/ (ReadFails(p) /\ old.pc = "check") \/ Handled(p) \/ Complete(p) \/ Cancel(p) \/ ApproveFails(p)
           \/ (Approve(p) /\ \E t \in Called(old) : old.tools[t].stamp # 0)
  <2>1. PICK pc \in Steps, status \in RunStatuses :
              /\ StepProc(p, [old EXCEPT !.pc = pc, !.status = status])
              /\ UNCHANGED <<stored, approvals, rounds, requests, ran>>
              /\ \/ old.pc = "check" /\ pc \in {"load", "idle"}
                 \/ old.pc = "handle" /\ Waiting(old) = {} /\ pc = "model"
                 \/ old.pc \in {"handle", "model", "approve"} /\ pc = "store"
    <3>1. old.status \in RunStatuses
      BY <1>1 DEF ProcType
    <3>2. \A pc : [old EXCEPT !.pc = pc] = [old EXCEPT !.pc = pc, !.status = old.status]
      BY <1>1 DEF ProcType
    <3>3. CASE Check(p)
      <4>. DEFINE pc == IF stored.status = "paused" THEN "load" ELSE "idle"
      <4>1. StepProc(p, [old EXCEPT !.pc = pc]) /\ old.pc = "check"
            /\ UNCHANGED <<stored, approvals, rounds, requests, ran>>
        BY <3>3 DEF Check
      <4>2. pc \in {"load", "idle"} /\ pc \in Steps
        BY <1>3
      <4>. HIDE DEF pc
      <4>3. StepProc(p, [old EXCEPT !.pc = pc, !.status = old.status])
        BY <3>2, <4>1
      <4>. QED
        BY <3>1, <4>1, <4>2, <4>3
    <3>7. CASE ReadFails(p) /\ old.pc = "check"
      <4>1. StepProc(p, [old EXCEPT !.pc = "load"]) /\ UNCHANGED <<stored, approvals, rounds, requests, ran>>
        BY <3>7 DEF ReadFails
      <4>2. StepProc(p, [old EXCEPT !.pc = "load", !.status = old.status])
        BY <3>2, <4>1
      <4>. QED
        BY <1>3, <3>1, <3>7, <4>1, <4>2
    <3>4. CASE Handled(p)
      BY <1>3, <3>1, <3>2, <3>4 DEF Handled
    <3>5. CASE Complete(p) \/ Cancel(p)
      BY <1>3, <3>5 DEF Complete, Cancel
    <3>6. CASE ApproveFails(p) \/ (Approve(p) /\ \E t \in Called(old) : old.tools[t].stamp # 0)
      BY <1>3, <3>1, <3>2, <3>6 DEF ApproveFails, Approve
    <3>. QED
      BY <1>5, <3>3, <3>4, <3>5, <3>6, <3>7
  <2>. DEFINE r == [old EXCEPT !.pc = pc, !.status = status]
  <2>2. r \in ProcType /\ r.tools = old.tools /\ r.pc = pc
    BY <1>1 DEF ProcType
  <2>3. StepProc(p, r)
    BY <2>1
  <2>. HIDE DEF r
  <2>4. Goes(p)
    BY <1>2, <2>1, <2>2, <2>3 DEF Goes
  <2>. QED
    BY <1>1, <1>2, <2>1, <2>2, <2>3, <2>4, LocalType DEF Moves
(* An attempt that fails. *)
<1>6. ASSUME StepProc(p, Fail(old)), UNCHANGED <<stored, approvals, rounds, requests, ran>>,
             old.pc \in {"lookup", "handle", "model"}
      PROVE  TypeInv' /\ Others(p) /\ Moves(p)
  <2>. DEFINE r == Fail(old)
  <2>1. /\ r \in ProcType /\ r.tools = old.tools
        /\ (r.pc = "handle" /\ r.attempt > 0) \/ r.pc = "store"
    BY <1>1, FailType
  <2>2. StepProc(p, r)
    BY <1>6
  <2>. HIDE DEF r
  <2>3. Goes(p)
    BY <1>2, <1>6, <2>1, <2>2 DEF Goes
  <2>. QED
    BY <1>1, <1>2, <1>6, <2>1, <2>2, <2>3, LocalType DEF Moves
<1>7. CASE ModelFails(p)
  BY <1>6, <1>7 DEF ModelFails
<1>13. CASE ReadFails(p) /\ old.pc = "lookup"
  <2>1. StepProc(p, Fail(old)) /\ UNCHANGED <<stored, approvals, rounds, requests, ran>>
    BY <1>13 DEF ReadFails
  <2>. QED
    BY <1>6, <1>13, <2>1
<1>15. CASE ReadFails(p) /\ old.pc = "load"
  <2>. DEFINE empty == [old EXCEPT !.tools = NotCalled]
              r == Fail(empty)
  <2>1. empty \in ProcType /\ empty.tools = NotCalled
    BY <1>1, NotCalledType DEF ProcType
  <2>2. StepProc(p, r) /\ UNCHANGED <<stored, approvals, rounds, requests, ran>>
    BY <1>15 DEF ReadFails
  <2>. HIDE DEF empty
  <2>3. /\ r \in ProcType /\ r.tools = NotCalled
        /\ (r.pc = "handle" /\ r.attempt > 0) \/ r.pc = "store"
    BY <2>1, FailType
  <2>. HIDE DEF r
  <2>4. Forgets(p)
    BY <1>2, <1>15, <2>2, <2>3 DEF Forgets
  <2>5. StampsIn(r.tools, Len(approvals))
    BY <1>1, <2>3, NotCalledType
  <2>. QED
    BY <1>1, <1>2, <2>2, <2>3, <2>4, <2>5, LocalType DEF Moves
<1>8. CASE Load(p)
  <2>. DEFINE r == [old EXCEPT !.pc = "lookup", !.tools = stored.tools]
  <2>1. StepProc(p, r) /\ old.pc = "load" /\ UNCHANGED <<stored, approvals, rounds, requests, ran>>
    BY <1>8 DEF Load
  <2>2. r \in ProcType /\ r.tools = stored.tools /\ r.pc = "lookup"
    BY <1>1, <1>3 DEF ProcType
  <2>. HIDE DEF r
  <2>3. Loads(p)
    BY <1>2, <2>1, <2>2 DEF Loads
  <2>. QED
    BY <1>1, <1>2, <2>1, <2>2, <2>3, LocalType DEF Moves
<1>9. CASE Lookup(p)
  <2>0. old.pc = "lookup" /\ UNCHANGED <<stored, approvals, rounds, requests, ran>>
    BY <1>9 DEF Lookup
  <2>1. CASE Called(old) # {} /\ \E a \in Existing : Newest(a) /\ Resolved(a)
    <3>. DEFINE a == CHOOSE a \in Existing : Newest(a)
                tools == Applied(old.tools, approvals[a])
                r == [old EXCEPT !.pc = "handle", !.status = "running", !.tools = tools]
    <3>1. a \in Existing /\ Newest(a)
      BY <2>1
    <3>2. a \in DOMAIN approvals /\ Resolved(a)
      <4>1. PICK b \in Existing : Newest(b) /\ Resolved(b)
        BY <2>1
      <4>2. a \in 1..Len(approvals) /\ b \in 1..Len(approvals) /\ Len(approvals) \in Nat
        BY <1>1, <3>1 DEF Existing
      <4>3. a <= b /\ b <= a
        BY <3>1, <4>1 DEF Newest
      <4>4. a = b
        BY <4>2, <4>3
      <4>. QED
        BY <3>1, <4>1, <4>4 DEF Existing
    <3>3. StepProc(p, r)
      BY <1>9, <2>1 DEF Lookup
    <3>. HIDE DEF a
    <3>4. approvals[a] \in ApprovalType
      BY <1>1, <3>2
    <3>5. tools \in ToolsType /\ StampsIn(tools, Len(approvals))
      BY <1>1, <3>4, AppliedType
    <3>6. r \in ProcType /\ r.tools = tools /\ r.pc = "handle"
      <4>. HIDE DEF tools
      <4>. QED
        BY <1>1, <1>3, <3>5 DEF ProcType
    <3>. HIDE DEF r
    <3>7. LooksUp(p)
      BY <1>2, <2>0, <3>2, <3>3, <3>6 DEF LooksUp
    <3>. QED
      BY <1>1, <1>2, <2>0, <3>3, <3>5, <3>6, <3>7, LocalType DEF Moves
  <2>2. CASE ~(Called(old) # {} /\ \E a \in Existing : Newest(a) /\ Resolved(a))
    <3>1. StepProc(p, Fail(old))
      BY <1>9, <2>2 DEF Lookup
    <3>. QED
      BY <1>6, <2>0, <3>1
  <2>. QED
    BY <2>1, <2>2
<1>10. CASE Handle(p)
  <2>1. PICK t \in Waiting(old) : HandleConfirmed(p, t) \/ HandleInput(p, t) \/ HandleExternal(p, t)
    BY <1>10 DEF Handle
  <2>2. /\ t \in Tools /\ old.tools[t].st = "waiting" /\ old.tools[t] \in ToolType
        /\ old.pc = "handle" /\ UNCHANGED <<stored, approvals, rounds, requests>>
    BY <1>1, <1>10, <2>1 DEF Handle, Waiting
  (* Whatever becomes of the call. *)
  <2>3. ASSUME NEW confirmed \in {"unset", "yes", "no"}, NEW result \in BOOLEAN,
               proc' = [proc EXCEPT ![p] = [old EXCEPT !.tools[t] = Settled(old.tools[t], confirmed, result)]],
               ran' \in [Tools -> Nat]
        PROVE  /\ TypeInv' /\ Others(p) /\ Settles(p, t)
               /\ proc'[p].pc = "handle" /\ Tool(p, t)'.confirmed = confirmed
    <3>. DEFINE tool == Settled(old.tools[t], confirmed, result)
                tools == [old.tools EXCEPT ![t] = tool]
                r == [old EXCEPT !.tools = tools]
    <3>1. tool \in ToolType /\ tool.st = "settled" /\ tool.confirmed = confirmed
          /\ tool.stamp = old.tools[t].stamp
      BY <2>2, SettledType, SMTT(60)
    <3>2. StepProc(p, r)
      BY <1>1, <2>3 DEF StepProc, ProcType
    <3>. HIDE DEF tool
    <3>3. tools \in ToolsType /\ tools[t] = tool /\ \A u \in Tools \ {t} : tools[u] = old.tools[u]
      BY <1>1, <2>2, <3>1 DEF ToolsType
    <3>4. StampsIn(tools, Len(approvals))
      <4>1. ASSUME NEW u \in Tools
            PROVE  tools[u].stamp = old.tools[u].stamp
        BY <3>1, <3>3
      <4>. QED
        BY <1>1, <4>1 DEF StampsIn
    <3>. HIDE DEF tools
    <3>5. r \in ProcType /\ r.tools = tools /\ r.pc = "handle"
      BY <1>1, <2>2, <3>3 DEF ProcType
    <3>. HIDE DEF r
    <3>6. TypeInv'
      BY <1>1, <2>2, <2>3, <3>2, <3>4, <3>5, LocalType
    <3>7. proc'[p] = r /\ Others(p)
      BY <1>2, <3>2, <3>5
    <3>. QED
      BY <2>2, <3>1, <3>3, <3>5, <3>6, <3>7 DEF Settles, Tool
  <2>4. ASSUME Settles(p, t), proc'[p].pc = "handle", Runs(p, t) \/ Rejects(p, t) \/ Accepts(p, t)
        PROVE  Moves(p)
    BY <2>2, <2>4 DEF Handles, Moves
  <2>5. old.tools[t].confirmed \in {"unset", "yes", "no"}
    BY <2>2 DEF ToolType
  <2>6. ASSUME Execute(p, t), kind[t] = "input" \/ old.tools[t].confirmed = "yes"
        PROVE  TypeInv' /\ Others(p) /\ Moves(p)
    <3>1. /\ proc' = [proc EXCEPT ![p] = [old EXCEPT !.tools[t] = Settled(old.tools[t], old.tools[t].confirmed, TRUE)]]
          /\ ran' = [ran EXCEPT ![t] = ran[t] + 1]
      BY <1>1, <2>2, <2>6 DEF Execute, StepProc, ProcType, ToolsType
    <3>2. ran' \in [Tools -> Nat]
      BY <1>1, <2>2, <3>1
    <3>3. /\ TypeInv' /\ Others(p) /\ Settles(p, t) /\ proc'[p].pc = "handle"
          /\ Tool(p, t)'.confirmed = old.tools[t].confirmed
      BY <2>3, <2>5, <3>1, <3>2
    <3>4. Runs(p, t)
      BY <2>6, <3>1, <3>3 DEF Runs, Tool
    <3>. QED
      BY <2>4, <3>3, <3>4
  <2>7. ASSUME Reject(p, t), kind[t] = "confirm", old.tools[t].confirmed # "yes"
        PROVE  TypeInv' /\ Others(p) /\ Moves(p)
    <3>1. /\ proc' = [proc EXCEPT ![p] = [old EXCEPT !.tools[t] = Settled(old.tools[t], "no", FALSE)]]
          /\ ran' = ran
      BY <1>1, <2>2, <2>7 DEF Reject, StepProc, ProcType, ToolsType
    <3>2. /\ TypeInv' /\ Others(p) /\ Settles(p, t) /\ proc'[p].pc = "handle"
          /\ Tool(p, t)'.confirmed = "no"
      BY <1>1, <2>3, <3>1
    <3>3. Rejects(p, t)
      BY <2>7, <3>1, <3>2 DEF Rejects, Tool
    <3>. QED
      BY <2>4, <3>2, <3>3
  <2>8. CASE HandleConfirmed(p, t)
    BY <2>6, <2>7, <2>8 DEF HandleConfirmed
  <2>9. CASE HandleInput(p, t)
    BY <2>6, <2>9 DEF HandleInput
  <2>10. CASE HandleExternal(p, t)
    <3>1. ran' = ran /\ kind[t] = "external"
      BY <2>10 DEF HandleExternal
    <3>2. CASE old.tools[t].result
      <4>1. proc' = [proc EXCEPT ![p] = [old EXCEPT !.tools[t] = Settled(old.tools[t], old.tools[t].confirmed, TRUE)]]
        BY <1>1, <2>2, <2>10, <3>2 DEF HandleExternal, StepProc, ProcType, ToolsType
      <4>2. /\ TypeInv' /\ Others(p) /\ Settles(p, t) /\ proc'[p].pc = "handle"
            /\ Tool(p, t)'.confirmed = old.tools[t].confirmed
        BY <1>1, <2>3, <2>5, <3>1, <4>1
      <4>3. Accepts(p, t)
        BY <3>1, <4>2 DEF Accepts, Tool
      <4>. QED
        BY <2>4, <4>2, <4>3
    <3>3. CASE ~old.tools[t].result
      <4>1. StepProc(p, Fail(old))
        BY <2>10, <3>3 DEF HandleExternal
      <4>. QED
        BY <1>6, <2>2, <3>1, <4>1
    <3>. QED
      BY <3>2, <3>3
  <2>. QED
    BY <2>1, <2>8, <2>9, <2>10
<1>11. ASSUME NEW calls \in SUBSET Tools, CallTools(p, calls)
       PROVE  TypeInv' /\ Others(p) /\ Moves(p)
  <2>. DEFINE tools == [t \in Tools |-> IF t \in calls THEN [old.tools[t] EXCEPT !.st = "waiting"] ELSE old.tools[t]]
              r == [old EXCEPT !.pc = "approve", !.status = "paused", !.tools = tools]
  <2>1. /\ old.pc = "model" /\ rounds < MaxRounds /\ rounds' = rounds + 1
        /\ \A t \in calls : old.tools[t].st = "absent" /\ t \notin seen.called
        /\ UNCHANGED <<stored, approvals, requests, ran>>
    BY <1>11 DEF CallTools
  <2>2. StepProc(p, r)
    BY <1>1, <1>11 DEF CallTools, StepProc, ProcType
  <2>3. ASSUME NEW t \in Tools
        PROVE  /\ tools[t] \in ToolType /\ tools[t].stamp = old.tools[t].stamp
               /\ \/ tools[t] = old.tools[t]
                  \/ /\ t \notin seen.called
                     /\ old.tools[t].st = "absent" /\ tools[t].st = "waiting"
                     /\ tools[t].confirmed = old.tools[t].confirmed
    <3>1. old.tools[t] \in ToolType
      BY <1>1
    <3>2. CASE t \in calls
      BY <2>1, <3>1, <3>2 DEF ToolType
    <3>3. CASE t \notin calls
      BY <3>1, <3>3
    <3>. QED
      BY <3>2, <3>3
  <2>4. tools \in ToolsType
    BY <2>3 DEF ToolsType
  <2>. HIDE DEF tools
  <2>5. StampsIn(tools, Len(approvals))
    BY <1>1, <2>3 DEF StampsIn
  <2>6. r \in ProcType /\ r.tools = tools /\ r.pc = "approve" /\ r.status = "paused"
    BY <1>1, <1>3, <2>4 DEF ProcType
  <2>7. rounds' \in 0..MaxRounds
    BY <1>1, <2>1, ApprovalsAssumption
  <2>. HIDE DEF r
  <2>8. TypeInv'
    BY <1>1, <2>1, <2>2, <2>5, <2>6, <2>7, LocalType
  <2>9. proc'[p] = r /\ Others(p)
    BY <1>2, <2>2, <2>6
  <2>10. Calls(p)
    BY <2>1, <2>3, <2>6, <2>9 DEF Calls, Tool
  <2>. QED
    BY <2>8, <2>9, <2>10 DEF Moves
<1>12. CASE Approve(p) /\ ~ \E t \in Called(old) : old.tools[t].stamp # 0
  <2>. DEFINE id == Len(approvals) + 1
              row == [st |-> "pending", data |-> FALSE, gone |-> FALSE,
                      tools |-> Waiting(old), runStatus |-> "paused"]
              tools == [t \in Tools |-> IF t \in Called(old) THEN [old.tools[t] EXCEPT !.stamp = id] ELSE old.tools[t]]
              r == [old EXCEPT !.pc = "store", !.tools = tools]
  <2>1. /\ old.pc = "approve" /\ StepProc(p, r) /\ approvals' = Append(approvals, row)
        /\ UNCHANGED <<stored, rounds, requests, ran>>
    BY <1>12 DEF Approve, Stamped
  <2>2. id \in Nat /\ Len(approvals) \in Nat /\ Len(approvals) <= id
    BY <1>1
  <2>3. row \in ApprovalType
    BY <1>3 DEF ApprovalType, Waiting
  <2>. HIDE DEF row
  <2>4. approvals' \in Seq(ApprovalType) /\ Len(approvals') = id
    BY <1>1, <2>1, <2>3
  <2>. HIDE DEF id
  <2>5. ASSUME NEW t \in Tools
        PROVE  /\ tools[t] \in ToolType /\ tools[t].stamp <= id
               /\ tools[t].st = old.tools[t].st /\ tools[t].confirmed = old.tools[t].confirmed
    <3>1. old.tools[t] \in ToolType /\ old.tools[t].stamp <= Len(approvals) /\ old.tools[t].stamp \in Nat
      BY <1>1 DEF StampsIn, ToolType
    <3>2. old.tools[t].stamp <= id
      BY <2>2, <3>1
    <3>3. CASE t \in Called(old)
      BY <2>2, <3>1, <3>3 DEF ToolType
    <3>4. CASE t \notin Called(old)
      BY <3>1, <3>2, <3>4
    <3>. QED
      BY <3>3, <3>4
  <2>6. tools \in ToolsType
    BY <2>5 DEF ToolsType
  <2>. HIDE DEF tools
  <2>7. StampsIn(tools, id)
    BY <2>5 DEF StampsIn
  <2>8. r \in ProcType /\ r.tools = tools /\ r.pc = "store" /\ r.status = old.status
    BY <1>1, <1>3, <2>6 DEF ProcType
  <2>. HIDE DEF r
  <2>9. StampsIn(stored.tools, id)
    <3>1. \A t \in Tools : stored.tools[t].stamp \in Nat /\ stored.tools[t].stamp <= Len(approvals)
      BY <1>1 DEF ToolsType, ToolType, StampsIn
    <3>. QED
      BY <2>2, <3>1 DEF StampsIn
  <2>10. TypeInv'
    BY <1>1, <2>1, <2>2, <2>4, <2>7, <2>8, <2>9, KeptType
  <2>11. proc'[p] = r /\ Others(p)
    BY <1>2, <2>1, <2>8
  <2>12. Creates(p)
    BY <2>1, <2>5, <2>8, <2>11 DEF Creates, Tool, row
  <2>. QED
    BY <2>10, <2>11, <2>12 DEF Moves
<1>14. CASE Mirror(p)
  <2>. DEFINE r == Idle
              status == old.status
  <2>1. /\ old.pc = "mirror" /\ StepProc(p, r)
        /\ approvals' = [a \in DOMAIN approvals |->
              IF a \in Existing THEN [approvals[a] EXCEPT !.runStatus = status] ELSE approvals[a]]
        /\ UNCHANGED <<stored, rounds, requests, ran>>
    BY <1>14 DEF Mirror
  <2>2. r \in ProcType /\ r.tools = NotCalled /\ r.pc = "idle"
    BY IdleType
  <2>. HIDE DEF r
  <2>3. status \in RunStatuses
    BY <1>1 DEF ProcType
  <2>. HIDE DEF status
  <2>4. ASSUME NEW a \in DOMAIN approvals
        PROVE  /\ approvals'[a] \in ApprovalType
               /\ approvals'[a].st = approvals[a].st /\ approvals'[a].tools = approvals[a].tools
               /\ approvals'[a].gone = approvals[a].gone
               /\ ~approvals[a].gone => approvals'[a].runStatus = status
    <3>1. approvals[a] \in ApprovalType
      BY <1>1
    <3>2. approvals'[a] = IF a \in Existing THEN [approvals[a] EXCEPT !.runStatus = status] ELSE approvals[a]
      BY <2>1
    <3>3. CASE a \in Existing
      BY <2>3, <3>1, <3>2, <3>3 DEF ApprovalType
    <3>4. CASE a \notin Existing
      BY <3>1, <3>2, <3>4 DEF Existing
    <3>. QED
      BY <3>3, <3>4
  <2>5. /\ DOMAIN approvals' = DOMAIN approvals /\ approvals' \in Seq(ApprovalType)
        /\ Len(approvals') = Len(approvals) /\ Len(approvals) \in Nat
    <3>1. DOMAIN approvals = 1..Len(approvals) /\ Len(approvals) \in Nat
      BY <1>1
    <3>2. DOMAIN approvals' = DOMAIN approvals
      BY <2>1
    <3>3. approvals' \in [1..Len(approvals) -> ApprovalType]
      BY <2>1, <2>4, <3>1
    <3>. QED
      BY <3>1, <3>2, <3>3
  <2>6. TypeInv'
    <3>1. /\ stored' \in [status : RunStatuses, tools : ToolsType] /\ StampsIn(stored'.tools, Len(approvals'))
          /\ StampsIn(r.tools, Len(approvals')) /\ Len(approvals) <= Len(approvals')
      BY <1>1, <2>1, <2>2, <2>5, NotCalledType
    <3>. QED
      BY <1>1, <2>1, <2>2, <2>5, <3>1, KeptType
  <2>7. Mirrors(p)
    BY <1>2, <2>1, <2>2, <2>4, <2>5 DEF Mirrors, status
  <2>. QED
    BY <1>2, <2>1, <2>2, <2>6, <2>7 DEF Moves
<1>. QED
  <2>1. ReadFails(p) => old.pc \in {"check", "load", "lookup"}
    BY DEF ReadFails
  <2>. QED
    BY <2>1, <1>4, <1>5, <1>7, <1>8, <1>9, <1>10, <1>11, <1>12, <1>13, <1>14, <1>15 DEF ProcStep

LEMMA StoreMoves ==
    ASSUME TypeInv, NEW p \in Procs, Store(p), kind' = kind, seen' \in SeenType
    PROVE  TypeInv' /\ Others(p) /\ Stores(p)
<1>. DEFINE old == proc[p]
            r == [old EXCEPT !.pc = "mirror"]
<1>1. /\ old \in ProcType /\ old.tools \in ToolsType /\ StampsIn(old.tools, Len(approvals))
      /\ approvals \in Seq(ApprovalType)
      /\ ran \in [Tools -> Nat] /\ rounds \in 0..MaxRounds /\ requests \in 0..MaxRequests
  BY DEF TypeInv, ProcType
<1>2. /\ old.pc = "store" /\ StepProc(p, r) /\ stored' = [status |-> old.status, tools |-> old.tools]
      /\ UNCHANGED <<approvals, rounds, requests, ran>>
  BY DEF Store
<1>3. r \in ProcType /\ r.tools = old.tools /\ r.pc = "mirror" /\ r.status = old.status
  BY <1>1 DEF ProcType, Steps
<1>. HIDE DEF r
<1>4. proc'[p] = r /\ Others(p)
  BY <1>2, <1>3, StepProcType DEF Others
<1>5. /\ stored' \in [status : RunStatuses, tools : ToolsType]
      /\ stored'.tools = old.tools /\ stored'.status = old.status
  BY <1>1, <1>2 DEF ProcType
<1>6. TypeInv'
  BY <1>1, <1>2, <1>3, <1>5, KeptType
<1>7. Stores(p)
  BY <1>2, <1>3, <1>4, <1>5 DEF Stores
<1>. QED
  BY <1>4, <1>6, <1>7

LEMMA FailMoves ==
    ASSUME TypeInv, NEW p \in Procs, kind' = kind, seen' \in SeenType,
           StoreFails(p) \/ MirrorFails(p) \/ Crash(p)
    PROVE  /\ TypeInv' /\ Others(p)
           /\ StoreFails(p) => SkipsStore(p)
           /\ MirrorFails(p) => SkipsMirror(p)
           /\ Crash(p) => Dies(p)
<1>. DEFINE old == proc[p]
<1>1. /\ old \in ProcType /\ StampsIn(old.tools, Len(approvals)) /\ Len(approvals) \in Nat
      /\ ran \in [Tools -> Nat] /\ rounds \in 0..MaxRounds /\ requests \in 0..MaxRequests
  BY DEF TypeInv
<1>2. UNCHANGED <<stored, approvals, rounds, requests, ran>>
  BY DEF StoreFails, MirrorFails, Crash
<1>3. ASSUME NEW r \in ProcType, StepProc(p, r), r.tools = old.tools \/ r.tools = NotCalled
      PROVE  TypeInv' /\ Others(p) /\ proc'[p] = r
  <2>1. StampsIn(r.tools, Len(approvals))
    BY <1>1, <1>3, NotCalledType
  <2>2. TypeInv'
    BY <1>1, <1>2, <1>3, <2>1, LocalType
  <2>. QED
    BY <1>3, <2>2, StepProcType DEF Others
<1>4. CASE StoreFails(p)
  <2>. DEFINE r == [old EXCEPT !.pc = "mirror"]
  <2>1. r \in ProcType /\ r.tools = old.tools /\ r.pc = "mirror"
    BY <1>1 DEF ProcType, Steps
  <2>2. StepProc(p, r) /\ old.pc = "store"
    BY <1>4 DEF StoreFails
  <2>. HIDE DEF r
  <2>3. TypeInv' /\ Others(p) /\ proc'[p] = r
    BY <1>3, <2>1, <2>2
  <2>4. SkipsStore(p)
    BY <1>2, <2>1, <2>2, <2>3 DEF SkipsStore
  <2>5. ~MirrorFails(p)
    BY <2>2 DEF MirrorFails
  <2>6. Crash(p) => Dies(p)
    BY <1>2, <1>3, IdleType DEF Crash, Dies
  <2>. QED
    BY <2>3, <2>4, <2>5, <2>6
<1>5. CASE MirrorFails(p) \/ Crash(p)
  <2>1. StepProc(p, Idle)
    BY <1>5 DEF MirrorFails, Crash
  <2>2. TypeInv' /\ Others(p) /\ proc'[p] = Idle
    BY <1>3, <2>1, IdleType
  <2>3. Dies(p)
    BY <1>2, <2>2, IdleType DEF Dies
  <2>4. MirrorFails(p) => SkipsMirror(p)
    BY <1>2, <2>2, IdleType DEF MirrorFails, SkipsMirror
  <2>5. ~StoreFails(p)
    <3>1. StoreFails(p) => proc'[p].pc = "mirror"
      <4>1. StoreFails(p) => proc' = [proc EXCEPT ![p] = [old EXCEPT !.pc = "mirror"]]
        BY DEF StoreFails, StepProc
      <4>. QED
        BY <1>1, <4>1 DEF TypeInv, ProcType
    <3>. QED
      BY <2>2, <3>1, IdleType
  <2>. QED
    BY <2>2, <2>3, <2>4, <2>5
<1>. QED
  BY <1>4, <1>5

(* What reviewers do to the records. *)
Reviewed ==
    /\ DOMAIN approvals' = DOMAIN approvals
    /\ \A a \in DOMAIN approvals :
          /\ approvals'[a].tools = approvals[a].tools /\ approvals'[a].runStatus = approvals[a].runStatus
          /\ approvals[a].gone => approvals'[a].gone
          /\ approvals[a].st # "pending" => approvals'[a].st = approvals[a].st
    /\ UNCHANGED <<stored, proc, rounds, ran>>

LEMMA ReviewMoves ==
    ASSUME TypeInv, Review, kind' = kind, seen' \in SeenType
    PROVE  TypeInv' /\ Reviewed
<1>1. approvals \in Seq(ApprovalType)
  BY DEF TypeInv
<1>2. PICK a \in DOMAIN approvals :
            DeleteApproval(a) \/ \E verdict \in {"approved", "rejected"}, data \in BOOLEAN : Resolve(a, verdict, data)
  BY DEF Review
<1>3. PICK row \in ApprovalType :
            /\ approvals' = [approvals EXCEPT ![a] = row]
            /\ row.tools = approvals[a].tools /\ row.runStatus = approvals[a].runStatus
            /\ approvals[a].gone => row.gone
            /\ approvals[a].st # "pending" => row.st = approvals[a].st
            /\ UNCHANGED <<stored, proc, rounds, requests, ran>>
  <2>1. approvals[a] \in ApprovalType
    BY <1>1, <1>2
  <2>2. CASE DeleteApproval(a)
    <3>. DEFINE row == [approvals[a] EXCEPT !.gone = TRUE]
    <3>1. approvals' = [approvals EXCEPT ![a] = row] /\ UNCHANGED <<stored, proc, rounds, requests, ran>>
      BY <2>2 DEF DeleteApproval
    <3>2. /\ row \in ApprovalType /\ row.tools = approvals[a].tools /\ row.runStatus = approvals[a].runStatus
          /\ row.gone = TRUE /\ row.st = approvals[a].st
      BY <2>1 DEF ApprovalType
    <3>. HIDE DEF row
    <3>. QED
      BY <3>1, <3>2
  <2>3. ASSUME NEW verdict \in {"approved", "rejected"}, NEW data \in BOOLEAN, Resolve(a, verdict, data)
        PROVE  \E row \in ApprovalType :
                  /\ approvals' = [approvals EXCEPT ![a] = row]
                  /\ row.tools = approvals[a].tools /\ row.runStatus = approvals[a].runStatus
                  /\ approvals[a].gone => row.gone
                  /\ approvals[a].st # "pending" => row.st = approvals[a].st
                  /\ UNCHANGED <<stored, proc, rounds, requests, ran>>
    <3>. DEFINE row == [approvals[a] EXCEPT !.st = verdict, !.data = data]
    <3>1. /\ approvals' = [approvals EXCEPT ![a] = row] /\ UNCHANGED <<stored, proc, rounds, requests, ran>>
          /\ approvals[a].st = "pending"
      BY <1>1, <1>2, <2>3 DEF Resolve, Pending
    <3>2. /\ row \in ApprovalType /\ row.tools = approvals[a].tools /\ row.runStatus = approvals[a].runStatus
          /\ row.gone = approvals[a].gone
      BY <2>1 DEF ApprovalType
    <3>. HIDE DEF row
    <3>. QED
      BY <3>1, <3>2
  <2>. QED
    BY <1>2, <2>2, <2>3
<1>4. /\ approvals' \in Seq(ApprovalType) /\ Len(approvals') = Len(approvals)
      /\ DOMAIN approvals' = DOMAIN approvals
      /\ \A b \in DOMAIN approvals : approvals'[b] = IF b = a THEN row ELSE approvals[b]
  BY <1>1, <1>2, <1>3
<1>5. TypeInv'
  <2>1. /\ StampsIn(stored'.tools, Len(approvals')) /\ \A p \in Procs : StampsIn(proc'[p].tools, Len(approvals'))
    BY <1>3, <1>4 DEF TypeInv
  <2>. QED
    BY <1>3, <1>4, <2>1 DEF TypeInv
<1>6. ASSUME NEW b \in DOMAIN approvals
      PROVE  /\ approvals'[b].tools = approvals[b].tools /\ approvals'[b].runStatus = approvals[b].runStatus
             /\ approvals[b].gone => approvals'[b].gone
             /\ approvals[b].st # "pending" => approvals'[b].st = approvals[b].st
  <2>1. CASE b = a
    BY <1>3, <1>4, <2>1
  <2>2. CASE b # a
    BY <1>4, <2>2
  <2>. QED
    BY <2>1, <2>2
<1>. QED
  BY <1>3, <1>4, <1>5, <1>6 DEF Reviewed

(* The history. *)
Grows ==
    /\ seen.retried => seen'.retried
    /\ seen.overlap => seen'.overlap
    /\ seen.called \subseteq seen'.called
    /\ seen.lost \subseteq seen'.lost

Notes ==
    /\ \A p \in Procs : proc'[p].attempt > 0 => seen'.retried
    /\ \A p, q \in Procs : p # q /\ Working(p)' /\ Working(q)' => seen'.overlap
    /\ \A p \in Procs, t \in Tools : proc'[p].tools[t].st # "absent" => t \in seen'.called

LEMMA NotedMoves ==
    ASSUME TypeInv, NEW lost \in SUBSET Tools, NEW torn \in BOOLEAN, seen' = Noted(lost, torn)
    PROVE  /\ seen' \in SeenType /\ Grows /\ Notes
           /\ seen'.lost = seen.lost \cup lost /\ seen'.torn = torn
<1>. DEFINE retried == seen.retried \/ \E p \in Procs : proc'[p].attempt > 0
            overlap == seen.overlap \/ \E p, q \in Procs : p # q /\ Working(p)' /\ Working(q)'
            called == seen.called \cup UNION {Called(proc'[p]) : p \in Procs}
            gone == seen.lost \cup lost
<1>1. seen' = [retried |-> retried, overlap |-> overlap, called |-> called, lost |-> gone, torn |-> torn]
  BY DEF Noted
<1>2. retried \in BOOLEAN /\ overlap \in BOOLEAN /\ called \in SUBSET Tools /\ gone \in SUBSET Tools
  BY DEF Working, Called, TypeInv, SeenType
<1>3. /\ seen.retried => retried
      /\ seen.overlap => overlap
      /\ seen.called \subseteq called /\ seen.lost \subseteq gone
      /\ \A p \in Procs : proc'[p].attempt > 0 => retried
      /\ \A p, q \in Procs : p # q /\ Working(p)' /\ Working(q)' => overlap
      /\ \A p \in Procs, t \in Tools : proc'[p].tools[t].st # "absent" => t \in called
  BY DEF Called
<1>. HIDE DEF retried, overlap, called
<1>4. /\ seen' \in SeenType /\ seen'.retried = retried /\ seen'.overlap = overlap
      /\ seen'.called = called /\ seen'.lost = gone /\ seen'.torn = torn
  BY <1>1, <1>2 DEF SeenType
<1>. HIDE DEF gone
<1>5. Grows
  BY <1>3, <1>4 DEF Grows
<1>6. Notes
  BY <1>3, <1>4 DEF Notes
<1>. QED
  BY <1>4, <1>5, <1>6 DEF gone

(* A step of the whole, with what it adds to the history. *)
Move(p) ==
    /\ Others(p) /\ Notes
    /\ \/ Moves(p) /\ seen'.lost = seen.lost /\ seen'.torn = seen.torn
       \/ Stores(p) /\ seen'.lost = seen.lost /\ seen'.torn = FALSE
       \/ SkipsStore(p) /\ seen'.lost = seen.lost \cup Unsaved(p) /\ seen'.torn
       \/ SkipsMirror(p) /\ seen'.lost = seen.lost /\ seen'.torn
       \/ Dies(p) /\ seen'.lost = seen.lost \cup Unsaved(p) /\ seen'.torn = (seen.torn \/ Between(p))

Still == UNCHANGED <<stored, approvals, proc, rounds, ran, seen>>

Views == Reviewed /\ Notes /\ seen'.lost = seen.lost /\ seen'.torn = seen.torn

LEMMA NextMoves ==
    ASSUME TypeInv, [Next]_vars
    PROVE  /\ TypeInv' /\ kind' = kind /\ Grows
           /\ Still \/ Views \/ \E p \in Procs : Move(p)
<1>0. /\ seen.torn \in BOOLEAN /\ {} \in SUBSET Tools /\ seen.lost \cup {} = seen.lost
      /\ \A p \in Procs : Unsaved(p) \in SUBSET Tools /\ (seen.torn \/ Between(p)) \in BOOLEAN
  BY DEF TypeInv, SeenType, Unsaved
<1>1. CASE UNCHANGED vars
  BY <1>1 DEF vars, TypeInv, Grows, Still
<1>2. CASE Next
  <2>1. kind' = kind
    BY <1>2 DEF Next
  <2>2. CASE Review /\ seen' = Noted({}, seen.torn)
    <3>1. seen' \in SeenType /\ Grows /\ Notes /\ seen'.lost = seen.lost /\ seen'.torn = seen.torn
      BY <1>0, <2>2, NotedMoves
    <3>. QED
      BY <2>1, <2>2, <3>1, ReviewMoves DEF Views
  <2>3. ASSUME NEW p \in Procs, ProcStep(p), seen' = Noted({}, seen.torn)
        PROVE  TypeInv' /\ Grows /\ Move(p)
    <3>1. seen' \in SeenType /\ Grows /\ Notes /\ seen'.lost = seen.lost /\ seen'.torn = seen.torn
      BY <1>0, <2>3, NotedMoves
    <3>2. TypeInv' /\ Others(p) /\ Moves(p)
      BY <2>1, <2>3, <3>1, StepMoves
    <3>. QED
      BY <3>1, <3>2 DEF Move
  <2>4. ASSUME NEW p \in Procs, Store(p), seen' = Noted({}, FALSE)
        PROVE  TypeInv' /\ Grows /\ Move(p)
    <3>1. seen' \in SeenType /\ Grows /\ Notes /\ seen'.lost = seen.lost /\ seen'.torn = FALSE
      BY <1>0, <2>4, NotedMoves
    <3>2. TypeInv' /\ Others(p) /\ Stores(p)
      BY <2>1, <2>4, <3>1, StoreMoves
    <3>. QED
      BY <3>1, <3>2 DEF Move
  <2>5. ASSUME NEW p \in Procs, StoreFails(p), seen' = Noted(Unsaved(p), TRUE)
        PROVE  TypeInv' /\ Grows /\ Move(p)
    <3>1. seen' \in SeenType /\ Grows /\ Notes /\ seen'.lost = seen.lost \cup Unsaved(p) /\ seen'.torn = TRUE
      BY <1>0, <2>5, NotedMoves
    <3>2. TypeInv' /\ Others(p) /\ SkipsStore(p)
      BY <2>1, <2>5, <3>1, FailMoves
    <3>. QED
      BY <3>1, <3>2 DEF Move
  <2>6. ASSUME NEW p \in Procs, MirrorFails(p), seen' = Noted({}, TRUE)
        PROVE  TypeInv' /\ Grows /\ Move(p)
    <3>1. seen' \in SeenType /\ Grows /\ Notes /\ seen'.lost = seen.lost /\ seen'.torn = TRUE
      BY <1>0, <2>6, NotedMoves
    <3>2. TypeInv' /\ Others(p) /\ SkipsMirror(p)
      BY <2>1, <2>6, <3>1, FailMoves
    <3>. QED
      BY <3>1, <3>2 DEF Move
  <2>7. ASSUME NEW p \in Procs, Crash(p), seen' = Noted(Unsaved(p), seen.torn \/ Between(p))
        PROVE  TypeInv' /\ Grows /\ Move(p)
    <3>1. /\ seen' \in SeenType /\ Grows /\ Notes /\ seen'.lost = seen.lost \cup Unsaved(p)
          /\ seen'.torn = (seen.torn \/ Between(p))
      BY <1>0, <2>7, NotedMoves
    <3>2. TypeInv' /\ Others(p) /\ Dies(p)
      BY <2>1, <2>7, <3>1, FailMoves
    <3>. QED
      BY <3>1, <3>2 DEF Move
  <2>. QED
    BY <1>2, <2>1, <2>2, <2>3, <2>4, <2>5, <2>6, <2>7 DEF Next
<1>. QED
  BY <1>1, <1>2

LEMMA TypeInvariant == Spec => []TypeInv
<1>1. Init => TypeInv
  BY InitTypeInv
<1>2. TypeInv /\ [Next]_vars => TypeInv'
  BY NextMoves
<1>. QED
  BY <1>1, <1>2, PTL DEF Spec

(* Every copy of the tool calls is well formed, and each stamp names an        *)
(* approval.                                                                 *)
THEOREM TypeCorrect == Spec => []TypeOK
<1>1. TypeInv => TypeOK
  BY TypeInvType
<1>. QED
  BY <1>1, TypeInvariant, PTL

-----------------------------------------------------------------------------
(* What holds of a run whose executions do not overlap. *)

Alone == \A p, q \in Procs : p # q => ~(Working(p) /\ Working(q))

(* Every call there is has been made by the model. *)
CalledInv ==
    /\ \A p \in Procs, t \in Tools : Tool(p, t).st # "absent" => t \in seen.called
    /\ \A t \in Tools : stored.tools[t].st # "absent" => t \in seen.called
    /\ \A t \in Tools : ran[t] > 0 => t \in seen.called

HasCopy(p) == Working(p) /\ proc[p].pc # "load"

(* The run will be taken from the table. *)
AtRest == \A p \in Procs : proc[p].pc \in {"idle", "check", "load", "mirror"}

(* An execution will not execute the call again, nor leave it to be executed.  *)
Held(p, t) ==
    \/ Tool(p, t).st = "settled"
    \/ Tool(p, t).st = "absent" /\ stored.tools[t].st # "waiting"

(* What was executed is not waiting wherever the run will be taken from: in    *)
(* the copy of the execution under way, or, when none has one, in the table.  *)
OnceAt(t) ==
    /\ ran[t] <= 1
    /\ ran[t] > 0 => /\ AtRest => stored.tools[t].st # "waiting"
                     /\ \A p \in Procs : HasCopy(p) => Held(p, t)

OnceInv == ~seen.overlap => Alone /\ \A t \in Tools \ seen.lost : OnceAt(t)

LEMMA AppliedMoves ==
    ASSUME TypeInv, NEW tools \in ToolsType, NEW approval \in ApprovalType, NEW t \in Tools
    PROVE  /\ Applied(tools, approval)[t].st = tools[t].st
           /\ tools[t].st # "waiting" => Applied(tools, approval)[t] = tools[t]
           /\ Applied(tools, approval)[t].confirmed = "yes" =>
                 tools[t].confirmed = "yes" \/ (tools[t].st = "waiting" /\ approval.st = "approved")
           /\ Applied(tools, approval)[t].confirmed = "no" =>
                 tools[t].confirmed = "no" \/ (tools[t].st = "waiting" /\ approval.st = "rejected")
           /\ tools[t].st = "waiting" /\ kind[t] = "confirm" /\ approval.st # "pending" =>
                 Applied(tools, approval)[t].confirmed \in {"yes", "no"}
<1>1. tools[t] \in ToolType /\ approval.st \in {"pending", "approved", "rejected"}
  BY DEF ToolsType, ApprovalType
<1>2. CASE tools[t].st # "waiting"
  <2>1. Applied(tools, approval)[t] = tools[t]
    BY <1>2 DEF Applied
  <2>. QED
    BY <1>2, <2>1
<1>3. CASE tools[t].st = "waiting" /\ approval.st = "rejected"
  <2>1. Applied(tools, approval)[t] = [tools[t] EXCEPT !.confirmed = "no"]
    BY <1>3 DEF Applied
  <2>. QED
    BY <1>1, <1>3, <2>1 DEF ToolType
<1>4. CASE tools[t].st = "waiting" /\ approval.st = "pending"
  <2>1. Applied(tools, approval)[t] = tools[t]
    BY <1>4 DEF Applied
  <2>. QED
    BY <1>4, <2>1
<1>5. CASE tools[t].st = "waiting" /\ approval.st = "approved" /\ kind[t] = "confirm"
  <2>1. Applied(tools, approval)[t] = [tools[t] EXCEPT !.confirmed = "yes"]
    BY <1>5 DEF Applied
  <2>. QED
    BY <1>1, <1>5, <2>1 DEF ToolType
<1>6. CASE tools[t].st = "waiting" /\ approval.st = "approved" /\ kind[t] # "confirm"
  <2>1. Applied(tools, approval)[t] \in {tools[t], [tools[t] EXCEPT !.result = TRUE]}
    BY <1>6 DEF Applied
  <2>. QED
    BY <1>1, <1>6, <2>1 DEF ToolType
<1>. QED
  BY <1>1, <1>2, <1>3, <1>4, <1>5, <1>6

LEMMA CalledStep ==
    ASSUME TypeInv, CalledInv, [Next]_vars
    PROVE  CalledInv'
<1>1. Grows
  BY NextMoves
<1>2. CASE Still
  BY <1>2 DEF Still, CalledInv, Tool
<1>3. CASE Views
  <2>1. stored' = stored /\ ran' = ran /\ Notes
    BY <1>3 DEF Views, Reviewed
  <2>. QED
    BY <1>1, <2>1 DEF CalledInv, Grows, Notes, Tool
<1>4. ASSUME NEW p \in Procs, Move(p)
      PROVE  CalledInv'
  <2>1. Notes
    BY <1>4 DEF Move
  <2>2. ASSUME NEW t \in Tools
        PROVE  /\ stored'.tools[t].st # "absent" => t \in seen'.called
               /\ ran'[t] > 0 => t \in seen'.called
    <3>1. /\ Tool(p, t).st # "absent" => t \in seen'.called
          /\ stored.tools[t].st # "absent" => t \in seen'.called
          /\ ran[t] > 0 => t \in seen'.called
      BY <1>1, <2>2 DEF CalledInv, Grows
    <3>2. CASE Handles(p)
      <4>1. PICK u \in Tools : Settles(p, u) /\ (Runs(p, u) \/ Rejects(p, u) \/ Accepts(p, u))
        BY <3>2 DEF Handles
      <4>2. stored' = stored
        BY <3>2 DEF Handles
      <4>3. CASE t = u
        BY <3>1, <4>1, <4>2, <4>3 DEF Settles
      <4>4. CASE t # u
        <5>1. ran'[t] = ran[t]
          BY <4>1, <4>4 DEF Runs, Rejects, Accepts, TypeInv
        <5>. QED
          BY <3>1, <4>2, <5>1
      <4>. QED
        BY <4>3, <4>4
    <3>3. CASE Stores(p)
      <4>1. ran' = ran /\ stored'.tools = proc[p].tools
        BY <3>3 DEF Stores
      <4>. QED
        BY <3>1, <4>1 DEF Tool
    <3>4. CASE ~Handles(p) /\ ~Stores(p)
      <4>1. ran' = ran /\ stored' = stored
        BY <1>4, <3>4 DEF Move, Moves, Goes, Loads, Forgets, LooksUp, Calls, Creates, Mirrors,
                          SkipsStore, SkipsMirror, Dies
      <4>. QED
        BY <3>1, <4>1
    <3>. QED
      BY <3>2, <3>3, <3>4
  <2>. QED
    BY <2>1, <2>2 DEF CalledInv, Notes, Tool
<1>. QED
  BY <1>2, <1>3, <1>4, NextMoves

LEMMA OnceStep ==
    ASSUME TypeInv, CalledInv, OnceInv, [Next]_vars
    PROVE  OnceInv'
<1>. SUFFICES ASSUME ~seen'.overlap
              PROVE  Alone' /\ \A t \in Tools \ seen'.lost : OnceAt(t)'
  BY DEF OnceInv
<1>1. ~seen.overlap /\ Alone /\ seen.lost \subseteq seen'.lost /\ \A t \in Tools \ seen'.lost : OnceAt(t)
  BY NextMoves DEF Grows, OnceInv
<1>2. CASE Still \/ Views
  <2>1. proc' = proc /\ ran' = ran /\ stored' = stored
    BY <1>2 DEF Still, Views, Reviewed
  <2>. QED
    BY <1>1, <2>1 DEF Alone, Working, OnceAt, AtRest, HasCopy, Held, Tool
<1>3. ASSUME NEW p \in Procs, Move(p)
      PROVE  Alone' /\ \A t \in Tools \ seen'.lost : OnceAt(t)'
  <2>1. Others(p) /\ Notes
    BY <1>3 DEF Move
  <2>2. Alone'
    BY <2>1 DEF Notes, Alone
  <2>3. SUFFICES ASSUME NEW t \in Tools \ seen'.lost
                 PROVE  OnceAt(t)'
    BY <2>2
  <2>4. /\ ran[t] <= 1 /\ ran[t] \in Nat
        /\ ran[t] > 0 => /\ AtRest => stored.tools[t].st # "waiting"
                         /\ \A q \in Procs : HasCopy(q) => Held(q, t)
        /\ Tool(p, t).st \in {"absent", "waiting", "settled"}
        /\ stored.tools[t].st \in {"absent", "waiting", "settled"}
    BY <1>1 DEF OnceAt, TypeInv, ProcType, ToolsType, ToolType, Tool
  (* An execution that has a copy is alone. *)
  <2>5. ASSUME HasCopy(p), ran'[t] <= 1,
               ran'[t] > 0 => /\ HasCopy(p)' => Held(p, t)'
                              /\ proc'[p].pc \in {"idle", "load", "mirror"} => stored'.tools[t].st # "waiting",
               proc'[p].pc # "check"
        PROVE  OnceAt(t)'
    <3>1. ASSUME NEW q \in Procs, HasCopy(q)'
          PROVE  q = p
      <4>1. q # p => Working(q)
        BY <2>1, <3>1 DEF Others, Working, HasCopy
      <4>. QED
        BY <1>1, <2>5, <4>1 DEF Alone, HasCopy
    <3>2. AtRest' => proc'[p].pc \in {"idle", "load", "mirror"}
      BY <2>5 DEF AtRest
    <3>. QED
      BY <2>5, <3>1, <3>2 DEF OnceAt
  <2>6. ASSUME HasCopy(p), ran' = ran, stored' = stored, ran[t] > 0 => Tool(p, t)'.st = Tool(p, t).st,
               proc'[p].pc \notin {"idle", "check", "load", "mirror"}
        PROVE  OnceAt(t)'
    BY <2>4, <2>5, <2>6 DEF Held
  (* One that has none leaves the others be. *)
  <2>7. ASSUME ~HasCopy(p), ran' = ran, stored' = stored,
               proc'[p].pc \in {"idle", "check", "load"}
        PROVE  OnceAt(t)'
    <3>1. ASSUME AtRest'
          PROVE  AtRest
      <4>1. ASSUME NEW q \in Procs
            PROVE  proc[q].pc \in {"idle", "check", "load", "mirror"}
        <5>1. CASE q = p
          BY <2>7, <5>1 DEF HasCopy, Working
        <5>2. CASE q # p
          BY <2>1, <3>1, <5>2 DEF Others, AtRest
        <5>. QED
          BY <5>1, <5>2
      <4>. QED
        BY <4>1 DEF AtRest
    <3>2. ASSUME NEW q \in Procs, HasCopy(q)'
          PROVE  HasCopy(q) /\ proc'[q] = proc[q]
      <4>1. q # p
        BY <2>7, <3>2 DEF HasCopy, Working
      <4>. QED
        BY <2>1, <3>2, <4>1 DEF Others, HasCopy, Working
    <3>. QED
      BY <2>4, <2>7, <3>1, <3>2 DEF OnceAt, Held, Tool
  (* One that reads the run: nobody else has a copy. *)
  <2>8. ASSUME proc[p].pc = "load", ran' = ran, stored' = stored,
               Tool(p, t)'.st = "absent" \/ Tool(p, t)' = stored.tools[t],
               proc'[p].pc \notin {"idle", "check", "load", "mirror"}
        PROVE  OnceAt(t)'
    <3>1. ASSUME NEW q \in Procs, q # p
          PROVE  proc[q].pc \in {"idle", "check"} /\ ~HasCopy(q)'
      <4>1. ~Working(q)
        BY <1>1, <2>8, <3>1 DEF Alone, Working
      <4>. QED
        BY <2>1, <3>1, <4>1 DEF Others, Working, HasCopy
    <3>2. ran[t] > 0 => stored.tools[t].st # "waiting"
      BY <2>4, <2>8, <3>1 DEF AtRest
    <3>3. ran'[t] > 0 => Held(p, t)'
      BY <2>4, <2>8, <3>2 DEF Held
    <3>4. ~AtRest'
      BY <2>8 DEF AtRest
    <3>. QED
      BY <2>4, <2>8, <3>1, <3>3, <3>4 DEF OnceAt
  (* What an execution leaves behind when its copy does not reach the table. *)
  <2>9. ASSUME HasCopy(p), seen'.lost = seen.lost \cup Unsaved(p), ran[t] > 0
        PROVE  stored.tools[t].st # "waiting" /\ Held(p, t)
    <3>1. Held(p, t)
      BY <2>4, <2>9
    <3>2. t \notin Unsaved(p)
      BY <2>9
    <3>. QED
      BY <3>1, <3>2 DEF Held, Unsaved, Tool
  <2>10. CASE Goes(p)
    <3>1. ran' = ran /\ stored' = stored /\ Tool(p, t)' = Tool(p, t)
      BY <2>10 DEF Goes, Tool
    <3>2. CASE proc[p].pc \in {"idle", "check"}
      <4>1. ~HasCopy(p) /\ proc'[p].pc \in {"idle", "check", "load"}
        BY <2>10, <3>2 DEF Goes, HasCopy, Working
      <4>. QED
        BY <2>7, <3>1, <4>1
    <3>3. CASE proc[p].pc \notin {"idle", "check"}
      <4>1. HasCopy(p) /\ proc'[p].pc \notin {"idle", "check", "load", "mirror"}
        BY <2>10, <3>3 DEF Goes, HasCopy, Working
      <4>. QED
        BY <2>6, <3>1, <4>1
    <3>. QED
      BY <3>2, <3>3
  <2>11. CASE Loads(p)
    <3>1. /\ proc[p].pc = "load" /\ ran' = ran /\ stored' = stored /\ Tool(p, t)' = stored.tools[t]
          /\ proc'[p].pc \notin {"idle", "check", "load", "mirror"}
      BY <2>11 DEF Loads, Tool
    <3>. QED
      BY <2>8, <3>1
  <2>12. CASE Forgets(p)
    <3>1. /\ proc[p].pc = "load" /\ ran' = ran /\ stored' = stored
          /\ proc'[p].pc \notin {"idle", "check", "load", "mirror"} /\ proc'[p].tools = NotCalled
      BY <2>12 DEF Forgets
    <3>2. Tool(p, t)'.st = "absent"
      BY <3>1, NotCalledType DEF Tool
    <3>. QED
      BY <2>8, <3>1, <3>2
  <2>13. CASE LooksUp(p)
    <3>1. HasCopy(p) /\ proc'[p].pc = "handle" /\ ran' = ran /\ stored' = stored
      BY <2>13 DEF LooksUp, HasCopy, Working
    <3>2. PICK a \in DOMAIN approvals : proc'[p].tools = Applied(proc[p].tools, approvals[a])
      BY <2>13 DEF LooksUp
    <3>3. approvals[a] \in ApprovalType /\ proc[p].tools \in ToolsType
      BY DEF TypeInv, ProcType
    <3>4. Tool(p, t)'.st = Tool(p, t).st
      BY <3>2, <3>3, AppliedMoves DEF Tool
    <3>. QED
      BY <2>6, <3>1, <3>4
  <2>14. CASE Handles(p)
    <3>1. HasCopy(p) /\ proc'[p].pc = "handle" /\ stored' = stored
      BY <2>14 DEF Handles, HasCopy, Working
    <3>2. PICK u \in Tools : Settles(p, u) /\ (Runs(p, u) \/ Rejects(p, u) \/ Accepts(p, u))
      BY <2>14 DEF Handles
    <3>3. ran' = ran \/ ran' = [ran EXCEPT ![u] = ran[u] + 1]
      BY <3>2 DEF Runs, Rejects, Accepts
    <3>4. ran \in [Tools -> Nat]
      BY DEF TypeInv
    <3>5. CASE t = u
      <4>1. ran[t] = 0
        BY <2>4, <3>1, <3>2, <3>5 DEF Settles, Held
      <4>2. ran'[t] \in {0, 1}
        BY <3>3, <3>4, <3>5, <4>1
      <4>3. Held(p, t)'
        BY <3>2, <3>5 DEF Settles, Held
      <4>. QED
        BY <2>5, <3>1, <4>2, <4>3
    <3>6. CASE t # u
      <4>1. ran'[t] = ran[t] /\ Tool(p, t)' = Tool(p, t)
        BY <3>2, <3>3, <3>4, <3>6 DEF Settles
      <4>2. ran[t] > 0 => Held(p, t)
        BY <2>4, <3>1
      <4>3. ran'[t] > 0 => Held(p, t)'
        BY <3>1, <4>1, <4>2 DEF Held
      <4>. QED
        BY <2>4, <2>5, <3>1, <4>1, <4>3
    <3>. QED
      BY <3>5, <3>6
  <2>15. CASE Calls(p)
    <3>1. HasCopy(p) /\ proc'[p].pc = "approve" /\ ran' = ran /\ stored' = stored
      BY <2>15 DEF Calls, HasCopy, Working
    <3>2. ran[t] > 0 => Tool(p, t)' = Tool(p, t)
      BY <2>15 DEF Calls, CalledInv
    <3>. QED
      BY <2>6, <3>1, <3>2
  <2>16. CASE Creates(p)
    <3>1. /\ HasCopy(p) /\ proc'[p].pc = "store" /\ ran' = ran /\ stored' = stored
          /\ Tool(p, t)'.st = Tool(p, t).st
      BY <2>16 DEF Creates, HasCopy, Working
    <3>. QED
      BY <2>6, <3>1
  <2>17. CASE Stores(p)
    <3>1. /\ HasCopy(p) /\ proc'[p].pc = "mirror" /\ ran' = ran
          /\ Tool(p, t)' = Tool(p, t) /\ stored'.tools[t] = Tool(p, t)
      BY <2>17 DEF Stores, Tool, HasCopy, Working
    <3>2. ran'[t] > 0 => stored'.tools[t].st # "waiting" /\ Held(p, t)'
      BY <2>4, <3>1 DEF Held
    <3>. QED
      BY <2>4, <2>5, <3>1, <3>2
  <2>18. CASE SkipsStore(p) /\ seen'.lost = seen.lost \cup Unsaved(p)
    <3>1. /\ HasCopy(p) /\ proc'[p].pc = "mirror" /\ ran' = ran /\ stored' = stored
          /\ Tool(p, t)' = Tool(p, t)
      BY <2>18 DEF SkipsStore, Tool, HasCopy, Working
    <3>2. ran'[t] > 0 => stored'.tools[t].st # "waiting" /\ Held(p, t)'
      BY <2>9, <2>18, <3>1 DEF Held
    <3>. QED
      BY <2>4, <2>5, <3>1, <3>2
  <2>19. CASE Mirrors(p) \/ SkipsMirror(p)
    <3>1. /\ proc[p].pc = "mirror" /\ HasCopy(p) /\ proc'[p].pc = "idle" /\ ran' = ran /\ stored' = stored
      BY <2>19 DEF Mirrors, SkipsMirror, HasCopy, Working
    <3>2. AtRest
      BY <1>1, <3>1 DEF AtRest, Alone, Working
    <3>3. ~HasCopy(p)'
      BY <3>1 DEF HasCopy, Working
    <3>. QED
      BY <2>4, <2>5, <3>1, <3>2, <3>3
  <2>20. CASE Dies(p) /\ seen'.lost = seen.lost \cup Unsaved(p)
    <3>1. proc'[p].pc = "idle" /\ ran' = ran /\ stored' = stored
      BY <2>20 DEF Dies
    <3>2. CASE HasCopy(p)
      <4>1. ~HasCopy(p)' /\ (ran'[t] > 0 => stored'.tools[t].st # "waiting")
        BY <2>9, <2>20, <3>1, <3>2 DEF HasCopy, Working
      <4>. QED
        BY <2>4, <2>5, <3>1, <3>2, <4>1
    <3>3. CASE ~HasCopy(p)
      BY <2>7, <3>1, <3>3
    <3>. QED
      BY <3>2, <3>3
  <2>. QED
    BY <1>3, <2>10, <2>11, <2>12, <2>13, <2>14, <2>15, <2>16, <2>17, <2>18, <2>19, <2>20 DEF Move, Moves
<1>. QED
  BY <1>2, <1>3, NextMoves

(* A tool call is executed at most once, over retries, pauses, continuations   *)
(* that do not overlap, deaths and lost reads and writes, unless the execution *)
(* that settled it died or could not store it.                               *)
THEOREM CallsRunOnce == Spec => []RanOnce
<1>1. Init => CalledInv /\ OnceInv
  <2>. SUFFICES ASSUME Init PROVE CalledInv /\ OnceInv
    OBVIOUS
  <2>1. /\ \A t \in Tools : ran[t] = 0
        /\ \A p \in Procs : Working(p) => p = First
        /\ stored.tools = NotCalled /\ \A p \in Procs : proc[p].tools = NotCalled
    BY IdleType DEF Init, Working, Idle
  <2>2. \A t \in Tools : ran[t] <= 1 /\ ~(ran[t] > 0)
    BY <2>1
  <2>3. CalledInv
    BY <2>1, <2>2, NotCalledType DEF CalledInv, Tool
  <2>. QED
    BY <2>1, <2>2, <2>3 DEF OnceInv, OnceAt, Alone
<1>2. TypeInv /\ CalledInv /\ OnceInv /\ [Next]_vars => CalledInv' /\ OnceInv'
  BY CalledStep, OnceStep
<1>3. OnceInv => RanOnce
  BY DEF OnceInv, OnceAt, RanOnce
<1>. QED
  BY <1>1, <1>2, <1>3, TypeInvariant, PTL DEF Spec

-----------------------------------------------------------------------------
(* The approvals' copy of the run's status. *)

Agreed == \A a \in Existing : approvals[a].runStatus = stored.status

(* An execution stores the run and updates its approvals, and when it pauses   *)
(* inserts one before: between these writes the two may differ.  By the last   *)
(* one the table has the status that it will write.                          *)
MirrorInv ==
    ~seen.overlap =>
        /\ Alone
        /\ \A p \in Procs : proc[p].pc = "approve" => proc[p].status = "paused"
        /\ ~seen.torn =>
              /\ (\A p \in Procs : ~Between(p)) => Agreed
              /\ \A p \in Procs : proc[p].pc = "mirror" => stored.status = proc[p].status

LEMMA MirrorStep ==
    ASSUME TypeInv, MirrorInv, [Next]_vars
    PROVE  MirrorInv'
<1>. SUFFICES ASSUME ~seen'.overlap
              PROVE  /\ Alone'
                     /\ \A p \in Procs : proc'[p].pc = "approve" => proc'[p].status = "paused"
                     /\ ~seen'.torn =>
                           /\ (\A p \in Procs : ~Between(p)') => Agreed'
                           /\ \A p \in Procs : proc'[p].pc = "mirror" => stored'.status = proc'[p].status
  BY DEF MirrorInv
<1>1. /\ ~seen.overlap /\ Alone
      /\ \A p \in Procs : proc[p].pc = "approve" => proc[p].status = "paused"
      /\ ~seen.torn => /\ (\A p \in Procs : ~Between(p)) => Agreed
                       /\ \A p \in Procs : proc[p].pc = "mirror" => stored.status = proc[p].status
  BY NextMoves DEF Grows, MirrorInv
<1>2. CASE Still
  <2>1. proc' = proc /\ approvals' = approvals /\ stored' = stored /\ seen' = seen
    BY <1>2 DEF Still
  <2>. QED
    BY <1>1, <2>1 DEF Alone, Working, Between, Agreed, Existing
<1>3. CASE Views
  <2>1. proc' = proc /\ stored' = stored /\ seen'.torn = seen.torn
    BY <1>3 DEF Views, Reviewed
  <2>2. \A a \in Existing' : a \in Existing /\ approvals'[a].runStatus = approvals[a].runStatus
    BY <1>3 DEF Views, Reviewed, Existing
  <2>3. Agreed => Agreed'
    BY <2>1, <2>2 DEF Agreed
  <2>. QED
    BY <1>1, <2>1, <2>3 DEF Alone, Working, Between
<1>4. ASSUME NEW p \in Procs, Move(p)
      PROVE  /\ Alone'
             /\ \A q \in Procs : proc'[q].pc = "approve" => proc'[q].status = "paused"
             /\ ~seen'.torn =>
                   /\ (\A q \in Procs : ~Between(q)') => Agreed'
                   /\ \A q \in Procs : proc'[q].pc = "mirror" => stored'.status = proc'[q].status
  <2>1. Others(p) /\ Notes
    BY <1>4 DEF Move
  <2>2. Alone'
    BY <2>1 DEF Notes, Alone
  <2>3. proc'[p].pc = "approve" => proc'[p].status = "paused"
    BY <1>4 DEF Move, Moves, Goes, Loads, Forgets, LooksUp, Handles, Calls, Creates, Mirrors, Stores,
                SkipsStore, SkipsMirror, Dies
  <2>4. \A q \in Procs : proc'[q].pc = "approve" => proc'[q].status = "paused"
    <3>1. ASSUME NEW q \in Procs, q # p
          PROVE  proc'[q].pc = "approve" => proc'[q].status = "paused"
      BY <1>1, <2>1, <3>1 DEF Others
    <3>. QED
      BY <2>3, <3>1
  (* Steps that write neither the run nor its approvals. *)
  <2>5. ASSUME stored' = stored, approvals' = approvals, proc'[p].pc # "mirror",
               ~seen'.torn => ~seen.torn /\ ~Between(p)
        PROVE  ~seen'.torn => /\ (\A q \in Procs : ~Between(q)') => Agreed'
                              /\ \A q \in Procs : proc'[q].pc = "mirror" => stored'.status = proc'[q].status
    <3>1. SUFFICES ASSUME ~seen'.torn
                   PROVE  /\ (\A q \in Procs : ~Between(q)') => Agreed'
                          /\ \A q \in Procs : proc'[q].pc = "mirror" => stored'.status = proc'[q].status
      OBVIOUS
    <3>2. ASSUME NEW q \in Procs, q # p
          PROVE  proc'[q] = proc[q] /\ (Between(q)' <=> Between(q))
      BY <2>1, <3>2 DEF Others, Between
    <3>3. (\A q \in Procs : ~Between(q)') => \A q \in Procs : ~Between(q)
      BY <2>5, <3>1, <3>2
    <3>4. Agreed => Agreed'
      BY <2>5 DEF Agreed, Existing
    <3>5. ASSUME NEW q \in Procs, proc'[q].pc = "mirror"
          PROVE  stored'.status = proc'[q].status
      BY <1>1, <2>5, <3>1, <3>2, <3>5
    <3>. QED
      BY <1>1, <2>5, <3>1, <3>3, <3>4, <3>5
  <2>6. CASE /\ Goes(p) \/ Loads(p) \/ Forgets(p) \/ LooksUp(p) \/ Handles(p) \/ Calls(p)
             /\ seen'.torn = seen.torn
    <3>1. /\ stored' = stored /\ approvals' = approvals /\ proc'[p].pc # "mirror"
          /\ proc[p].pc \notin {"store", "mirror"}
      BY <2>6 DEF Goes, Loads, Forgets, LooksUp, Handles, Calls
    <3>2. ~Between(p)
      BY <3>1 DEF Between
    <3>. QED
      BY <2>2, <2>4, <2>5, <2>6, <3>1, <3>2
  <2>7. CASE Creates(p) /\ seen'.torn = seen.torn
    <3>1. stored' = stored /\ proc'[p].pc = "store" /\ proc'[p].status = "paused"
      BY <1>1, <2>7 DEF Creates
    <3>2. Between(p)'
      BY <3>1 DEF Between
    <3>3. ASSUME ~seen'.torn, NEW q \in Procs, proc'[q].pc = "mirror"
          PROVE  stored'.status = proc'[q].status
      <4>1. proc'[q] = proc[q]
        BY <2>1, <3>1, <3>3 DEF Others
      <4>. QED
        BY <1>1, <2>7, <3>1, <3>3, <4>1
    <3>. QED
      BY <2>2, <2>4, <3>2, <3>3
  <2>8. CASE Stores(p)
    <3>1. /\ proc[p].pc = "store" /\ proc'[p].pc = "mirror" /\ stored'.status = proc[p].status
          /\ proc'[p].status = proc[p].status
      BY <2>8 DEF Stores
    <3>2. Between(p)'
      BY <3>1 DEF Between
    <3>3. ASSUME NEW q \in Procs, proc'[q].pc = "mirror"
          PROVE  q = p
      <4>1. q # p => proc[q].pc = "mirror"
        BY <2>1, <3>3 DEF Others
      <4>. QED
        BY <1>1, <3>1, <4>1 DEF Alone, Working
    <3>. QED
      BY <2>2, <2>4, <3>1, <3>2, <3>3
  <2>9. CASE Mirrors(p) /\ seen'.torn = seen.torn
    <3>1. /\ proc[p].pc = "mirror" /\ proc'[p].pc = "idle" /\ stored' = stored
          /\ DOMAIN approvals' = DOMAIN approvals
          /\ \A a \in DOMAIN approvals :
                /\ approvals'[a].gone = approvals[a].gone
                /\ ~approvals[a].gone => approvals'[a].runStatus = proc[p].status
      BY <2>9 DEF Mirrors
    <3>2. ~seen.torn => Agreed'
      BY <1>1, <3>1 DEF Agreed, Existing
    <3>3. ASSUME ~seen'.torn, NEW q \in Procs, proc'[q].pc = "mirror"
          PROVE  stored'.status = proc'[q].status
      <4>1. proc'[q] = proc[q]
        BY <2>1, <3>1, <3>3 DEF Others
      <4>. QED
        BY <1>1, <2>9, <3>1, <3>3, <4>1
    <3>. QED
      BY <2>2, <2>4, <2>9, <3>2, <3>3
  <2>10. CASE Dies(p) /\ seen'.torn = (seen.torn \/ Between(p))
    <3>1. stored' = stored /\ approvals' = approvals /\ proc'[p].pc # "mirror"
      BY <2>10 DEF Dies
    <3>. QED
      BY <2>2, <2>4, <2>5, <2>10, <3>1
  <2>11. CASE seen'.torn
    BY <2>2, <2>4, <2>11
  <2>. QED
    BY <1>4, <2>6, <2>7, <2>8, <2>9, <2>10, <2>11 DEF Move, Moves
<1>. QED
  BY <1>2, <1>3, <1>4, NextMoves

(* When no execution is under way the approvals say what became of the run,    *)
(* unless its last end got only one of its two writes through.                *)
THEOREM MirrorsAgree == Spec => []MirrorAgrees
<1>1. Init => MirrorInv
  <2>. SUFFICES ASSUME Init PROVE MirrorInv
    OBVIOUS
  <2>1. /\ \A p \in Procs : (Working(p) => p = First) /\ proc[p].pc \notin {"mirror", "approve"}
        /\ Existing = {}
    BY DEF Init, Idle, Working, Existing
  <2>. QED
    BY <2>1 DEF MirrorInv, Agreed, Alone
<1>2. TypeInv /\ MirrorInv /\ [Next]_vars => MirrorInv'
  BY MirrorStep
<1>3. MirrorInv => MirrorAgrees
  BY DEF MirrorInv, MirrorAgrees, Agreed, Between
<1>. QED
  BY <1>1, <1>2, <1>3, TypeInvariant, PTL DEF Spec

-----------------------------------------------------------------------------
(* The first pause. *)

Absent(tools) == \A t \in Tools : tools[t].st = "absent"

Approved(t, records) ==
    \E a \in DOMAIN records : t \in records[a].tools /\ records[a].st = "approved"

TurnedDown(t, records) ==
    \E a \in DOMAIN records : t \in records[a].tools /\ records[a].st = "rejected"

(* A confirmed call has its approval, and every record is about every call     *)
(* that was made.                                                            *)
Backed(tools, records) ==
    \A t \in Tools :
        /\ tools[t].confirmed = "yes" => Approved(t, records)
        /\ tools[t].st # "absent" => \A a \in DOMAIN records : t \in records[a].tools

(* Before the first pause no call is made; while its record is about to be     *)
(* created nobody else has a call, and none is settled.                       *)
FirstInv ==
    rounds <= 1 =>
        /\ Backed(stored.tools, approvals)
        /\ \A p \in Procs : Backed(proc[p].tools, approvals)
        /\ rounds = 0 => /\ Absent(stored.tools) /\ DOMAIN approvals = {}
                         /\ \A p \in Procs : Absent(proc[p].tools) /\ proc[p].pc # "approve"
        /\ \A p \in Procs : proc[p].pc = "approve" =>
              /\ Absent(stored.tools)
              /\ \A t \in Tools : Tool(p, t).st \in {"absent", "waiting"}
              /\ \A q \in Procs \ {p} : Absent(proc[q].tools) /\ proc[q].pc # "approve"
        /\ \A t \in Tools : ran[t] > 0 /\ kind[t] # "input" => Approved(t, approvals)

(* Records stay, with their calls and verdicts. *)
Stay(records, later) ==
    \A a \in DOMAIN records :
        /\ a \in DOMAIN later /\ later[a].tools = records[a].tools
        /\ records[a].st # "pending" => later[a].st = records[a].st

LEMMA RecordsStay ==
    ASSUME TypeInv, [Next]_vars
    PROVE  /\ Stay(approvals, approvals')
           /\ (\A p \in Procs : ~Creates(p)) => DOMAIN approvals' = DOMAIN approvals
<1>1. CASE Still
  BY <1>1 DEF Still, Stay
<1>2. CASE Views
  BY <1>2 DEF Views, Reviewed, Stay
<1>3. ASSUME NEW p \in Procs, Move(p)
      PROVE  /\ Stay(approvals, approvals')
             /\ ~Creates(p) => DOMAIN approvals' = DOMAIN approvals
  <2>1. CASE Creates(p)
    <3>. DEFINE row == [st |-> "pending", data |-> FALSE, gone |-> FALSE,
                        tools |-> Waiting(proc[p]), runStatus |-> "paused"]
    <3>1. approvals' = Append(approvals, row) /\ approvals \in Seq(ApprovalType)
      BY <2>1 DEF Creates, TypeInv
    <3>. HIDE DEF row
    <3>2. \A a \in DOMAIN approvals : a \in DOMAIN approvals' /\ approvals'[a] = approvals[a]
      BY <3>1
    <3>. QED
      BY <2>1, <3>2 DEF Stay
  <2>2. CASE Mirrors(p)
    BY <2>2 DEF Mirrors, Stay
  <2>3. CASE ~Creates(p) /\ ~Mirrors(p)
    <3>1. approvals' = approvals
      BY <1>3, <2>3 DEF Move, Moves, Goes, Loads, Forgets, LooksUp, Handles, Calls, Stores,
                        SkipsStore, SkipsMirror, Dies
    <3>. QED
      BY <3>1 DEF Stay
  <2>. QED
    BY <2>1, <2>2, <2>3
<1>. QED
  BY <1>1, <1>2, <1>3, NextMoves

LEMMA VerdictsStay ==
    ASSUME NEW records, NEW later, Stay(records, later), NEW t
    PROVE  /\ Approved(t, records) => Approved(t, later)
           /\ TurnedDown(t, records) => TurnedDown(t, later)
  BY DEF Stay, Approved, TurnedDown

LEMMA BackedStays ==
    ASSUME NEW records, NEW later, Stay(records, later), DOMAIN later = DOMAIN records,
           NEW tools, Backed(tools, records)
    PROVE  Backed(tools, later)
  BY VerdictsStay DEF Stay, Backed

(* The steps that neither call tools nor create a record. *)
LEMMA FirstKept ==
    ASSUME TypeInv, FirstInv, rounds <= 1, NEW p \in Procs, Others(p), [Next]_vars,
           rounds' = rounds, DOMAIN approvals' = DOMAIN approvals, proc'[p].pc # "approve",
           Backed(stored'.tools, approvals'), Backed(proc'[p].tools, approvals'),
           Absent(stored.tools) /\ Absent(proc[p].tools) => Absent(stored'.tools) /\ Absent(proc'[p].tools),
           \A t \in Tools : ran'[t] > 0 /\ kind'[t] # "input" => Approved(t, approvals')
    PROVE  FirstInv'
<1>1. /\ \A q \in Procs : Backed(proc[q].tools, approvals)
      /\ rounds = 0 => /\ Absent(stored.tools) /\ DOMAIN approvals = {}
                       /\ \A q \in Procs : Absent(proc[q].tools) /\ proc[q].pc # "approve"
      /\ \A q \in Procs : proc[q].pc = "approve" =>
            /\ Absent(stored.tools)
            /\ \A t \in Tools : Tool(q, t).st \in {"absent", "waiting"}
            /\ \A r \in Procs \ {q} : Absent(proc[r].tools) /\ proc[r].pc # "approve"
  BY DEF FirstInv
<1>2. ASSUME NEW q \in Procs
      PROVE  Backed(proc'[q].tools, approvals')
  <2>1. CASE q = p
    BY <2>1
  <2>2. CASE q # p
    <3>1. proc'[q] = proc[q]
      BY <2>2 DEF Others
    <3>2. Backed(proc[q].tools, approvals')
      BY <1>1, RecordsStay, BackedStays
    <3>. QED
      BY <3>1, <3>2
  <2>. QED
    BY <2>1, <2>2
<1>3. ASSUME rounds' = 0
      PROVE  /\ Absent(stored'.tools) /\ DOMAIN approvals' = {}
             /\ \A q \in Procs : Absent(proc'[q].tools) /\ proc'[q].pc # "approve"
  <2>1. ASSUME NEW q \in Procs
        PROVE  Absent(proc'[q].tools) /\ proc'[q].pc # "approve"
    <3>1. CASE q = p
      BY <1>1, <1>3, <3>1
    <3>2. CASE q # p
      BY <1>1, <1>3, <3>2 DEF Others
    <3>. QED
      BY <3>1, <3>2
  <2>. QED
    BY <1>1, <1>3, <2>1
<1>4. ASSUME NEW q \in Procs, proc'[q].pc = "approve"
      PROVE  /\ Absent(stored'.tools)
             /\ \A t \in Tools : Tool(q, t)'.st \in {"absent", "waiting"}
             /\ \A r \in Procs \ {q} : Absent(proc'[r].tools) /\ proc'[r].pc # "approve"
  <2>1. q # p /\ proc'[q] = proc[q]
    BY <1>4 DEF Others
  <2>2. /\ Absent(stored.tools) /\ Absent(proc[p].tools)
        /\ \A t \in Tools : Tool(q, t).st \in {"absent", "waiting"}
        /\ \A r \in Procs \ {q} : Absent(proc[r].tools) /\ proc[r].pc # "approve"
    BY <1>1, <1>4, <2>1
  <2>3. ASSUME NEW r \in Procs \ {q}
        PROVE  Absent(proc'[r].tools) /\ proc'[r].pc # "approve"
    <3>1. CASE r = p
      BY <2>2, <3>1
    <3>2. CASE r # p
      BY <2>2, <3>2 DEF Others
    <3>. QED
      BY <3>1, <3>2
  <2>. QED
    BY <2>1, <2>2, <2>3 DEF Tool
<1>. QED
  BY <1>2, <1>3, <1>4 DEF FirstInv

LEMMA FirstStep ==
    ASSUME TypeInv, FirstInv, [Next]_vars
    PROVE  FirstInv'
<1>. SUFFICES ASSUME rounds' <= 1
              PROVE  FirstInv'
  BY DEF FirstInv
<1>0. rounds \in Nat /\ kind' = kind /\ ran \in [Tools -> Nat]
  BY ApprovalsAssumption, NextMoves DEF TypeInv
<1>1. CASE Still
  BY <1>0, <1>1 DEF Still, FirstInv, Tool
<1>2. CASE Views
  <2>1. proc' = proc /\ stored' = stored /\ ran' = ran /\ rounds' = rounds
        /\ DOMAIN approvals' = DOMAIN approvals
    BY <1>2 DEF Views, Reviewed
  <2>2. Stay(approvals, approvals')
    BY RecordsStay
  <2>3. \A tools : Backed(tools, approvals) => Backed(tools, approvals')
    BY <2>1, <2>2, BackedStays
  <2>4. \A t : Approved(t, approvals) => Approved(t, approvals')
    BY <2>2, VerdictsStay
  <2>. QED
    BY <1>0, <2>1, <2>3, <2>4 DEF FirstInv, Tool
<1>3. ASSUME NEW p \in Procs, Move(p)
      PROVE  FirstInv'
  <2>1. Others(p) /\ (Moves(p) \/ Stores(p) \/ Fails(p))
    BY <1>3 DEF Move, Fails
  <2>2. rounds <= 1
    <3>1. rounds' = rounds \/ rounds' = rounds + 1
      BY <2>1 DEF Moves, Goes, Loads, Forgets, LooksUp, Handles, Calls, Creates, Stores, Mirrors,
                  Fails, SkipsStore, SkipsMirror, Dies
    <3>. QED
      BY <1>0, <3>1
  <2>3. /\ Backed(stored.tools, approvals) /\ Backed(proc[p].tools, approvals)
        /\ Stay(approvals, approvals')
        /\ \A t \in Tools : ran[t] > 0 /\ kind[t] # "input" => Approved(t, approvals)
    BY <2>2, RecordsStay DEF FirstInv
  <2>4. /\ \A t : Approved(t, approvals) => Approved(t, approvals')
        /\ DOMAIN approvals' = DOMAIN approvals =>
              Backed(stored.tools, approvals') /\ Backed(proc[p].tools, approvals')
    BY <2>3, VerdictsStay, BackedStays
  <2>5. CASE Goes(p) \/ SkipsStore(p)
    <3>1. /\ stored' = stored /\ approvals' = approvals /\ ran' = ran /\ rounds' = rounds
          /\ proc'[p].tools = proc[p].tools /\ proc'[p].pc # "approve"
      BY <2>5 DEF Goes, SkipsStore
    <3>. QED
      BY <1>0, <2>1, <2>2, <2>3, <3>1, FirstKept
  <2>13. CASE Forgets(p) \/ SkipsMirror(p) \/ Dies(p)
    <3>1. /\ stored' = stored /\ approvals' = approvals /\ ran' = ran /\ rounds' = rounds
          /\ proc'[p].tools = NotCalled /\ proc'[p].pc # "approve"
      BY <2>13 DEF Forgets, SkipsMirror, Dies
    <3>2. Absent(proc'[p].tools) /\ Backed(proc'[p].tools, approvals')
      BY <3>1, NotCalledType DEF Absent, Backed
    <3>. QED
      BY <1>0, <2>1, <2>2, <2>3, <3>1, <3>2, FirstKept
  <2>6. CASE Loads(p)
    <3>1. /\ stored' = stored /\ approvals' = approvals /\ ran' = ran /\ rounds' = rounds
          /\ proc'[p].tools = stored.tools /\ proc'[p].pc # "approve"
      BY <2>6 DEF Loads
    <3>. QED
      BY <1>0, <2>1, <2>2, <2>3, <3>1, FirstKept
  <2>7. CASE LooksUp(p)
    <3>1. /\ stored' = stored /\ approvals' = approvals /\ ran' = ran /\ rounds' = rounds
          /\ proc'[p].pc # "approve"
      BY <2>7 DEF LooksUp
    <3>2. PICK a \in DOMAIN approvals : proc'[p].tools = Applied(proc[p].tools, approvals[a])
      BY <2>7 DEF LooksUp
    <3>3. approvals[a] \in ApprovalType /\ proc[p].tools \in ToolsType
      BY DEF TypeInv, ProcType
    <3>. DEFINE tools == proc[p].tools
                later == Applied(tools, approvals[a])
    <3>4. ASSUME NEW t \in Tools
          PROVE  /\ later[t].st = tools[t].st
                 /\ later[t].confirmed = "yes" => Approved(t, approvals)
                 /\ later[t].st # "absent" => \A b \in DOMAIN approvals : t \in approvals[b].tools
      <4>1. /\ later[t].st = tools[t].st
            /\ later[t].confirmed = "yes" =>
                  tools[t].confirmed = "yes" \/ (tools[t].st = "waiting" /\ approvals[a].st = "approved")
        BY <3>3, AppliedMoves
      <4>2. /\ tools[t].confirmed = "yes" => Approved(t, approvals)
            /\ tools[t].st # "absent" => \A b \in DOMAIN approvals : t \in approvals[b].tools
        BY <2>3 DEF Backed
      <4>3. tools[t].st = "waiting" /\ approvals[a].st = "approved" => Approved(t, approvals)
        BY <4>2 DEF Approved
      <4>. QED
        BY <4>1, <4>2, <4>3
    <3>. HIDE DEF later
    <3>5. Backed(later, approvals)
      BY <3>4 DEF Backed
    <3>6. Absent(tools) => Absent(later)
      BY <3>4 DEF Absent
    <3>7. proc'[p].tools = later
      BY <3>2 DEF later
    <3>. QED
      BY <1>0, <2>1, <2>2, <2>3, <3>1, <3>5, <3>6, <3>7, FirstKept
  <2>8. CASE Handles(p)
    <3>1. /\ stored' = stored /\ approvals' = approvals /\ rounds' = rounds
          /\ proc'[p].pc # "approve"
      BY <2>8 DEF Handles
    <3>2. PICK t \in Tools : Settles(p, t) /\ (Runs(p, t) \/ Rejects(p, t) \/ Accepts(p, t))
      BY <2>8 DEF Handles
    <3>3. ~Absent(proc[p].tools)
      BY <3>2 DEF Settles, Absent, Tool
    <3>4. Tool(p, t)'.confirmed = "yes" => Tool(p, t).confirmed = "yes"
      BY <3>2 DEF Runs, Rejects, Accepts
    <3>5. Backed(proc'[p].tools, approvals)
      <4>1. ASSUME NEW u \in Tools
            PROVE  /\ Tool(p, u)'.confirmed = "yes" => Approved(u, approvals)
                   /\ Tool(p, u)'.st # "absent" => \A b \in DOMAIN approvals : u \in approvals[b].tools
        <5>1. /\ Tool(p, u).confirmed = "yes" => Approved(u, approvals)
              /\ Tool(p, u).st # "absent" => \A b \in DOMAIN approvals : u \in approvals[b].tools
          BY <2>3 DEF Backed, Tool
        <5>2. CASE u = t
          BY <3>2, <3>4, <5>1, <5>2 DEF Settles
        <5>3. CASE u # t
          BY <3>2, <5>1, <5>3 DEF Settles
        <5>. QED
          BY <5>2, <5>3
      <4>. QED
        BY <4>1 DEF Backed, Tool
    <3>6. ASSUME NEW u \in Tools, ran'[u] > 0, kind[u] # "input"
          PROVE  Approved(u, approvals)
      <4>1. CASE ran'[u] = ran[u]
        BY <2>3, <3>6, <4>1
      <4>2. CASE ran'[u] # ran[u]
        <5>1. u = t /\ Runs(p, t)
          BY <1>0, <3>2, <4>2 DEF Runs, Rejects, Accepts
        <5>2. Tool(p, t).confirmed = "yes"
          BY <3>6, <5>1 DEF Runs
        <5>. QED
          BY <2>3, <5>1, <5>2 DEF Backed, Tool
      <4>. QED
        BY <4>1, <4>2
    <3>. QED
      BY <1>0, <2>1, <2>2, <2>3, <3>1, <3>3, <3>5, <3>6, FirstKept
  <2>9. CASE Stores(p)
    <3>1. /\ stored'.tools = proc[p].tools /\ approvals' = approvals /\ ran' = ran /\ rounds' = rounds
          /\ proc'[p].tools = proc[p].tools /\ proc'[p].pc # "approve"
      BY <2>9 DEF Stores
    <3>. QED
      BY <1>0, <2>1, <2>2, <2>3, <3>1, FirstKept
  <2>10. CASE Mirrors(p)
    <3>1. /\ stored' = stored /\ DOMAIN approvals' = DOMAIN approvals /\ ran' = ran /\ rounds' = rounds
          /\ proc'[p].tools = NotCalled /\ proc'[p].pc # "approve"
      BY <2>10 DEF Mirrors
    <3>3. Absent(proc'[p].tools) /\ Backed(proc'[p].tools, approvals')
      BY <3>1, NotCalledType DEF Absent, Backed
    <3>2. \A t \in Tools : ran'[t] > 0 /\ kind'[t] # "input" => Approved(t, approvals')
      BY <1>0, <2>3, <2>4, <3>1
    <3>. QED
      BY <1>0, <2>1, <2>2, <2>4, <3>1, <3>2, <3>3, FirstKept
  (* The first calls. *)
  <2>11. CASE Calls(p)
    <3>1. /\ rounds = 0 /\ rounds' = 1 /\ proc'[p].pc = "approve"
          /\ stored' = stored /\ approvals' = approvals /\ ran' = ran
      BY <1>0, <2>11 DEF Calls
    <3>2. /\ Absent(stored.tools) /\ DOMAIN approvals = {}
          /\ \A q \in Procs : Absent(proc[q].tools) /\ proc[q].pc # "approve"
      BY <2>2, <3>1 DEF FirstInv
    <3>3. ASSUME NEW t \in Tools
          PROVE  Tool(p, t)'.st \in {"absent", "waiting"} /\ Tool(p, t)'.confirmed = Tool(p, t).confirmed
      <4>1. Tool(p, t).st = "absent"
        BY <3>2 DEF Absent, Tool
      <4>. QED
        BY <2>11, <4>1 DEF Calls
    <3>4. ASSUME NEW q \in Procs
          PROVE  Backed(proc'[q].tools, approvals')
      <4>1. Backed(proc[q].tools, approvals)
        BY <2>2 DEF FirstInv
      <4>2. CASE q = p
        BY <3>1, <3>2, <3>3, <4>1, <4>2 DEF Backed, Tool
      <4>3. CASE q # p
        BY <2>1, <3>1, <4>1, <4>3 DEF Others
      <4>. QED
        BY <4>2, <4>3
    <3>5. ASSUME NEW q \in Procs \ {p}
          PROVE  Absent(proc'[q].tools) /\ proc'[q].pc # "approve"
      BY <2>1, <3>2 DEF Others
    <3>. QED
      BY <1>0, <2>3, <3>1, <3>2, <3>3, <3>4, <3>5 DEF FirstInv
  (* Their record. *)
  <2>12. CASE Creates(p)
    <3>. DEFINE row == [st |-> "pending", data |-> FALSE, gone |-> FALSE,
                        tools |-> Waiting(proc[p]), runStatus |-> "paused"]
    <3>1. /\ proc[p].pc = "approve" /\ proc'[p].pc = "store" /\ stored' = stored /\ ran' = ran
          /\ rounds' = rounds /\ approvals' = Append(approvals, row) /\ approvals \in Seq(ApprovalType)
          /\ \A t \in Tools : Tool(p, t)'.st = Tool(p, t).st /\ Tool(p, t)'.confirmed = Tool(p, t).confirmed
      BY <2>12 DEF Creates, TypeInv
    <3>2. row.tools = Waiting(proc[p])
      OBVIOUS
    <3>. HIDE DEF row
    <3>3. \A a \in DOMAIN approvals' : approvals'[a] = row \/ (a \in DOMAIN approvals /\ approvals'[a] = approvals[a])
      BY <3>1
    <3>4. /\ rounds # 0 /\ Absent(stored.tools)
          /\ \A t \in Tools : Tool(p, t).st \in {"absent", "waiting"}
          /\ \A q \in Procs \ {p} : Absent(proc[q].tools) /\ proc[q].pc # "approve"
      BY <2>2, <3>1 DEF FirstInv
    (* Copies in which each call waits with p keep their backing. *)
    <3>5. ASSUME NEW tools, Backed(tools, approvals), \A t \in Tools : tools[t].st # "absent" => t \in row.tools
          PROVE  Backed(tools, approvals')
      <4>1. ASSUME NEW t \in Tools, tools[t].confirmed = "yes"
            PROVE  Approved(t, approvals')
        <5>1. Approved(t, approvals)
          BY <3>5, <4>1 DEF Backed
        <5>. QED
          BY <2>4, <5>1
      <4>2. ASSUME NEW t \in Tools, tools[t].st # "absent", NEW a \in DOMAIN approvals'
            PROVE  t \in approvals'[a].tools
        BY <3>3, <3>5, <4>2 DEF Backed
      <4>. QED
        BY <4>1, <4>2 DEF Backed
    <3>6. Backed(stored'.tools, approvals')
      BY <2>3, <3>1, <3>4, <3>5 DEF Absent
    <3>7. ASSUME NEW q \in Procs
          PROVE  Backed(proc'[q].tools, approvals')
      <4>1. Backed(proc[q].tools, approvals)
        BY <2>2 DEF FirstInv
      <4>2. CASE q = p
        <5>1. Backed(proc'[p].tools, approvals)
          BY <3>1, <4>1, <4>2 DEF Backed, Tool
        <5>2. \A t \in Tools : proc'[p].tools[t].st # "absent" => t \in row.tools
          BY <3>1, <3>2, <3>4 DEF Waiting, Tool
        <5>. QED
          BY <3>5, <4>2, <5>1, <5>2
      <4>3. CASE q # p
        <5>1. proc'[q] = proc[q]
          BY <2>1, <4>3 DEF Others
        <5>2. Backed(proc[q].tools, approvals')
          BY <3>4, <3>5, <4>1, <4>3 DEF Absent
        <5>. QED
          BY <5>1, <5>2
      <4>. QED
        BY <4>2, <4>3
    <3>8. ASSUME NEW q \in Procs
          PROVE  proc'[q].pc # "approve"
      <4>1. CASE q = p
        BY <3>1, <4>1
      <4>2. CASE q # p
        BY <2>1, <3>4, <4>2 DEF Others
      <4>. QED
        BY <4>1, <4>2
    <3>9. \A t \in Tools : ran'[t] > 0 /\ kind'[t] # "input" => Approved(t, approvals')
      BY <1>0, <2>3, <2>4, <3>1
    <3>. QED
      BY <3>1, <3>4, <3>6, <3>7, <3>8, <3>9 DEF FirstInv
  <2>. QED
    BY <2>1, <2>5, <2>6, <2>7, <2>8, <2>9, <2>10, <2>11, <2>12, <2>13 DEF Moves, Fails
<1>. QED
  BY <1>1, <1>2, <1>3, NextMoves

LEMMA FirstInvariant == Spec => []FirstInv
<1>1. Init => FirstInv
  <2>. SUFFICES ASSUME Init PROVE FirstInv
    OBVIOUS
  <2>1. /\ stored.tools = NotCalled /\ DOMAIN approvals = {}
        /\ \A p \in Procs : proc[p].tools = NotCalled /\ proc[p].pc # "approve"
        /\ \A t \in Tools : ~(ran[t] > 0)
    BY DEF Init, Idle
  <2>2. Absent(NotCalled) /\ Backed(NotCalled, approvals)
    BY DEF NotCalled, Absent, Backed
  <2>. QED
    BY <2>1, <2>2 DEF FirstInv
<1>2. TypeInv /\ FirstInv /\ [Next]_vars => FirstInv'
  BY FirstStep
<1>. QED
  BY <1>1, <1>2, TypeInvariant, PTL DEF Spec

(* While the run has paused once, a tool call is executed only if an approval  *)
(* that was created for it has been approved.                                *)
THEOREM FirstPauseHolds == Spec => []FirstPauseApproved
<1>1. FirstInv => FirstPauseApproved
  BY DEF FirstInv, FirstPauseApproved, RanOnlyApproved, Approved
<1>. QED
  BY <1>1, FirstInvariant, PTL

-----------------------------------------------------------------------------
(* Calls turned down. *)

Justified(tools, records) ==
    \A t \in Tools : tools[t].confirmed = "no" => TurnedDown(t, records)

(* A verdict was applied to the calls to confirm an execution is about to handle. *)
Judged(p) ==
    \A t \in Tools : Tool(p, t).st = "waiting" /\ kind[t] = "confirm" => Tool(p, t).confirmed \in {"yes", "no"}

TurnedInv ==
    rounds <= 1 /\ ~seen.retried =>
        /\ Justified(stored.tools, approvals)
        /\ \A p \in Procs : /\ Justified(proc[p].tools, approvals)
                            /\ proc[p].pc = "handle" => Judged(p)

LEMMA TurnedStep ==
    ASSUME TypeInv, FirstInv, TurnedInv, [Next]_vars
    PROVE  TurnedInv'
<1>. SUFFICES ASSUME rounds' <= 1, ~seen'.retried
              PROVE  TurnedInv'
  BY DEF TurnedInv
<1>0. rounds \in Nat /\ kind' = kind /\ Grows
  BY ApprovalsAssumption, NextMoves DEF TypeInv
<1>1. CASE Still
  BY <1>0, <1>1 DEF Still, TurnedInv, Judged, Tool
<1>2. Stay(approvals, approvals')
  BY RecordsStay
<1>3. ASSUME NEW tools, Justified(tools, approvals)
      PROVE  Justified(tools, approvals')
  BY <1>2, <1>3, VerdictsStay DEF Justified
<1>4. CASE Views
  <2>1. proc' = proc /\ stored' = stored /\ rounds' = rounds /\ ~seen.retried
    BY <1>0, <1>4 DEF Views, Reviewed, Grows
  <2>. QED
    BY <1>0, <1>3, <2>1 DEF TurnedInv, Judged, Tool
<1>5. ASSUME NEW p \in Procs, Move(p)
      PROVE  TurnedInv'
  <2>1. Others(p) /\ (Moves(p) \/ Stores(p) \/ Fails(p)) /\ Notes
    BY <1>5 DEF Move, Fails
  <2>2. rounds <= 1 /\ ~seen.retried
    <3>1. rounds' = rounds \/ rounds' = rounds + 1
      BY <2>1 DEF Moves, Goes, Loads, Forgets, LooksUp, Handles, Calls, Creates, Stores, Mirrors,
                  Fails, SkipsStore, SkipsMirror, Dies
    <3>. QED
      BY <1>0, <3>1 DEF Grows
  <2>3. /\ Justified(stored.tools, approvals) /\ Justified(proc[p].tools, approvals)
        /\ \A q \in Procs : Justified(proc[q].tools, approvals) /\ (proc[q].pc = "handle" => Judged(q))
    BY <2>2 DEF TurnedInv
  (* What is left is what the step does to its own execution. *)
  <2>4. ASSUME Justified(stored'.tools, approvals'), Justified(proc'[p].tools, approvals'),
               proc'[p].pc = "handle" => Judged(p)'
        PROVE  TurnedInv'
    <3>1. ASSUME NEW q \in Procs
          PROVE  Justified(proc'[q].tools, approvals') /\ (proc'[q].pc = "handle" => Judged(q)')
      <4>1. CASE q = p
        BY <2>4, <4>1
      <4>2. CASE q # p
        <5>1. proc'[q] = proc[q]
          BY <2>1, <4>2 DEF Others
        <5>. QED
          BY <1>0, <1>3, <2>3, <5>1 DEF Judged, Tool
      <4>. QED
        BY <4>1, <4>2
    <3>. QED
      BY <2>4, <3>1 DEF TurnedInv
  <2>5. CASE Goes(p) \/ SkipsStore(p)
    <3>1. stored' = stored /\ proc'[p].tools = proc[p].tools
      BY <2>5 DEF Goes, SkipsStore
    <3>2. proc'[p].pc # "handle"
      BY <2>1, <2>5 DEF Goes, SkipsStore, Notes
    <3>. QED
      BY <1>3, <2>3, <2>4, <3>1, <3>2
  <2>10. CASE Forgets(p) \/ Mirrors(p) \/ SkipsMirror(p) \/ Dies(p)
    <3>1. stored' = stored /\ proc'[p].tools = NotCalled
      BY <2>10 DEF Forgets, Mirrors, SkipsMirror, Dies
    <3>2. proc'[p].pc # "handle"
      BY <2>1, <2>10 DEF Forgets, Mirrors, SkipsMirror, Dies, Notes
    <3>3. Justified(proc'[p].tools, approvals')
      BY <3>1, NotCalledType DEF Justified
    <3>. QED
      BY <1>3, <2>3, <2>4, <3>1, <3>2, <3>3
  <2>6. CASE Loads(p) \/ Stores(p)
    <3>1. /\ stored'.tools = stored.tools \/ stored'.tools = proc[p].tools
          /\ proc'[p].tools = stored.tools \/ proc'[p].tools = proc[p].tools
          /\ proc'[p].pc # "handle"
      BY <2>6 DEF Loads, Stores
    <3>. QED
      BY <1>3, <2>3, <2>4, <3>1
  <2>7. CASE LooksUp(p)
    <3>1. PICK a \in DOMAIN approvals : Resolved(a) /\ proc'[p].tools = Applied(proc[p].tools, approvals[a])
      BY <2>7 DEF LooksUp
    <3>2. stored' = stored /\ approvals' = approvals
      BY <2>7 DEF LooksUp
    <3>3. approvals[a] \in ApprovalType /\ proc[p].tools \in ToolsType /\ approvals[a].st # "pending"
      BY <3>1 DEF TypeInv, ProcType, Resolved
    <3>4. Backed(proc[p].tools, approvals)
      BY <2>2 DEF FirstInv
    <3>. DEFINE later == Applied(proc[p].tools, approvals[a])
    <3>5. ASSUME NEW t \in Tools
          PROVE  /\ later[t].confirmed = "no" => TurnedDown(t, approvals)
                 /\ later[t].st = "waiting" /\ kind[t] = "confirm" => later[t].confirmed \in {"yes", "no"}
      <4>1. /\ later[t].st = proc[p].tools[t].st
            /\ later[t].confirmed = "no" =>
                  proc[p].tools[t].confirmed = "no" \/ (proc[p].tools[t].st = "waiting" /\ approvals[a].st = "rejected")
            /\ proc[p].tools[t].st = "waiting" /\ kind[t] = "confirm" => later[t].confirmed \in {"yes", "no"}
        BY <3>3, AppliedMoves
      <4>2. /\ proc[p].tools[t].confirmed = "no" => TurnedDown(t, approvals)
            /\ proc[p].tools[t].st = "waiting" => t \in approvals[a].tools
        BY <2>3, <3>4 DEF Justified, Backed
      <4>3. proc[p].tools[t].st = "waiting" /\ approvals[a].st = "rejected" => TurnedDown(t, approvals)
        BY <4>2 DEF TurnedDown
      <4>. QED
        BY <4>1, <4>2, <4>3
    <3>. HIDE DEF later
    <3>6. proc'[p].tools = later
      BY <3>1 DEF later
    <3>7. Justified(proc'[p].tools, approvals') /\ Judged(p)'
      BY <1>0, <3>2, <3>5, <3>6 DEF Justified, Judged, Tool
    <3>. QED
      BY <2>3, <2>4, <3>2, <3>7
  <2>8. CASE Handles(p)
    <3>1. stored' = stored /\ approvals' = approvals /\ Judged(p)
      BY <2>3, <2>8 DEF Handles
    <3>2. PICK t \in Tools : Settles(p, t) /\ (Runs(p, t) \/ Rejects(p, t) \/ Accepts(p, t))
      BY <2>8 DEF Handles
    <3>3. Tool(p, t)'.confirmed = "no" => Tool(p, t).confirmed = "no"
      <4>1. CASE Runs(p, t) \/ Accepts(p, t)
        BY <4>1 DEF Runs, Accepts
      <4>2. CASE Rejects(p, t)
        BY <3>1, <3>2, <4>2 DEF Rejects, Settles, Judged
      <4>. QED
        BY <3>2, <4>1, <4>2
    <3>4. ASSUME NEW u \in Tools
          PROVE  /\ Tool(p, u)'.confirmed = "no" => Tool(p, u).confirmed = "no"
                 /\ Tool(p, u)'.st = "waiting" => Tool(p, u)' = Tool(p, u)
      <4>1. CASE u = t
        BY <3>2, <3>3, <4>1 DEF Settles
      <4>2. CASE u # t
        BY <3>2, <4>2 DEF Settles
      <4>. QED
        BY <4>1, <4>2
    <3>5. Justified(proc'[p].tools, approvals')
      BY <2>3, <3>1, <3>4 DEF Justified, Tool
    <3>6. Judged(p)'
      BY <1>0, <3>1, <3>4 DEF Judged
    <3>. QED
      BY <2>3, <2>4, <3>1, <3>5, <3>6
  <2>9. CASE Calls(p) \/ Creates(p)
    <3>1. stored' = stored /\ proc'[p].pc # "handle"
      BY <2>9 DEF Calls, Creates
    <3>2. ASSUME NEW t \in Tools
          PROVE  Tool(p, t)'.confirmed = Tool(p, t).confirmed
      BY <2>9 DEF Calls, Creates
    <3>3. Justified(proc'[p].tools, approvals)
      BY <2>3, <3>2 DEF Justified, Tool
    <3>. QED
      BY <1>3, <2>3, <2>4, <3>1, <3>3
  <2>. QED
    BY <2>1, <2>5, <2>6, <2>7, <2>8, <2>9, <2>10 DEF Moves, Fails
<1>. QED
  BY <1>1, <1>4, <1>5, NextMoves

(* A call that was turned down was turned down by a reviewer, on the first     *)
(* attempt of a run that has paused once.                                    *)
THEOREM TurnedDownIsMeant == Spec => []TurnedDownByVerdict
<1>1. Init => TurnedInv
  <2>. SUFFICES ASSUME Init PROVE TurnedInv
    OBVIOUS
  <2>1. stored.tools = NotCalled /\ \A p \in Procs : proc[p].tools = NotCalled /\ proc[p].pc # "handle"
    BY DEF Init, Idle
  <2>2. Justified(NotCalled, approvals)
    BY DEF NotCalled, Justified
  <2>. QED
    BY <2>1, <2>2 DEF TurnedInv
<1>2. TypeInv /\ FirstInv /\ TurnedInv /\ [Next]_vars => TurnedInv'
  BY TurnedStep
<1>3. TurnedInv => TurnedDownByVerdict
  BY DEF TurnedInv, TurnedDownByVerdict, Justified, TurnedDown
<1>. QED
  BY <1>1, <1>2, <1>3, TypeInvariant, FirstInvariant, PTL DEF Spec

=============================================================================
