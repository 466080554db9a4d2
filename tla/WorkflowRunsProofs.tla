------------------------- MODULE WorkflowRunsProofs -------------------------
(* Proofs about WorkflowRuns, for any number of steps, settings and legs. *)
EXTENDS WorkflowRuns, SequenceTheorems, FiniteSetTheorems, TLAPS

-----------------------------------------------------------------------------
(* Sequences. *)

LEMMA ButLastType ==
    ASSUME NEW S, NEW seq \in Seq(S), seq # <<>>
    PROVE  /\ ButLast(seq) \in Seq(S)
           /\ Len(ButLast(seq)) = Len(seq) - 1
           /\ \A k \in 1..Len(seq) - 1 : ButLast(seq)[k] = seq[k]
<1>. DEFINE n == Len(seq) - 1
            front == SubSeq(seq, 1, n)
<1>1. n \in Nat /\ n = Len(seq) - 1 /\ \A k \in 1..n : seq[k] \in S
  OBVIOUS
<1>. HIDE DEF n
<1>2. 1 \in Int /\ n \in Int
  BY <1>1
<1>3. /\ front \in Seq(S)
      /\ Len(front) = IF 1 <= n THEN n - 1 + 1 ELSE 0
      /\ \A k \in 1..n - 1 + 1 : front[k] = seq[1 + k - 1]
  BY <1>1, <1>2, SubSeqProperties
<1>. HIDE DEF front
<1>4. Len(front) = n
  BY <1>1, <1>3
<1>5. ASSUME NEW k \in 1..n
      PROVE  front[k] = seq[k]
  <2>1. k \in 1..n - 1 + 1 /\ 1 + k - 1 = k
    BY <1>1
  <2>. QED
    BY <1>3, <2>1
<1>6. ButLast(seq) = front
  BY DEF ButLast, front, n
<1>. QED
  BY <1>1, <1>3, <1>4, <1>5, <1>6

LEMMA LastType ==
    ASSUME NEW S, NEW seq \in Seq(S), seq # <<>>
    PROVE  LastOf(seq) \in S /\ Len(seq) \in Nat \ {0}
  BY DEF LastOf

(* The last element is replaced by another one. *)
LEMMA ReplaceLast ==
    ASSUME NEW S, NEW seq \in Seq(S), seq # <<>>, NEW e \in S
    PROVE  LET new == Append(ButLast(seq), e) IN
           /\ new \in Seq(S)
           /\ new # <<>>
           /\ Len(new) = Len(seq)
           /\ LastOf(new) = e
           /\ \A k \in 1..Len(seq) - 1 : new[k] = seq[k]
<1>. DEFINE front == ButLast(seq)
<1>1. front \in Seq(S) /\ Len(front) = Len(seq) - 1 /\ \A k \in 1..Len(seq) - 1 : front[k] = seq[k]
  BY ButLastType
<1>2. Len(seq) \in Nat \ {0}
  BY LastType
<1>. HIDE DEF front
<1>3. /\ Append(front, e) \in Seq(S)
      /\ Append(front, e) # <<>>
      /\ Len(Append(front, e)) = Len(seq)
      /\ LastOf(Append(front, e)) = e
      /\ \A k \in 1..Len(seq) - 1 : Append(front, e)[k] = seq[k]
  BY <1>1, <1>2 DEF LastOf
<1>. QED
  BY <1>3 DEF front

LEMMA AppendType ==
    ASSUME NEW S, NEW seq \in Seq(S), NEW e \in S
    PROVE  /\ Append(seq, e) \in Seq(S)
           /\ Append(seq, e) # <<>>
           /\ Len(Append(seq, e)) = Len(seq) + 1
           /\ LastOf(Append(seq, e)) = e
           /\ \A k \in 1..Len(seq) : Append(seq, e)[k] = seq[k]
  BY DEF LastOf

LEMMA EmptyType ==
    ASSUME NEW S
    PROVE  <<>> \in Seq(S)
  OBVIOUS

-----------------------------------------------------------------------------
(* Types of the parts. *)

LEMMA SettingsType ==
    ASSUME TypeOK, NEW s \in Steps
    PROVE  steps[s] \in SettingType
  BY WorkflowRunsAssumption DEF TypeOK

LEMMA NoRunType == NoRun \in Run
<1>1. 0 \in 0..N
  BY WorkflowRunsAssumption
<1>2. NoRun.past \in Past
  BY DEF NoRun, Past
<1>3. <<>> \in Seq(Requirement) /\ <<>> \in Seq(Output)
  BY EmptyType
<1>. QED
  BY <1>1, <1>2, <1>3 DEF NoRun, Run

LEMMA NoLegType == NoLeg \in Leg
<1>1. 1 \in 1..(N + 1)
  BY WorkflowRunsAssumption
<1>2. NoRun \in Run /\ <<>> \in Seq(Output) /\ 0 \in 0..(N + 1) /\ 0 \in 0..N
  BY NoRunType, EmptyType, WorkflowRunsAssumption
<1>. QED
  BY <1>1, <1>2 DEF NoLeg, Leg

(* What a human answers, and what a timeout makes of it, to a paused run. *)
SameButAnswer(run, other) ==
    /\ other \in Run
    /\ other.status = run.status /\ other.at = run.at /\ other.results = run.results
    /\ other.past = run.past
    /\ (other.reqs = <<>>) <=> (run.reqs = <<>>)

LEMMA WithLastType ==
    ASSUME NEW run \in Run, run.reqs # <<>>, NEW req \in Requirement
    PROVE  /\ SameButAnswer(run, WithLast(run, req))
           /\ WithLast(run, req).err = run.err
           /\ LastOf(WithLast(run, req).reqs) = req
           /\ Len(WithLast(run, req).reqs) = Len(run.reqs)
           /\ \A k \in 1..Len(run.reqs) - 1 : WithLast(run, req).reqs[k] = run.reqs[k]
<1>. DEFINE new == Append(ButLast(run.reqs), req)
<1>1. /\ new \in Seq(Requirement) /\ new # <<>> /\ Len(new) = Len(run.reqs) /\ LastOf(new) = req
      /\ \A k \in 1..Len(run.reqs) - 1 : new[k] = run.reqs[k]
  <2>1. run.reqs \in Seq(Requirement)
    BY DEF Run
  <2>. QED
    BY <2>1, ReplaceLast
<1>2. WithLast(run, req) = [run EXCEPT !.reqs = new]
  BY DEF WithLast
<1>. HIDE DEF new
<1>3. WithLast(run, req) \in Run
  BY <1>1, <1>2 DEF Run
<1>. QED
  BY <1>1, <1>2, <1>3 DEF SameButAnswer, Run

LEMMA AnswersType ==
    ASSUME TypeOK, row.status = "paused", NEW run \in Answers(row)
    PROVE  /\ SameButAnswer(row, run)
           /\ row.err = "open" => run.err \in {"retry", "skip"} /\ run.reqs = row.reqs
           /\ row.err # "open" =>
                 /\ run.err = row.err
                 /\ \E req \in Decided(LastOf(row.reqs)) : run = WithLast(row, req)
<1>1. row \in Run
  BY DEF TypeOK
<1>2. CASE row.err = "open"
  <2>1. PICK decision \in {"retry", "skip"} : run = [row EXCEPT !.err = decision]
    BY <1>2 DEF Answers
  <2>2. run \in Run
    BY <1>1, <2>1 DEF Run
  <2>. QED
    BY <1>1, <1>2, <2>1, <2>2 DEF SameButAnswer, Run
<1>3. CASE row.err # "open"
  <2>1. PICK req \in Decided(LastOf(row.reqs)) : run = WithLast(row, req)
    BY <1>3 DEF Answers
  <2>2. row.reqs # <<>>
    BY <1>3 DEF TypeOK
  <2>3. LastOf(row.reqs) \in Requirement
    <3>1. row.reqs \in Seq(Requirement)
      BY <1>1 DEF Run
    <3>. QED
      BY <2>2, <3>1, LastType
  <2>4. req \in Requirement
    BY <2>3 DEF Decided, Requirement
  <2>. QED
    BY <1>1, <1>3, <2>1, <2>2, <2>4, WithLastType
<1>. QED
  BY <1>2, <1>3

LEMMA OnTimeType ==
    ASSUME TypeOK, NEW old \in Requirement, NEW req \in OnTime(old)
    PROVE  /\ req \in Requirement
           /\ req.step = old.step /\ req.kind = old.kind /\ req.retries = old.retries
           /\ old.verdict # "open" => req.verdict # "open"
           /\ old.kind \in {"input", "executor"} => req = old
<1>. DEFINE action == steps[old.step].onTimeout
<1>1. old.step \in Steps
  BY DEF Requirement
<1>2. action \in {"never", "approve", "skip", "cancel"}
  BY <1>1, SettingsType DEF SettingType
<1>. HIDE DEF action
<1>3. \/ req = old
      \/ /\ old.kind \in {"confirm", "review"}
         /\ \/ req = [old EXCEPT !.verdict = "yes"]
            \/ action \in {"skip", "cancel"} /\ req = [old EXCEPT !.verdict = "no", !.onReject = action]
  <2>1. OnTime(old) =
            {old} \cup (IF old.kind \notin {"confirm", "review"} \/ action = "never" THEN {}
                        ELSE IF action = "approve" THEN {[old EXCEPT !.verdict = "yes"]}
                        ELSE {[old EXCEPT !.verdict = "no", !.onReject = action]})
    BY DEF OnTime, action
  <2>2. old.kind \in {"confirm", "input", "review", "executor"}
    BY DEF Requirement
  <2>. QED
    BY <1>2, <2>1, <2>2
<1>4. CASE req = old
  BY <1>4
<1>5. CASE old.kind \in {"confirm", "review"} /\ req = [old EXCEPT !.verdict = "yes"]
  BY <1>5 DEF Requirement
<1>6. CASE /\ old.kind \in {"confirm", "review"} /\ action \in {"skip", "cancel"}
           /\ req = [old EXCEPT !.verdict = "no", !.onReject = action]
  BY <1>6 DEF Requirement, OnReject
<1>. QED
  BY <1>3, <1>4, <1>5, <1>6

(* The run that acontinue_run goes on with, compared with the row. *)
LEMMA AnsweredType ==
    ASSUME TypeOK, row.status = "paused", NEW answered \in Answers(row), NEW run \in Timely(answered)
    PROVE  /\ SameButAnswer(row, run)
           /\ row.err = "open" => run.err \in {"retry", "skip"}
           /\ row.err # "open" => run.err = row.err /\ row.reqs # <<>>
           /\ Len(run.reqs) = Len(row.reqs)
           /\ \A k \in 1..Len(row.reqs) - 1 : run.reqs[k] = row.reqs[k]
           /\ row.reqs # <<>> =>
                 /\ LastOf(run.reqs) \in Requirement
                 /\ LastOf(run.reqs).step = LastOf(row.reqs).step
                 /\ LastOf(run.reqs).kind = LastOf(row.reqs).kind
                 /\ LastOf(run.reqs).retries = LastOf(row.reqs).retries
                 /\ row.err # "open" =>
                       /\ LastOf(run.reqs).verdict # "open"
                       /\ LastOf(row.reqs).kind \in {"input", "executor"} =>
                             LastOf(run.reqs).verdict = "yes"
<1>. DEFINE old == LastOf(row.reqs)
            mid == LastOf(answered.reqs)
            new == LastOf(run.reqs)
<1>1. row \in Run /\ row.reqs \in Seq(Requirement) /\ (row.reqs # <<>> => old \in Requirement)
  <2>1. row \in Run /\ row.reqs \in Seq(Requirement)
    BY DEF TypeOK, Run
  <2>. QED
    BY <2>1, LastType
<1>2. row.err # "open" => row.reqs # <<>>
  BY DEF TypeOK
<1>. HIDE DEF old, mid, new
<1>3. /\ SameButAnswer(row, answered)
      /\ row.err = "open" => answered.err \in {"retry", "skip"}
      /\ row.err # "open" => answered.err = row.err
      /\ Len(answered.reqs) = Len(row.reqs)
      /\ \A k \in 1..Len(row.reqs) - 1 : answered.reqs[k] = row.reqs[k]
      /\ row.reqs # <<>> =>
            /\ mid \in Requirement
            /\ mid.step = old.step /\ mid.kind = old.kind /\ mid.retries = old.retries
            /\ row.err # "open" =>
                  mid.verdict # "open" /\ (old.kind \in {"input", "executor"} => mid.verdict = "yes")
  <2>1. CASE row.err = "open"
    <3>1. /\ SameButAnswer(row, answered)
          /\ answered.err \in {"retry", "skip"} /\ answered.reqs = row.reqs
      BY <2>1, AnswersType
    <3>. QED
      BY <1>1, <2>1, <3>1 DEF mid, old
  <2>2. CASE row.err # "open"
    <3>1. PICK req \in Decided(old) : answered = WithLast(row, req)
      BY <2>2, AnswersType DEF old
    <3>2. SameButAnswer(row, answered) /\ answered.err = row.err
      BY <2>2, AnswersType
    <3>3. /\ req \in Requirement
          /\ req.step = old.step /\ req.kind = old.kind /\ req.retries = old.retries
          /\ req.verdict # "open"
          /\ old.kind \in {"input", "executor"} => req.verdict = "yes"
      <4>1. old \in Requirement
        BY <1>1, <1>2, <2>2
      <4>2. \/ req = [old EXCEPT !.verdict = "yes"]
            \/ old.kind \in {"confirm", "review"} /\ req = [old EXCEPT !.verdict = "no"]
            \/ old.kind = "review" /\ req = [old EXCEPT !.verdict = "yes", !.edited = TRUE]
        BY <3>1 DEF Decided
      <4>. QED
        BY <4>1, <4>2 DEF Requirement
    <3>4. /\ mid = req /\ Len(answered.reqs) = Len(row.reqs)
          /\ \A k \in 1..Len(row.reqs) - 1 : answered.reqs[k] = row.reqs[k]
      BY <1>1, <1>2, <2>2, <3>1, <3>3, WithLastType DEF mid
    <3>. QED
      BY <2>2, <3>2, <3>3, <3>4
  <2>. QED
    BY <2>1, <2>2
<1>4. CASE answered.reqs = <<>>
  <2>1. run = answered /\ row.reqs = <<>>
    BY <1>3, <1>4 DEF Timely, SameButAnswer
  <2>. QED
    BY <1>2, <1>3, <2>1
<1>5. CASE answered.reqs # <<>>
  <2>1. PICK req \in OnTime(mid) : run = WithLast(answered, req)
    BY <1>5 DEF Timely, mid
  <2>2. answered \in Run /\ row.reqs # <<>>
    BY <1>3, <1>5 DEF SameButAnswer
  <2>3. /\ req \in Requirement
        /\ req.step = mid.step /\ req.kind = mid.kind /\ req.retries = mid.retries
        /\ mid.verdict # "open" => req.verdict # "open"
        /\ mid.kind \in {"input", "executor"} => req = mid
    BY <1>3, <2>1, <2>2, OnTimeType
  <2>4. /\ SameButAnswer(answered, run) /\ run.err = answered.err
        /\ new = req /\ Len(run.reqs) = Len(answered.reqs)
        /\ \A k \in 1..Len(answered.reqs) - 1 : run.reqs[k] = answered.reqs[k]
    BY <1>5, <2>1, <2>2, <2>3, WithLastType DEF new
  <2>5. SameButAnswer(row, run)
    BY <1>3, <2>4 DEF SameButAnswer
  <2>. QED
    BY <1>2, <1>3, <2>2, <2>3, <2>4, <2>5 DEF new, old
<1>. QED
  BY <1>4, <1>5

-----------------------------------------------------------------------------
(* Type correctness. *)

LEMMA PausedAtType ==
    ASSUME TypeOK, leg.i \in Steps, NEW outputs \in Seq(Output)
    PROVE  LET run == PausedAt(leg.i, outputs) IN
           /\ run \in Run
           /\ run.status = "paused" /\ run.at = leg.i
           /\ run.reqs = leg.run.reqs /\ run.err = leg.run.err /\ run.past = leg.run.past
           /\ run.results = outputs
<1>1. leg.run \in Run /\ leg.i \in 0..N
  BY DEF TypeOK, Leg, Steps
<1>2. PausedAt(leg.i, outputs) = [leg.run EXCEPT !.status = "paused", !.at = leg.i, !.results = outputs]
  BY DEF PausedAt
<1>. QED
  BY <1>1, <1>2 DEF Run

LEMMA PausedType ==
    ASSUME TypeOK, leg.i \in Steps, NEW outputs \in Seq(Output), NEW retries \in Nat,
           NEW kind \in {"confirm", "input", "review", "executor"}
    PROVE  LET run == Paused(kind, outputs, retries) IN
           /\ run \in Run
           /\ run.status = "paused" /\ run.at = leg.i
           /\ run.reqs # <<>> /\ Len(run.reqs) = Len(leg.run.reqs) + 1
           /\ \A k \in 1..Len(leg.run.reqs) : run.reqs[k] = leg.run.reqs[k]
           /\ LastOf(run.reqs).step = leg.i /\ LastOf(run.reqs).kind = kind
           /\ LastOf(run.reqs).verdict = "open" /\ LastOf(run.reqs).retries = retries
           /\ run.err = leg.run.err /\ run.past = leg.run.past
           /\ run.results = outputs
<1>. DEFINE policy == IF kind = "executor" THEN "cancel" ELSE steps[leg.i].onReject
            req == [step |-> leg.i, kind |-> kind, verdict |-> "open", edited |-> FALSE,
                    onReject |-> policy, retries |-> retries]
            base == PausedAt(leg.i, outputs)
            new == Append(base.reqs, req)
<1>1. policy \in OnReject
  BY SettingsType DEF SettingType, OnReject
<1>. HIDE DEF policy
<1>2. /\ req \in Requirement
      /\ req.step = leg.i /\ req.kind = kind /\ req.verdict = "open" /\ req.retries = retries
  BY <1>1 DEF Requirement
<1>3. /\ base \in Run
      /\ base.status = "paused" /\ base.at = leg.i
      /\ base.reqs = leg.run.reqs /\ base.err = leg.run.err /\ base.past = leg.run.past
      /\ base.results = outputs
  BY PausedAtType
<1>4. Paused(kind, outputs, retries) = [base EXCEPT !.reqs = new]
  BY DEF Paused, policy
<1>. HIDE DEF req, base
<1>5. base.reqs \in Seq(Requirement)
  BY <1>3 DEF Run
<1>6. /\ new \in Seq(Requirement) /\ new # <<>> /\ Len(new) = Len(base.reqs) + 1
      /\ LastOf(new) = req /\ \A k \in 1..Len(base.reqs) : new[k] = base.reqs[k]
  BY <1>2, <1>5, AppendType
<1>. HIDE DEF new
<1>7. [base EXCEPT !.reqs = new] \in Run
  BY <1>3, <1>6 DEF Run
<1>8. /\ [base EXCEPT !.reqs = new].reqs = new
      /\ [base EXCEPT !.reqs = new].status = base.status
      /\ [base EXCEPT !.reqs = new].at = base.at
      /\ [base EXCEPT !.reqs = new].err = base.err
      /\ [base EXCEPT !.reqs = new].past = base.past
      /\ [base EXCEPT !.reqs = new].results = base.results
  BY <1>3 DEF Run
<1>. QED
  BY <1>2, <1>3, <1>4, <1>6, <1>7, <1>8

(* A run that may be stored; one that waits for a review has the output. *)
Storable(run) ==
    /\ run \in Run
    /\ run.status = "paused" =>
          /\ run.at \in Steps
          /\ run.err \in {"none", "open"}
          /\ run.err = "open" \/ run.reqs # <<>>
          /\ run.err = "none" /\ ActiveKind(run, "review") => run.results # <<>>

(* The type invariant, strengthened to be inductive: the errors of a run are  *)
(* answered before a leg goes on with it.                                    *)
TypeInv ==
    /\ TypeOK
    /\ Storable(row)
    /\ leg.pc \in {"launch", "head", "exec"} => leg.run.err = "none" /\ leg.run.status # "paused"

LEMMA EndLegType ==
    ASSUME TypeInv, NEW run, Storable(run), EndLeg(run), UNCHANGED <<steps, intent, legs, takes, seen>>
    PROVE  TypeInv'
<1>1. row' = run /\ (leg' = NoLeg \/ leg' = [NoLeg EXCEPT !.pc = "cleanup", !.run = run])
  BY DEF EndLeg
<1>2. leg' \in Leg /\ leg'.pc \in {"none", "cleanup"}
  <2>1. NoLeg \in Leg /\ NoLeg.pc = "none"
    BY NoLegType DEF NoLeg
  <2>2. run \in Run
    BY DEF Storable
  <2>. QED
    BY <1>1, <2>1, <2>2 DEF Leg
<1>3. TypeOK'
  BY <1>1, <1>2 DEF TypeInv, TypeOK, Storable
<1>. QED
  BY <1>1, <1>2, <1>3 DEF TypeInv, Storable, ActiveKind

(* A step of a leg that goes on. *)
LEMMA LegType ==
    ASSUME TypeInv, leg' \in Leg, leg'.pc = "exec" => leg'.i \in Steps,
           leg'.run = leg.run, leg'.pc \in {"head", "exec"}, leg.pc \in {"head", "exec"},
           UNCHANGED <<steps, row, intent, legs, seen>>, takes' \in [Steps -> Nat]
    PROVE  TypeInv'
<1>1. TypeOK'
  BY DEF TypeInv, TypeOK
<1>. QED
  BY <1>1 DEF TypeInv, Storable, ActiveKind

LEMMA NewOutputType ==
    ASSUME TypeOK, leg.i \in Steps, NEW stop \in BOOLEAN
    PROVE  /\ NewOutput(stop) \in Output
           /\ NewOutput(stop).step = leg.i /\ NewOutput(stop).stop = stop
           /\ NewOutput(stop).take = takes[leg.i]
           /\ Append(leg.collected, NewOutput(stop)) \in Seq(Output)
           /\ Append(leg.collected, NewOutput(stop)) # <<>>
           /\ LastOf(Append(leg.collected, NewOutput(stop))) = NewOutput(stop)
           /\ Len(Append(leg.collected, NewOutput(stop))) = Len(leg.collected) + 1
           /\ \A k \in 1..Len(leg.collected) :
                 Append(leg.collected, NewOutput(stop))[k] = leg.collected[k]
<1>1. 0 \in 0..N /\ takes[leg.i] \in Nat
  BY WorkflowRunsAssumption DEF TypeOK
<1>2. /\ NewOutput(stop) \in Output
      /\ NewOutput(stop).step = leg.i /\ NewOutput(stop).stop = stop
      /\ NewOutput(stop).take = takes[leg.i]
  BY <1>1 DEF NewOutput, Output
<1>3. leg.collected \in Seq(Output)
  BY DEF TypeOK, Leg
<1>. QED
  BY <1>2, <1>3, AppendType

LEMMA EditedType ==
    ASSUME NEW run \in Run, NEW results \in Edited(run)
    PROVE  /\ results \in Seq(Output)
           /\ Len(results) = Len(run.results)
           /\ \A k \in 1..Len(results) : /\ results[k].step = run.results[k].step
                                         /\ results[k].take = run.results[k].take
                                         /\ results[k].stop = run.results[k].stop
<1>1. run.results \in Seq(Output) /\ run.reqs \in Seq(Requirement)
  BY DEF Run
<1>2. CASE results = run.results
  BY <1>1, <1>2
<1>3. CASE /\ run.results # <<>>
           /\ results \in {[run.results EXCEPT ![Len(run.results)].edit = run.reqs[k].step] :
                              k \in {k \in Edits(run) : \A j \in Edits(run) : k <= j}}
  <2>1. PICK k \in Edits(run) : results = [run.results EXCEPT ![Len(run.results)].edit = run.reqs[k].step]
    BY <1>3
  <2>. DEFINE n == Len(run.results)
              s == run.reqs[k].step
              out == [run.results[n] EXCEPT !.edit = s]
  <2>2. s \in 0..N
    <3>1. run.reqs[k] \in Requirement
      BY <1>1, <2>1 DEF Edits
    <3>. QED
      BY <3>1 DEF Requirement, Steps
  <2>3. n \in 1..Len(run.results) /\ run.results[n] \in Output
    BY <1>1, <1>3
  <2>. HIDE DEF s, n
  <2>4. /\ out \in Output /\ out.step = run.results[n].step /\ out.take = run.results[n].take
        /\ out.stop = run.results[n].stop
    BY <2>2, <2>3 DEF Output
  <2>5. results = [run.results EXCEPT ![n] = out]
    BY <2>1 DEF s, n
  <2>. HIDE DEF out
  <2>6. /\ results \in Seq(Output) /\ Len(results) = Len(run.results)
        /\ \A j \in 1..Len(run.results) : results[j] = IF j = n THEN out ELSE run.results[j]
    BY <1>1, <2>3, <2>4, <2>5, ExceptSeq
  <2>. QED
    BY <2>4, <2>6
<1>. QED
  BY <1>2, <1>3 DEF Edited

LEMMA StartIndexType ==
    ASSUME NEW run \in Run, run.at \in Steps
    PROVE  /\ StartIndex(run) \in 1..(N + 1)
           /\ StartIndex(run) = run.at \/ StartIndex(run) = run.at + 1
  BY WorkflowRunsAssumption DEF StartIndex, Steps

LEMMA NotedType ==
    ASSUME NEW run \in Run, run.at \in Steps,
           run.err = "none" /\ ActiveKind(run, "review") => run.results # <<>>
    PROVE  Noted(run) \in Past
<1>. DEFINE turnedDown == /\ run.err = "none" /\ ActiveKind(run, "review")
                          /\ LastOf(run.reqs).verdict = "no"
            output == LastOf(run.results)
            skipped == run.past.skipped
                       \cup (IF Rejected(run, "skip") \/ run.err = "skip" THEN {run.at} ELSE {})
            rejected == run.past.rejected
                        \cup (IF turnedDown THEN {<<output.step, output.take>>} ELSE {})
            stale == run.past.stale \/ (run.err # "none" /\ run.reqs # <<>>)
<1>1. run.past \in Past
  BY DEF Run
<1>2. skipped \in SUBSET Steps
  BY <1>1 DEF Past
<1>3. rejected \in SUBSET (Steps \X Nat)
  <2>1. turnedDown => output \in Output
    <3>1. run.results \in Seq(Output)
      BY DEF Run
    <3>. QED
      BY <3>1, LastType
  <2>2. turnedDown => output.step \in Steps /\ output.take \in Nat
    BY <2>1 DEF Output
  <2>. QED
    BY <1>1, <2>2 DEF Past
<1>4. stale \in BOOLEAN
  OBVIOUS
<1>5. Noted(run) = [stale |-> stale, skipped |-> skipped, rejected |-> rejected]
  BY DEF Noted
<1>. QED
  BY <1>2, <1>3, <1>4, <1>5 DEF Past

(* What the leg that continues a run starts with. *)
LEMMA ResumeType ==
    ASSUME NEW run \in Run, run.at \in Steps,
           run.err = "none" /\ ActiveKind(run, "review") => run.results # <<>>,
           NEW results \in Edited(run), Resume(run, results)
    PROVE  /\ leg' \in Leg
           /\ leg'.pc = "head" /\ leg'.i = StartIndex(run) /\ leg'.start = StartIndex(run)
           /\ leg'.resolved = run.at
           /\ leg'.executor = IF ActiveKind(run, "executor") THEN LastOf(run.reqs).step ELSE 0
           /\ leg'.retries = IF Rejected(run, "retry") THEN LastOf(run.reqs).retries + 1 ELSE 0
           /\ leg'.collected = IF RemoveLast(run) /\ results # <<>> THEN ButLast(results) ELSE results
           /\ leg'.run.status = "running" /\ leg'.run.err = "none" /\ leg'.run.reqs = run.reqs
           /\ leg'.run.past = Noted(run) /\ leg'.run.results = results
           /\ row' = row
<1>. DEFINE start == StartIndex(run)
            new == [run EXCEPT !.status = "running", !.err = "none", !.results = results,
                               !.past = Noted(run)]
            executor == IF ActiveKind(run, "executor") THEN LastOf(run.reqs).step ELSE 0
            retries == IF Rejected(run, "retry") THEN LastOf(run.reqs).retries + 1 ELSE 0
            collected == IF RemoveLast(run) /\ results # <<>> THEN ButLast(results) ELSE results
<1>1. start \in 1..(N + 1) /\ start \in 0..(N + 1)
  BY StartIndexType, WorkflowRunsAssumption
<1>2. Noted(run) \in Past /\ results \in Seq(Output)
  BY NotedType, EditedType
<1>3. /\ new \in Run
      /\ new.status = "running" /\ new.err = "none" /\ new.reqs = run.reqs
      /\ new.past = Noted(run) /\ new.results = results
  BY <1>2 DEF Run
<1>4. run.reqs # <<>> => LastOf(run.reqs).step \in Steps /\ LastOf(run.reqs).retries \in Nat
  <2>1. run.reqs \in Seq(Requirement)
    BY DEF Run
  <2>2. run.reqs # <<>> => LastOf(run.reqs) \in Requirement
    BY <2>1, LastType
  <2>. QED
    BY <2>2 DEF Requirement
<1>5. executor \in 0..N /\ retries \in Nat
  BY <1>4, WorkflowRunsAssumption DEF ActiveKind, Rejected, Steps
<1>6. collected \in Seq(Output)
  BY <1>2, ButLastType
<1>7. NoLeg \in Leg /\ run.at \in 0..N
  BY NoLegType DEF Steps
<1>8. leg' = [NoLeg EXCEPT !.pc = "head", !.run = new, !.i = start, !.start = start, !.resolved = run.at,
                           !.executor = executor, !.retries = retries, !.collected = collected]
  BY DEF Resume, ResolvedStep
<1>9. row' = row
  BY DEF Resume
<1>. HIDE DEF start, new, executor, retries, collected
<1>10. /\ leg' \in Leg
       /\ leg'.pc = "head" /\ leg'.i = start /\ leg'.start = start /\ leg'.resolved = run.at
       /\ leg'.executor = executor /\ leg'.retries = retries /\ leg'.collected = collected
       /\ leg'.run = new
  BY <1>1, <1>3, <1>5, <1>6, <1>7, <1>8 DEF Leg
<1>. QED
  BY <1>3, <1>9, <1>10 DEF start, executor, retries, collected

LEMMA InitTypeInv ==
    ASSUME Init
    PROVE  TypeInv
<1>1. NoRun \in Run /\ NoLeg \in Leg /\ NoRun.status = "absent" /\ NoLeg.pc = "none"
  BY NoRunType, NoLegType DEF NoRun, NoLeg
<1>2. NoTakes \in [Steps -> Nat]
  BY DEF NoTakes
<1>3. seen \in [asked : BOOLEAN, then : [Steps -> Nat]]
  BY <1>2 DEF Init
<1>4. 0 \in 0..MaxLegs
  BY WorkflowRunsAssumption
<1>. QED
  BY <1>1, <1>2, <1>3, <1>4 DEF Init, TypeInv, TypeOK, Storable

LEMMA NextTypeInv ==
    ASSUME TypeInv, Next
    PROVE  TypeInv'
<1>. USE DEF TypeInv
<1>1. /\ leg \in Leg /\ leg.run \in Run /\ row \in Run /\ leg.collected \in Seq(Output)
      /\ leg.retries \in Nat /\ takes \in [Steps -> Nat]
  BY DEF TypeOK, Leg
<1>2. ASSUME NEW background \in BOOLEAN, Start(background)
      PROVE  TypeInv'
  <2>. DEFINE run == [NoRun EXCEPT !.status = IF background THEN "pending" ELSE "running"]
  <2>1. run \in Run /\ run.status \in {"pending", "running"} /\ run.err = "none"
    BY NoRunType DEF Run, NoRun
  <2>. HIDE DEF run
  <2>2. /\ row' = IF background THEN run ELSE row
        /\ leg' = [NoLeg EXCEPT !.pc = "launch", !.run = run, !.first = TRUE, !.background = background]
        /\ legs' = 1 /\ legs < MaxLegs
        /\ UNCHANGED <<steps, intent, takes, seen>>
    BY <1>2 DEF Start, run
  <2>3. leg' \in Leg /\ leg'.pc = "launch" /\ leg'.run = run
    BY <2>1, <2>2, NoLegType DEF Leg
  <2>4. 1 \in 0..MaxLegs
    BY <2>2, WorkflowRunsAssumption DEF TypeOK
  <2>. QED
    BY <2>1, <2>2, <2>3, <2>4 DEF TypeOK, Storable, ActiveKind
<1>3. CASE Launch
  <2>. DEFINE run == [leg.run EXCEPT !.status = "running"]
  <2>1. run \in Run /\ run.status = "running" /\ run.err = "none"
    BY <1>1, <1>3 DEF Run, Launch
  <2>. HIDE DEF run
  <2>2. /\ row' = IF leg.background THEN run ELSE row
        /\ leg' = [leg EXCEPT !.pc = "head", !.run = run]
        /\ intent' = Registered
        /\ UNCHANGED <<steps, legs, takes, seen>>
    BY <1>3 DEF Launch, run
  <2>3. leg' \in Leg /\ leg'.pc = "head" /\ leg'.run = run
    BY <1>1, <2>1, <2>2 DEF Leg
  <2>4. intent' \in {"none", "registered", "cancelled"}
    BY <2>2 DEF Registered, TypeOK
  <2>. QED
    BY <2>1, <2>2, <2>3, <2>4 DEF TypeOK, Storable, ActiveKind
<1>4. CASE Continue
  <2>1. /\ row.status = "paused" /\ legs' \in 0..MaxLegs
        /\ UNCHANGED <<steps, intent, takes, seen>>
    BY <1>4, WorkflowRunsAssumption DEF Continue, TypeOK
  <2>2. PICK answered \in Answers(row) :
           \E run \in Timely(answered) : (\E results \in Edited(run) : Resume(run, results)) \/ GiveUp(run)
    BY <1>4 DEF Continue
  <2>3. PICK run \in Timely(answered) : (\E results \in Edited(run) : Resume(run, results)) \/ GiveUp(run)
    BY <2>2
  <2>4. /\ SameButAnswer(row, run)
        /\ row.err = "open" => run.err \in {"retry", "skip"}
        /\ row.err # "open" => run.err = row.err
        /\ row.reqs # <<>> => LastOf(run.reqs).kind = LastOf(row.reqs).kind
    BY <2>1, AnsweredType
  <2>5. /\ run \in Run /\ run.at \in Steps
        /\ run.err = "none" /\ ActiveKind(run, "review") => run.results # <<>>
    BY <2>1, <2>4 DEF SameButAnswer, Storable, ActiveKind
  <2>6. ASSUME NEW results \in Edited(run), Resume(run, results)
        PROVE  TypeInv'
    <3>1. /\ leg' \in Leg /\ leg'.pc = "head" /\ leg'.run.status = "running" /\ leg'.run.err = "none"
          /\ row' = row
      BY <2>5, <2>6, ResumeType
    <3>. QED
      BY <2>1, <3>1 DEF TypeOK, Storable, ActiveKind
  <2>7. CASE GiveUp(run)
    <3>1. row' \in Run /\ row'.status = "cancelled" /\ leg' = leg
      BY <2>5, <2>7 DEF GiveUp, Run
    <3>. QED
      BY <2>1, <3>1 DEF TypeOK, Storable, ActiveKind
  <2>. QED
    BY <2>3, <2>6, <2>7
<1>5. CASE Finish
  <2>. DEFINE run == [leg.run EXCEPT !.status = "completed", !.at = 0, !.results = leg.collected]
  <2>1. run \in Run /\ run.status = "completed"
    <3>1. 0 \in 0..N
      BY WorkflowRunsAssumption
    <3>. QED
      BY <1>1, <3>1 DEF Run
  <2>2. EndLeg(run) /\ UNCHANGED <<steps, intent, legs, takes, seen>>
    BY <1>5 DEF Finish
  <2>. HIDE DEF run
  <2>. QED
    BY <2>1, <2>2, EndLegType DEF Storable
<1>6. CancelledRun \in Run /\ CancelledRun.status = "cancelled"
  BY <1>1 DEF CancelledRun, Run
<1>7. CASE CheckCancelled
  BY <1>6, <1>7, EndLegType DEF CheckCancelled, Storable
<1>8. CASE AskBefore
  <2>1. leg.i \in Steps /\ steps[leg.i].before \in {"confirm", "input"} /\ leg.pc = "head"
    BY <1>8, SettingsType DEF AskBefore, AtStep, SettingType
  <2>. DEFINE kind == steps[leg.i].before
              run == Paused(kind, leg.collected, 0)
  <2>2. EndLeg(run) /\ UNCHANGED <<steps, intent, legs, takes, seen>>
    BY <1>8 DEF AskBefore
  <2>. HIDE DEF kind
  <2>3. kind \in {"confirm", "input"}
    BY <2>1 DEF kind
  <2>4. /\ run \in Run /\ run.at = leg.i /\ run.reqs # <<>> /\ run.err = "none"
        /\ LastOf(run.reqs).kind = kind
    BY <1>1, <2>1, <2>3, PausedType
  <2>. HIDE DEF run
  <2>. QED
    BY <2>1, <2>2, <2>3, <2>4, EndLegType DEF Storable, ActiveKind
<1>9. CASE Execute
  <2>1. /\ leg.i \in Steps /\ leg' = [leg EXCEPT !.pc = "exec"] /\ leg.pc = "head"
        /\ takes' = [takes EXCEPT ![leg.i] = @ + 1]
        /\ UNCHANGED <<steps, row, intent, legs, seen>>
    BY <1>9 DEF Execute, AtStep
  <2>2. leg' \in Leg /\ leg'.pc = "exec" /\ leg'.i = leg.i /\ leg'.run = leg.run
    BY <1>1, <2>1 DEF Leg
  <2>3. takes' \in [Steps -> Nat]
    BY <1>1, <2>1
  <2>. QED
    BY <2>1, <2>2, <2>3, LegType
<1>10. ASSUME NEW stop \in BOOLEAN, Return(stop)
       PROVE  TypeInv'
  <2>. DEFINE outputs == Append(leg.collected, NewOutput(stop))
  <2>1. leg.i \in Steps /\ leg.pc = "exec" /\ UNCHANGED <<steps, intent, legs, takes, seen>>
    BY <1>10 DEF Return, TypeOK
  <2>2. outputs \in Seq(Output) /\ outputs # <<>>
    BY <2>1, NewOutputType
  <2>3. \/ EndLeg(CancelledRun)
        \/ Advance(outputs)
        \/ Review(outputs)
    BY <1>10 DEF Return
  <2>. HIDE DEF outputs
  <2>4. CASE EndLeg(CancelledRun)
    BY <1>6, <2>1, <2>4, EndLegType DEF Storable
  <2>5. CASE Advance(outputs)
    <3>. DEFINE next == IF LastOf(outputs).stop THEN N + 1 ELSE leg.i + 1
                executor == IF Routed THEN 0 ELSE leg.executor
    <3>1. next \in 1..(N + 1)
      BY <2>1, WorkflowRunsAssumption DEF Steps
    <3>2. executor \in 0..N
      BY <1>1, WorkflowRunsAssumption DEF Leg
    <3>3. /\ leg' = [leg EXCEPT !.pc = "head", !.i = next, !.collected = outputs, !.executor = executor]
          /\ row' = row
      BY <2>5 DEF Advance
    <3>. HIDE DEF next, executor
    <3>4. leg' \in Leg /\ leg'.pc = "head" /\ leg'.run = leg.run
      BY <1>1, <2>2, <3>1, <3>2, <3>3 DEF Leg
    <3>. QED
      BY <2>1, <3>3, <3>4, LegType DEF TypeOK
  <2>6. CASE Review(outputs)
    <3>. DEFINE retries == IF Routed THEN 0 ELSE leg.retries
                run == Paused("review", outputs, retries)
    <3>1. retries \in Nat
      BY <1>1
    <3>2. EndLeg(run)
      BY <2>6 DEF Review
    <3>. HIDE DEF retries
    <3>3. /\ run \in Run /\ run.at = leg.i /\ run.reqs # <<>> /\ run.err = "none"
          /\ run.results = outputs
      BY <2>1, <2>2, <3>1, PausedType
    <3>. HIDE DEF run
    <3>. QED
      BY <2>1, <2>2, <3>2, <3>3, EndLegType DEF Storable
  <2>. QED
    BY <2>3, <2>4, <2>5, <2>6
<1>11. CASE ExecutorPauses
  <2>. DEFINE run == Paused("executor", leg.collected, 0)
  <2>1. /\ leg.i \in Steps /\ leg.pc = "exec" /\ EndLeg(run)
        /\ UNCHANGED <<steps, intent, legs, takes, seen>>
    BY <1>11 DEF ExecutorPauses, TypeOK
  <2>2. /\ run \in Run /\ run.at = leg.i /\ run.reqs # <<>>
        /\ run.err = leg.run.err /\ LastOf(run.reqs).kind = "executor"
    <3>1. TypeOK /\ leg.i \in Steps /\ leg.collected \in Seq(Output) /\ 0 \in Nat
      BY <1>1, <2>1
    <3>. QED
      BY <3>1, PausedType
  <2>. HIDE DEF run
  <2>. QED
    BY <2>1, <2>2, EndLegType DEF Storable, ActiveKind
<1>12. CASE ErrorPauses
  <2>. DEFINE base == PausedAt(leg.i, leg.collected)
              run == [base EXCEPT !.err = "open"]
  <2>1. /\ leg.i \in Steps /\ EndLeg(run)
        /\ UNCHANGED <<steps, intent, legs, takes, seen>>
    BY <1>12 DEF ErrorPauses, TypeOK
  <2>2. base \in Run /\ base.at = leg.i
    BY <1>1, <2>1, PausedAtType
  <2>3. run \in Run /\ run.at = leg.i /\ run.err = "open"
    BY <2>2 DEF Run
  <2>. HIDE DEF run
  <2>. QED
    BY <2>1, <2>3, EndLegType DEF Storable
<1>13. CASE Fail
  <2>. DEFINE run == [leg.run EXCEPT !.status = "error"]
  <2>1. run \in Run /\ run.status = "error"
    BY <1>1 DEF Run
  <2>2. /\ UNCHANGED <<steps, intent, legs, takes, seen>>
        /\ \/ (row' = run \/ row' = row) /\ leg' = NoLeg
           \/ EndLeg(run)
    BY <1>13 DEF Fail
  <2>. HIDE DEF run
  <2>3. CASE (row' = run \/ row' = row) /\ leg' = NoLeg
    <3>1. leg' \in Leg /\ leg'.pc = "none"
      BY <2>3, NoLegType DEF NoLeg
    <3>. QED
      BY <2>1, <2>2, <2>3, <3>1 DEF TypeOK, Storable, ActiveKind
  <2>4. CASE EndLeg(run)
    BY <2>1, <2>2, <2>4, EndLegType DEF Storable
  <2>. QED
    BY <2>2, <2>3, <2>4
<1>14. NoLeg \in Leg /\ NoLeg.pc = "none"
  BY NoLegType DEF NoLeg
<1>15. CASE Cleanup
  <2>1. seen' \in [asked : BOOLEAN, then : [Steps -> Nat]]
    BY <1>15 DEF Cleanup, TypeOK
  <2>. QED
    BY <1>14, <1>15, <2>1 DEF Cleanup, TypeOK, Storable, ActiveKind
<1>16. CASE Cancel
  <2>1. seen' \in [asked : BOOLEAN, then : [Steps -> Nat]]
    BY <1>16 DEF Cancel, TypeOK
  <2>. QED
    BY <1>16, <2>1 DEF Cancel, TypeOK, Storable, ActiveKind
<1>17. CASE Crash
  <2>1. seen' \in [asked : BOOLEAN, then : [Steps -> Nat]]
    BY <1>17 DEF Crash, TypeOK
  <2>. QED
    BY <1>14, <1>17, <2>1 DEF Crash, TypeOK, Storable, ActiveKind
<1>. QED
  BY <1>2, <1>3, <1>4, <1>5, <1>7, <1>8, <1>9, <1>10, <1>11, <1>12, <1>13, <1>15, <1>16, <1>17
     DEF Next

LEMMA StutterTypeInv ==
    ASSUME TypeInv, UNCHANGED vars
    PROVE  TypeInv'
  BY DEF TypeInv, TypeOK, Storable, ActiveKind, vars

LEMMA TypeInvariant == Spec => []TypeInv
<1>1. Init => TypeInv
  BY InitTypeInv
<1>2. TypeInv /\ [Next]_vars => TypeInv'
  BY NextTypeInv, StutterTypeInv
<1>. QED
  BY <1>1, <1>2, PTL DEF Spec

(* Rows, legs and requirements are what the code takes them for: a paused run *)
(* has the index of one of its steps and a requirement or an error to answer. *)
THEOREM TypeCorrect == Spec => []TypeOK
<1>1. TypeInv => TypeOK
  BY DEF TypeInv
<1>. QED
  BY <1>1, TypeInvariant, PTL

-----------------------------------------------------------------------------
(* Cancellation. *)

(* While the run is to be cancelled the manager says so.                     *)
CancelInv ==
    seen.asked => intent = "cancelled" /\ takes = seen.then

LEMMA CancelStep ==
    ASSUME TypeInv, CancelInv, [Next]_vars
    PROVE  CancelInv'
<1>1. ASSUME NEW background \in BOOLEAN, Start(background)
      PROVE  CancelInv'
  BY <1>1 DEF Start, CancelInv
<1>2. CASE Launch
  BY <1>2 DEF Launch, CancelInv, Registered
<1>3. CASE Continue
  BY <1>3 DEF Continue, CancelInv
<1>4. CASE Finish \/ CheckCancelled \/ AskBefore \/ ExecutorPauses \/ ErrorPauses \/ Fail
  BY <1>4 DEF Finish, CheckCancelled, AskBefore, ExecutorPauses, ErrorPauses, Fail, CancelInv
<1>5. CASE Execute
  BY <1>5 DEF Execute, CancelInv
<1>6. ASSUME NEW stop \in BOOLEAN, Return(stop)
      PROVE  CancelInv'
  BY <1>6 DEF Return, CancelInv
<1>7. CASE Cleanup \/ Crash
  <2>1. seen' = [seen EXCEPT !.asked = FALSE] /\ seen \in [asked : BOOLEAN, then : [Steps -> Nat]]
    BY <1>7 DEF Cleanup, Crash, TypeInv, TypeOK
  <2>. QED
    BY <2>1 DEF CancelInv
<1>8. CASE Cancel
  <2>1. /\ intent' = "cancelled" /\ takes' = takes
        /\ seen' = [seen EXCEPT !.asked = TRUE, !.then = takes]
        /\ seen \in [asked : BOOLEAN, then : [Steps -> Nat]]
    BY <1>8 DEF Cancel, TypeInv, TypeOK
  <2>. QED
    BY <2>1 DEF CancelInv
<1>9. CASE UNCHANGED vars
  BY <1>9 DEF vars, CancelInv
<1>. QED
  BY <1>1, <1>2, <1>3, <1>4, <1>5, <1>6, <1>7, <1>8, <1>9 DEF Next

(* No step is executed once the run is to be cancelled, by whichever leg:     *)
(* registering a run keeps the intention, and every step is preceded by a     *)
(* check.                                                                    *)
THEOREM CancelledRunStops == Spec => []CancelStops
<1>1. Init => CancelInv
  BY DEF Init, CancelInv
<1>2. TypeInv /\ CancelInv /\ [Next]_vars => CancelInv'
  BY CancelStep
<1>3. CancelInv => CancelStops
  BY DEF CancelInv, CancelStops
<1>. QED
  BY <1>1, <1>2, <1>3, TypeInvariant, PTL DEF Spec

-----------------------------------------------------------------------------
(* The gates before the steps. *)

(* A paused run: the last requirement is about the step it is paused at, and  *)
(* that step has been cleared if it was executed.                            *)
Waits(run) ==
    run.status = "paused" /\ ~run.past.stale =>
        /\ run.err = "open" => Cleared(run, run.at)
        /\ run.err = "none" =>
              /\ LastOf(run.reqs).step = run.at /\ LastOf(run.reqs).verdict = "open"
              /\ LastOf(run.reqs).kind \in {"confirm", "input"} =>
                    LastOf(run.reqs).kind = steps[run.at].before
              /\ LastOf(run.reqs).kind \in {"review", "executor"} => Cleared(run, run.at)

RowGate == Waits(row)

(* A leg: it starts at the resolved step or after it, and what it may execute *)
(* without asking has been cleared.                                          *)
LegGate ==
    /\ leg.pc = "launch" => leg.resolved = 0 /\ leg.executor = 0 /\ leg.start = 0
    /\ leg.pc \in {"head", "exec"} =>
          /\ leg.resolved <= leg.start /\ leg.start <= leg.i
          /\ ~leg.run.past.stale =>
                /\ leg.i = leg.resolved => Cleared(leg.run, leg.i)
                /\ Routed => Cleared(leg.run, leg.i)
                /\ leg.pc = "exec" => Cleared(leg.run, leg.i)

GateInv == RowGate /\ LegGate

(* A requirement that clears a step still does when another one is appended,  *)
(* and when the last one, still open, is answered.                           *)
LEMMA ClearedKept ==
    ASSUME NEW run \in Run, NEW other \in Run, NEW s \in Steps, Cleared(run, s),
           Len(other.reqs) >= Len(run.reqs),
           \A k \in 1..Len(run.reqs) : run.reqs[k].verdict # "open" => other.reqs[k] = run.reqs[k]
    PROVE  Cleared(other, s)
<1>1. run.reqs \in Seq(Requirement) /\ other.reqs \in Seq(Requirement)
  BY DEF Run
<1>2. CASE steps[s].before = "none"
  BY <1>2 DEF Cleared
<1>3. CASE steps[s].before # "none"
  <2>1. PICK k \in DOMAIN run.reqs :
            /\ run.reqs[k].step = s /\ run.reqs[k].kind = steps[s].before
            /\ \/ run.reqs[k].verdict = "yes"
               \/ run.reqs[k].verdict = "no" /\ run.reqs[k].onReject = "retry"
    BY <1>3 DEF Cleared
  <2>2. k \in 1..Len(run.reqs) /\ k \in DOMAIN other.reqs
    BY <1>1, <2>1
  <2>3. other.reqs[k] = run.reqs[k]
    BY <2>1, <2>2
  <2>. QED
    BY <2>1, <2>2, <2>3 DEF Cleared
<1>. QED
  BY <1>2, <1>3

LEMMA ResumeGate ==
    ASSUME TypeInv, RowGate, row.status = "paused", NEW answered \in Answers(row),
           NEW run \in Timely(answered), NEW results \in Edited(run), Resume(run, results),
           UNCHANGED steps
    PROVE  LegGate'
<1>. DEFINE old == LastOf(row.reqs)
            new == LastOf(run.reqs)
<1>1. /\ run \in Run /\ run.at = row.at /\ run.past = row.past /\ run.results = row.results
      /\ (run.reqs = <<>>) <=> (row.reqs = <<>>)
      /\ row.at \in Steps /\ row.err \in {"none", "open"}
      /\ row \in Run
  BY AnsweredType DEF SameButAnswer, TypeInv, Storable
<1>2. /\ row.err = "open" => run.err \in {"retry", "skip"}
      /\ row.err = "none" => run.err = "none" /\ row.reqs # <<>>
      /\ Len(run.reqs) = Len(row.reqs)
      /\ \A k \in 1..Len(row.reqs) - 1 : run.reqs[k] = row.reqs[k]
      /\ row.reqs # <<>> =>
            /\ new \in Requirement /\ new.step = old.step /\ new.kind = old.kind
            /\ row.err = "none" =>
                  new.verdict # "open" /\ (old.kind \in {"input", "executor"} => new.verdict = "yes")
  <2>1. TypeOK /\ (row.err = "none" => row.err # "open")
    BY DEF TypeInv
  <2>. HIDE DEF old, new
  <2>. QED
    BY <2>1, AnsweredType DEF old, new
<1>3. run.err = "none" /\ ActiveKind(run, "review") => run.results # <<>>
  BY <1>1, <1>2 DEF TypeInv, Storable, ActiveKind
<1>4. /\ leg' \in Leg
      /\ leg'.pc = "head" /\ leg'.i = StartIndex(run) /\ leg'.start = StartIndex(run)
      /\ leg'.resolved = run.at
      /\ leg'.executor = IF ActiveKind(run, "executor") THEN new.step ELSE 0
      /\ leg'.run.reqs = run.reqs /\ leg'.run.past = Noted(run)
  BY <1>1, <1>3, ResumeType
<1>5. leg'.run \in Run
  BY <1>4 DEF Leg
<1>6. leg'.resolved <= leg'.start /\ leg'.start <= leg'.i
  BY <1>1, <1>4, StartIndexType DEF Steps
<1>7. ASSUME ~leg'.run.past.stale
      PROVE  /\ leg'.i = leg'.resolved => Cleared(leg'.run, leg'.i)
             /\ leg'.executor # 0 => Cleared(leg'.run, leg'.i)
  <2>1. ~row.past.stale /\ (run.err = "none" \/ run.reqs = <<>>)
    <3>1. Noted(run).stale = (run.past.stale \/ (run.err # "none" /\ run.reqs # <<>>))
      BY DEF Noted
    <3>. QED
      BY <1>1, <1>4, <1>7, <3>1
  <2>2. row.reqs \in Seq(Requirement) /\ run.reqs \in Seq(Requirement)
    BY <1>1 DEF Run
  <2>3. CASE row.err = "open"
    <3>1. run.reqs = <<>> /\ row.reqs = <<>> /\ Cleared(row, row.at)
      BY <1>1, <1>2, <2>1, <2>3 DEF RowGate, Waits
    <3>2. Cleared(leg'.run, row.at)
      BY <1>1, <1>4, <1>5, <2>2, <3>1, ClearedKept
    <3>. QED
      BY <1>1, <1>4, <3>1, <3>2 DEF ActiveKind
  <2>4. CASE row.err = "none"
    <3>1. /\ run.err = "none" /\ row.reqs # <<>> /\ run.reqs # <<>>
          /\ old.step = row.at /\ old.verdict = "open"
          /\ old.kind \in {"confirm", "input"} => old.kind = steps[row.at].before
          /\ old.kind \in {"review", "executor"} => Cleared(row, row.at)
      BY <1>1, <1>2, <2>1, <2>4 DEF RowGate, Waits
    <3>2. /\ new \in Requirement /\ new.step = row.at /\ new.kind = old.kind /\ new.verdict # "open"
          /\ old.kind \in {"input", "executor"} => new.verdict = "yes"
      BY <1>2, <2>4, <3>1
    <3>3. old.kind \in {"confirm", "input", "review", "executor"} /\ new.onReject \in OnReject
          /\ new.verdict \in {"yes", "no"}
      BY <3>2 DEF Requirement
    <3>4. CASE old.kind \in {"review", "executor"}
      <4>1. ASSUME NEW k \in 1..Len(row.reqs), row.reqs[k].verdict # "open"
            PROVE  leg'.run.reqs[k] = row.reqs[k]
        <5>1. k # Len(row.reqs)
          BY <3>1, <4>1 DEF LastOf
        <5>2. k \in 1..Len(row.reqs) - 1
          BY <2>2, <4>1, <5>1
        <5>. QED
          BY <1>2, <1>4, <5>2
      <4>2. Len(leg'.run.reqs) >= Len(row.reqs)
        BY <1>2, <1>4, <2>2
      <4>3. Cleared(leg'.run, row.at)
        BY <1>1, <1>5, <3>1, <3>4, <4>1, <4>2, ClearedKept
      <4>4. leg'.executor # 0 => leg'.i = row.at
        BY <1>1, <1>4, <3>1, <3>2 DEF ActiveKind, StartIndex, Rejected
      <4>. QED
        BY <1>1, <1>4, <4>3, <4>4
    <3>5. CASE old.kind \in {"confirm", "input"}
      <4>1. leg'.executor = 0
        BY <1>4, <3>2, <3>5 DEF ActiveKind
      <4>2. ASSUME leg'.i = leg'.resolved
            PROVE  Cleared(leg'.run, leg'.i)
        <5>1. leg'.i = row.at
          BY <1>1, <1>4, <4>2
        <5>2. ~Rejected(run, "skip")
          BY <1>1, <1>4, <4>2 DEF StartIndex, Steps
        <5>3. ~Rejected(run, "cancel")
          BY DEF Resume
        <5>4. new.verdict = "yes" \/ (new.verdict = "no" /\ new.onReject = "retry")
          BY <3>1, <3>3, <5>2, <5>3 DEF Rejected, OnReject
        <5>5. Len(run.reqs) \in DOMAIN run.reqs /\ run.reqs[Len(run.reqs)] = new
          BY <2>2, <3>1 DEF LastOf
        <5>. QED
          BY <1>4, <3>1, <3>2, <3>5, <5>1, <5>4, <5>5 DEF Cleared
      <4>. QED
        BY <4>1, <4>2
    <3>. QED
      BY <3>3, <3>4, <3>5
  <2>. QED
    BY <1>1, <2>3, <2>4
<1>. QED
  BY <1>4, <1>6, <1>7 DEF LegGate, Routed, Cleared

LEMMA EndLegGate ==
    ASSUME NEW run, EndLeg(run), Waits(run), UNCHANGED steps
    PROVE  GateInv'
<1>1. row' = run
  BY DEF EndLeg
<1>2. leg'.pc \in {"none", "cleanup"}
  BY DEF EndLeg, NoLeg
<1>. QED
  BY <1>1, <1>2 DEF GateInv, RowGate, LegGate, Waits, Cleared

(* A leg pauses at a step: what has been cleared still is.                   *)
LEMMA PausedGate ==
    ASSUME TypeInv, leg.i \in Steps, NEW outputs \in Seq(Output), NEW retries \in Nat,
           NEW kind \in {"confirm", "input", "review", "executor"}, leg.run.err = "none",
           kind \in {"confirm", "input"} => kind = steps[leg.i].before,
           kind \in {"review", "executor"} /\ ~leg.run.past.stale => Cleared(leg.run, leg.i)
    PROVE  Waits(Paused(kind, outputs, retries))
<1>. DEFINE run == Paused(kind, outputs, retries)
<1>1. TypeOK /\ leg.run \in Run /\ leg.run.reqs \in Seq(Requirement)
  BY DEF TypeInv, TypeOK, Leg, Run
<1>2. /\ run \in Run /\ run.at = leg.i
      /\ Len(run.reqs) = Len(leg.run.reqs) + 1
      /\ \A k \in 1..Len(leg.run.reqs) : run.reqs[k] = leg.run.reqs[k]
      /\ LastOf(run.reqs).step = leg.i /\ LastOf(run.reqs).kind = kind
      /\ LastOf(run.reqs).verdict = "open"
      /\ run.err = "none" /\ run.past = leg.run.past
  <2>1. /\ run \in Run /\ run.at = leg.i
        /\ LastOf(run.reqs).step = leg.i /\ LastOf(run.reqs).kind = kind
        /\ LastOf(run.reqs).verdict = "open"
        /\ run.err = "none" /\ run.past = leg.run.past
    BY <1>1, PausedType
  <2>2. /\ Len(run.reqs) = Len(leg.run.reqs) + 1
        /\ \A k \in 1..Len(leg.run.reqs) : run.reqs[k] = leg.run.reqs[k]
    BY <1>1, PausedType
  <2>. QED
    BY <2>1, <2>2
<1>. HIDE DEF run
<1>3. Cleared(leg.run, leg.i) => Cleared(run, leg.i)
  <2>1. Len(run.reqs) >= Len(leg.run.reqs)
    BY <1>1, <1>2
  <2>. QED
    BY <1>1, <1>2, <2>1, ClearedKept
<1>4. Waits(run)
  BY <1>2, <1>3 DEF Waits
<1>. QED
  BY <1>4 DEF run

LEMMA GateStep ==
    ASSUME TypeInv, GateInv, [Next]_vars
    PROVE  GateInv'
<1>1. /\ TypeOK /\ leg \in Leg /\ leg.run \in Run /\ row \in Run
      /\ leg.collected \in Seq(Output) /\ leg.retries \in Nat
      /\ leg.i \in 1..(N + 1) /\ leg.start \in 0..(N + 1) /\ leg.resolved \in 0..N
  BY DEF TypeInv, TypeOK, Leg
<1>2. ASSUME NEW background \in BOOLEAN, Start(background)
      PROVE  GateInv'
  <2>. DEFINE run == [NoRun EXCEPT !.status = IF background THEN "pending" ELSE "running"]
  <2>1. run.status # "paused"
    BY DEF NoRun
  <2>2. leg'.pc = "launch" /\ leg'.resolved = 0 /\ leg'.executor = 0 /\ leg'.start = 0
    BY <1>2 DEF Start, NoLeg
  <2>3. row' = IF background THEN run ELSE row
    BY <1>2 DEF Start
  <2>. HIDE DEF run
  <2>4. UNCHANGED steps
    BY <1>2 DEF Start
  <2>. QED
    BY <2>1, <2>2, <2>3, <2>4 DEF GateInv, RowGate, LegGate, Waits, Cleared
<1>3. CASE Launch
  <2>. DEFINE run == [leg.run EXCEPT !.status = "running"]
  <2>1. run.status = "running" /\ leg.pc = "launch" /\ UNCHANGED steps
    BY <1>1, <1>3 DEF Run, Launch
  <2>2. row' = IF leg.background THEN run ELSE row
    BY <1>3 DEF Launch
  <2>3. leg' = [leg EXCEPT !.pc = "head", !.run = run]
    BY <1>3 DEF Launch
  <2>. HIDE DEF run
  <2>4. /\ leg'.pc = "head" /\ leg'.i = leg.i /\ leg'.start = 0 /\ leg'.resolved = 0
        /\ leg'.executor = 0
    BY <1>1, <2>1, <2>3 DEF Leg, GateInv, LegGate
  <2>5. leg'.i # 0 /\ 0 <= leg'.i
    BY <1>1, <2>4
  <2>. QED
    BY <2>1, <2>2, <2>4, <2>5 DEF GateInv, RowGate, LegGate, Waits, Cleared, Routed
<1>4. CASE Continue
  <2>1. /\ row.status = "paused" /\ leg.pc = "none"
        /\ UNCHANGED <<steps, intent, takes, seen>>
    BY <1>4 DEF Continue
  <2>2. PICK answered \in Answers(row) :
           \E run \in Timely(answered) : (\E results \in Edited(run) : Resume(run, results)) \/ GiveUp(run)
    BY <1>4 DEF Continue
  <2>3. PICK run \in Timely(answered) : (\E results \in Edited(run) : Resume(run, results)) \/ GiveUp(run)
    BY <2>2
  <2>4. ASSUME NEW results \in Edited(run), Resume(run, results)
        PROVE  GateInv'
    <3>1. LegGate'
      BY <2>1, <2>4, ResumeGate DEF GateInv
    <3>2. row' = row
      BY <2>4 DEF Resume
    <3>. QED
      BY <2>1, <3>1, <3>2 DEF GateInv, RowGate, Waits, Cleared
  <2>5. CASE GiveUp(run)
    <3>1. run \in Run
      BY <1>1, <2>1, AnsweredType DEF SameButAnswer
    <3>2. row'.status = "cancelled" /\ leg' = leg
      BY <2>5, <3>1 DEF GiveUp, Run
    <3>. QED
      BY <2>1, <3>2 DEF GateInv, RowGate, LegGate, Waits
  <2>. QED
    BY <2>3, <2>4, <2>5
<1>5. CASE Finish
  <2>1. [leg.run EXCEPT !.status = "completed", !.at = 0, !.results = leg.collected].status = "completed"
    BY <1>1 DEF Run
  <2>. QED
    BY <1>5, <2>1, EndLegGate DEF Finish, Waits
<1>6. CancelledRun.status = "cancelled"
  BY <1>1 DEF CancelledRun, Run
<1>7. CASE CheckCancelled
  BY <1>6, <1>7, EndLegGate DEF CheckCancelled, Waits
<1>8. CASE AskBefore
  <2>1. leg.i \in Steps /\ steps[leg.i].before \in {"confirm", "input"} /\ leg.pc = "head"
    BY <1>1, <1>8, SettingsType DEF AskBefore, AtStep, SettingType
  <2>2. EndLeg(Paused(steps[leg.i].before, leg.collected, 0)) /\ UNCHANGED steps
    BY <1>8 DEF AskBefore
  <2>3. leg.run.err = "none"
    BY <2>1 DEF TypeInv
  <2>4. Waits(Paused(steps[leg.i].before, leg.collected, 0))
    BY <1>1, <2>1, <2>3, PausedGate
  <2>. QED
    BY <2>2, <2>4, EndLegGate
<1>9. CASE Execute
  <2>1. /\ leg.i \in Steps /\ leg' = [leg EXCEPT !.pc = "exec"] /\ leg.pc = "head"
        /\ Routed \/ leg.i = leg.resolved \/ steps[leg.i].before = "none"
        /\ UNCHANGED <<steps, row, intent, legs, seen>>
    BY <1>9 DEF Execute, AtStep
  <2>2. /\ leg'.pc = "exec" /\ leg'.i = leg.i /\ leg'.run = leg.run /\ leg'.start = leg.start
        /\ leg'.resolved = leg.resolved /\ leg'.executor = leg.executor
    BY <1>1, <2>1 DEF Leg
  <2>3. ~leg.run.past.stale => Cleared(leg.run, leg.i)
    BY <2>1 DEF GateInv, LegGate, Cleared
  <2>. QED
    BY <2>1, <2>2, <2>3 DEF GateInv, RowGate, LegGate, Waits, Cleared, Routed
<1>10. leg.pc = "exec" => leg.i \in Steps /\ leg.run.err = "none" /\ (~leg.run.past.stale => Cleared(leg.run, leg.i))
  BY DEF TypeInv, TypeOK, GateInv, LegGate
<1>11. ASSUME NEW stop \in BOOLEAN, Return(stop)
       PROVE  GateInv'
  <2>. DEFINE outputs == Append(leg.collected, NewOutput(stop))
  <2>1. leg.pc = "exec" /\ UNCHANGED <<steps, intent, legs, takes, seen>>
    BY <1>11 DEF Return
  <2>2. outputs \in Seq(Output)
    BY <1>1, <1>10, <2>1, NewOutputType
  <2>3. \/ EndLeg(CancelledRun)
        \/ Advance(outputs)
        \/ Review(outputs)
    BY <1>11 DEF Return
  <2>. HIDE DEF outputs
  <2>4. CASE EndLeg(CancelledRun)
    BY <1>6, <2>1, <2>4, EndLegGate DEF Waits
  <2>5. CASE Advance(outputs)
    <3>. DEFINE next == IF LastOf(outputs).stop THEN N + 1 ELSE leg.i + 1
                executor == IF Routed THEN 0 ELSE leg.executor
    <3>1. /\ leg' = [leg EXCEPT !.pc = "head", !.i = next, !.collected = outputs, !.executor = executor]
          /\ row' = row
      BY <2>5 DEF Advance
    <3>2. next > leg.i
      BY <1>1, <1>10, <2>1, WorkflowRunsAssumption DEF Steps
    <3>3. next \in Nat
      BY <1>1, WorkflowRunsAssumption
    <3>. HIDE DEF next, executor
    <3>4. /\ leg'.pc = "head" /\ leg'.i = next /\ leg'.run = leg.run /\ leg'.start = leg.start
          /\ leg'.resolved = leg.resolved
      BY <1>1, <3>1 DEF Leg
    <3>5. leg.resolved <= leg.start /\ leg.start <= leg.i
      BY <2>1 DEF GateInv, LegGate
    <3>6. leg'.start < leg'.i /\ leg'.start <= leg'.i /\ leg'.i # leg'.start /\ leg'.i # leg'.resolved
      BY <1>1, <3>2, <3>3, <3>4, <3>5
    <3>. QED
      BY <2>1, <3>1, <3>4, <3>5, <3>6 DEF GateInv, RowGate, LegGate, Waits, Cleared, Routed
  <2>6. CASE Review(outputs)
    <3>. DEFINE retries == IF Routed THEN 0 ELSE leg.retries
    <3>1. retries \in Nat
      BY <1>1
    <3>2. EndLeg(Paused("review", outputs, retries))
      BY <2>6 DEF Review
    <3>. HIDE DEF retries
    <3>3. Waits(Paused("review", outputs, retries))
      BY <1>10, <2>1, <2>2, <3>1, PausedGate
    <3>. QED
      BY <2>1, <3>2, <3>3, EndLegGate
  <2>. QED
    BY <2>3, <2>4, <2>5, <2>6
<1>12. CASE ExecutorPauses
  <2>1. leg.pc = "exec" /\ EndLeg(Paused("executor", leg.collected, 0)) /\ UNCHANGED steps
    BY <1>12 DEF ExecutorPauses
  <2>2. Waits(Paused("executor", leg.collected, 0))
    BY <1>1, <1>10, <2>1, PausedGate
  <2>. QED
    BY <2>1, <2>2, EndLegGate
<1>13. CASE ErrorPauses
  <2>. DEFINE base == PausedAt(leg.i, leg.collected)
              run == [base EXCEPT !.err = "open"]
  <2>1. leg.pc = "exec" /\ EndLeg(run) /\ UNCHANGED steps
    BY <1>13 DEF ErrorPauses
  <2>2. base \in Run /\ base.at = leg.i /\ base.reqs = leg.run.reqs /\ base.past = leg.run.past
    BY <1>1, <1>10, <2>1, PausedAtType
  <2>. HIDE DEF base
  <2>3. run \in Run /\ run.at = leg.i /\ run.err = "open" /\ run.reqs = leg.run.reqs /\ run.past = leg.run.past
    BY <2>2 DEF Run
  <2>. HIDE DEF run
  <2>4. Waits(run)
    BY <1>10, <2>1, <2>3 DEF Waits, Cleared
  <2>. QED
    BY <2>1, <2>4, EndLegGate
<1>14. CASE Fail
  <2>. DEFINE run == [leg.run EXCEPT !.status = "error"]
  <2>1. run.status = "error"
    BY <1>1 DEF Run
  <2>2. /\ UNCHANGED <<steps, intent, legs, takes, seen>>
        /\ \/ (row' = run \/ row' = row) /\ leg' = NoLeg
           \/ EndLeg(run)
    BY <1>14 DEF Fail
  <2>. HIDE DEF run
  <2>3. CASE (row' = run \/ row' = row) /\ leg' = NoLeg
    BY <2>1, <2>2, <2>3 DEF GateInv, RowGate, LegGate, Waits, Cleared, NoLeg
  <2>4. CASE EndLeg(run)
    BY <2>1, <2>2, <2>4, EndLegGate DEF Waits
  <2>. QED
    BY <2>2, <2>3, <2>4
<1>15. CASE Cleanup \/ Crash
  <2>1. leg' = NoLeg /\ UNCHANGED <<steps, row>>
    BY <1>15 DEF Cleanup, Crash
  <2>. QED
    BY <2>1 DEF GateInv, RowGate, LegGate, Waits, Cleared, NoLeg
<1>16. CASE Cancel \/ UNCHANGED vars
  <2>1. UNCHANGED <<steps, row, leg>>
    BY <1>16 DEF Cancel, vars
  <2>. QED
    BY <2>1 DEF GateInv, RowGate, LegGate, Waits, Cleared, Routed
<1>. QED
  BY <1>2, <1>3, <1>4, <1>5, <1>7, <1>8, <1>9, <1>11, <1>12, <1>13, <1>14, <1>15, <1>16 DEF Next

(* A step that asks for confirmation or input is executed only once it has    *)
(* been given: however often the run has been paused, continued, timed out    *)
(* or cut off by a crash in between.                                         *)
THEOREM GatesHold == Spec => []GateHolds
<1>1. Init => GateInv
  <2>1. ASSUME Init
        PROVE  row.status = "absent" /\ leg.pc = "none"
    BY <2>1 DEF Init, NoRun, NoLeg
  <2>. QED
    BY <2>1 DEF GateInv, RowGate, LegGate, Waits
<1>2. TypeInv /\ GateInv /\ [Next]_vars => GateInv'
  BY GateStep
<1>3. GateInv => GateHolds
  BY DEF GateInv, LegGate, GateHolds
<1>. QED
  BY <1>1, <1>2, <1>3, TypeInvariant, PTL DEF Spec

-----------------------------------------------------------------------------
(* The outputs. *)

(* All of them are of steps before this one. *)
Before(outs, bound) == \A k \in DOMAIN outs : outs[k].step < bound

(* None is of an execution yet to come, and none has been turned down. *)
Fresh(outs, rejected, count) ==
    \A k \in DOMAIN outs : /\ outs[k].take <= count[outs[k].step]
                           /\ <<outs[k].step, outs[k].take>> \notin rejected

Bounded(rejected, count) == \A p \in rejected : p[2] <= count[p[1]]

(* What a run may be stored with. *)
Kept(run, count) ==
    /\ Ordered(run.results)
    /\ run.status \in {"paused", "completed"} => Fresh(run.results, run.past.rejected, count)
    /\ run.status = "paused" =>
          /\ Bounded(run.past.rejected, count)
          /\ run.err = "none" /\ ActiveKind(run, "review") => LastOf(run.results).step = run.at
          /\ ~(run.err = "none" /\ ActiveKind(run, "review")) => Before(run.results, run.at)

Collecting(l, count) ==
    /\ Ordered(l.run.results) /\ Ordered(l.collected)
    /\ l.pc \in {"launch", "head", "exec"} =>
          /\ Before(l.collected, l.i)
          /\ Fresh(l.collected, l.run.past.rejected, count)
          /\ Bounded(l.run.past.rejected, count)
    /\ l.pc = "exec" =>
          \A p \in l.run.past.rejected : p[1] = l.i => p[2] < count[p[1]]

OutputInv == Kept(row, takes) /\ Collecting(leg, takes)

LEMMA EmptyOutputs ==
    ASSUME NEW bound, NEW rejected, NEW count
    PROVE  Ordered(<<>>) /\ Before(<<>>, bound) /\ Fresh(<<>>, rejected, count)
<1>1. DOMAIN <<>> = {}
  <2>1. <<>> \in Seq(Output) /\ Len(<<>>) = 0
    BY EmptyType
  <2>. QED
    BY <2>1
<1>2. Ordered(<<>>)
  BY <1>1 DEF Ordered
<1>3. Before(<<>>, bound)
  BY <1>1 DEF Before
<1>4. Fresh(<<>>, rejected, count)
  BY <1>1 DEF Fresh
<1>. QED
  BY <1>2, <1>3, <1>4

(* The output of the step after them is appended to outputs. *)
LEMMA OutputsGrow ==
    ASSUME NEW outs \in Seq(Output), NEW i \in Steps, NEW out \in Output, out.step = i,
           NEW rejected, NEW count,
           Ordered(outs), Before(outs, i), Fresh(outs, rejected, count),
           out.take <= count[i], <<i, out.take>> \notin rejected
    PROVE  LET new == Append(outs, out) IN
           Ordered(new) /\ Before(new, i + 1) /\ Fresh(new, rejected, count)
<1>. DEFINE new == Append(outs, out)
            n == Len(outs)
<1>1. n \in Nat /\ new \in Seq(Output) /\ Len(new) = n + 1
  BY AppendType
<1>2. ASSUME NEW k \in 1..n
      PROVE  new[k] = outs[k] /\ outs[k].step \in Nat /\ outs[k].step < i
  <2>1. new[k] = outs[k] /\ outs[k] \in Output /\ k \in DOMAIN outs
    BY AppendType
  <2>. QED
    BY <2>1 DEF Before, Output, Steps
<1>3. new[n + 1] = out
  BY <1>1, AppendType DEF LastOf
<1>4. DOMAIN new = 1..(n + 1) /\ DOMAIN outs = 1..n /\ i \in Nat
  BY <1>1 DEF Steps
<1>. HIDE DEF new, n
<1>5. \A k \in 1..(n + 1) : k = n + 1 \/ k \in 1..n
  BY <1>1
<1>6. Ordered(new)
  <2>1. ASSUME NEW j \in 1..(n + 1), NEW k \in 1..(n + 1), j < k
        PROVE  new[j].step < new[k].step
    <3>1. j \in 1..n
      BY <1>1, <2>1
    <3>2. CASE k = n + 1
      BY <1>2, <1>3, <3>1, <3>2
    <3>3. CASE k \in 1..n
      BY <1>2, <1>4, <2>1, <3>1, <3>3 DEF Ordered
    <3>. QED
      BY <1>5, <3>2, <3>3
  <2>. QED
    BY <1>4, <2>1 DEF Ordered
<1>7. Before(new, i + 1)
  <2>1. ASSUME NEW k \in 1..(n + 1)
        PROVE  new[k].step < i + 1
    BY <1>2, <1>3, <1>4, <1>5
  <2>. QED
    BY <1>4, <2>1 DEF Before
<1>8. Fresh(new, rejected, count)
  <2>1. ASSUME NEW k \in 1..(n + 1)
        PROVE  new[k].take <= count[new[k].step] /\ <<new[k].step, new[k].take>> \notin rejected
    <3>1. CASE k = n + 1
      BY <1>3, <3>1
    <3>2. CASE k \in 1..n
      BY <1>2, <1>4, <3>2 DEF Fresh
    <3>. QED
      BY <1>5, <3>1, <3>2
  <2>. QED
    BY <1>4, <2>1 DEF Fresh
<1>. QED
  BY <1>6, <1>7, <1>8 DEF new

(* An edit changes none of this, and the last output may be removed. *)
LEMMA OutputsEdited ==
    ASSUME NEW run \in Run, NEW results \in Edited(run), NEW count, NEW bound, NEW rejected
    PROVE  /\ Ordered(run.results) => Ordered(results)
           /\ Before(run.results, bound) => Before(results, bound)
           /\ Fresh(run.results, rejected, count) => Fresh(results, rejected, count)
           /\ results # <<>> => LastOf(results).step = LastOf(run.results).step
                                /\ LastOf(results).take = LastOf(run.results).take
           /\ results = <<>> <=> run.results = <<>>
<1>1. run.results \in Seq(Output)
  BY DEF Run
<1>2. /\ results \in Seq(Output)
      /\ Len(results) = Len(run.results)
      /\ \A k \in 1..Len(results) : /\ results[k].step = run.results[k].step
                                    /\ results[k].take = run.results[k].take
  BY EditedType
<1>3. DOMAIN results = 1..Len(results) /\ DOMAIN run.results = 1..Len(results)
  BY <1>1, <1>2
<1>4. Ordered(run.results) => Ordered(results)
  BY <1>2, <1>3 DEF Ordered
<1>5. Before(run.results, bound) => Before(results, bound)
  BY <1>2, <1>3 DEF Before
<1>6. Fresh(run.results, rejected, count) => Fresh(results, rejected, count)
  BY <1>2, <1>3 DEF Fresh
<1>7. results = <<>> <=> run.results = <<>>
  BY <1>1, <1>2
<1>8. results # <<>> => Len(results) \in 1..Len(results)
  BY <1>2
<1>. QED
  BY <1>2, <1>4, <1>5, <1>6, <1>7, <1>8 DEF LastOf

LEMMA OutputsShrink ==
    ASSUME NEW outs \in Seq(Output), outs # <<>>, Ordered(outs), NEW count, NEW rejected,
           Fresh(outs, rejected, count)
    PROVE  LET new == ButLast(outs) IN
           /\ Ordered(new) /\ Fresh(new, rejected, count)
           /\ Before(new, LastOf(outs).step)
           /\ Fresh(new, rejected \cup {<<LastOf(outs).step, LastOf(outs).take>>}, count)
<1>. DEFINE new == ButLast(outs)
            n == Len(outs) - 1
            last == LastOf(outs)
<1>1. new \in Seq(Output) /\ Len(new) = n /\ \A k \in 1..n : new[k] = outs[k]
  BY ButLastType
<1>2. n \in Nat /\ n + 1 = Len(outs) /\ last \in Output /\ last = outs[n + 1]
  BY LastType DEF LastOf
<1>3. DOMAIN new = 1..n /\ DOMAIN outs = 1..(n + 1)
  BY <1>1, <1>2
<1>. HIDE DEF new, n, last
<1>4. \A k \in 1..n : k \in 1..(n + 1) /\ k < n + 1
  BY <1>2
<1>5. n + 1 \in 1..(n + 1)
  BY <1>2
<1>6. Ordered(new)
  BY <1>1, <1>3, <1>4 DEF Ordered
<1>7. Fresh(new, rejected, count)
  BY <1>1, <1>3, <1>4 DEF Fresh
<1>8. Before(new, last.step)
  BY <1>1, <1>2, <1>3, <1>4, <1>5 DEF Before, Ordered
<1>9. Fresh(new, rejected \cup {<<last.step, last.take>>}, count)
  <2>1. ASSUME NEW k \in 1..n
        PROVE  <<new[k].step, new[k].take>> # <<last.step, last.take>>
    <3>1. new[k].step < last.step
      BY <1>3, <1>8, <2>1 DEF Before
    <3>2. new[k].step \in Nat /\ last.step \in Nat
      <4>1. new[k] \in Output /\ last \in Output
        BY <1>1, <1>2, <2>1
      <4>. QED
        BY <4>1, SMTT(60) DEF Output, Steps
    <3>3. new[k].step # last.step
      BY <3>1, <3>2
    <3>. QED
      BY <3>3
  <2>. QED
    BY <1>3, <1>7, <2>1 DEF Fresh
<1>. QED
  BY <1>6, <1>7, <1>8, <1>9 DEF new, last

LEMMA KeptLater ==
    ASSUME NEW run \in Run, NEW count \in [Steps -> Nat], NEW later \in [Steps -> Nat],
           \A s \in Steps : count[s] <= later[s], Kept(run, count)
    PROVE  Kept(run, later)
<1>1. ASSUME NEW outs \in Seq(Output), NEW rejected, Fresh(outs, rejected, count)
      PROVE  Fresh(outs, rejected, later)
  <2>1. ASSUME NEW k \in DOMAIN outs
        PROVE  outs[k].take <= later[outs[k].step]
    <3>1. outs[k] \in Output
      BY <2>1
    <3>2. /\ outs[k].take \in Nat /\ count[outs[k].step] \in Nat /\ later[outs[k].step] \in Nat
          /\ count[outs[k].step] <= later[outs[k].step]
      BY <3>1 DEF Output
    <3>3. outs[k].take <= count[outs[k].step]
      BY <1>1, <2>1 DEF Fresh
    <3>. QED
      BY <3>2, <3>3
  <2>. QED
    BY <1>1, <2>1 DEF Fresh
<1>2. ASSUME Bounded(run.past.rejected, count)
      PROVE  Bounded(run.past.rejected, later)
  <2>1. ASSUME NEW p \in run.past.rejected
        PROVE  p[2] <= later[p[1]]
    <3>1. run.past.rejected \subseteq Steps \X Nat
      BY DEF Run, Past
    <3>2. p[1] \in Steps /\ p[2] \in Nat
      BY <2>1, <3>1
    <3>3. count[p[1]] \in Nat /\ later[p[1]] \in Nat /\ count[p[1]] <= later[p[1]]
      BY <3>2
    <3>4. p[2] <= count[p[1]]
      BY <1>2, <2>1 DEF Bounded
    <3>. QED
      BY <3>2, <3>3, <3>4
  <2>. QED
    BY <2>1 DEF Bounded
<1>3. run.results \in Seq(Output)
  BY DEF Run
<1>. QED
  BY <1>1, <1>2, <1>3 DEF Kept

(* A leg that is over, with nothing collected. *)
LEMMA EndLegOutputs ==
    ASSUME NEW run, EndLeg(run), Kept(run, takes), UNCHANGED takes
    PROVE  OutputInv'
<1>1. row' = run /\ (leg' = NoLeg \/ leg' = [NoLeg EXCEPT !.pc = "cleanup", !.run = run])
  BY DEF EndLeg
<1>2. leg'.pc \in {"none", "cleanup"} /\ leg'.collected = <<>> /\ leg'.run.results \in {<<>>, run.results}
  <2>1. NoLeg.pc = "none" /\ NoLeg.collected = <<>> /\ NoLeg.run.results = <<>>
    BY DEF NoLeg, NoRun
  <2>2. CASE leg' = NoLeg
    BY <2>1, <2>2
  <2>3. CASE leg' = [NoLeg EXCEPT !.pc = "cleanup", !.run = run]
    BY <2>3 DEF NoLeg
  <2>. QED
    BY <1>1, <2>2, <2>3
<1>3. Ordered(<<>>)
  BY EmptyOutputs
<1>4. Ordered(leg'.run.results) /\ Ordered(leg'.collected)
  BY <1>2, <1>3 DEF Kept
<1>5. Collecting(leg', takes')
  BY <1>2, <1>4 DEF Collecting
<1>6. Kept(row', takes')
  BY <1>1
<1>. QED
  BY <1>5, <1>6 DEF OutputInv

LEMMA ResumeOutputs ==
    ASSUME TypeInv, OutputInv, row.status = "paused", NEW answered \in Answers(row),
           NEW run \in Timely(answered), NEW results \in Edited(run), Resume(run, results)
    PROVE  Collecting(leg', takes)
<1>. DEFINE last == LastOf(results)
            rejected == run.past.rejected
<1>1. /\ run \in Run /\ run.at = row.at /\ run.past = row.past /\ run.results = row.results
      /\ (run.reqs = <<>>) <=> (row.reqs = <<>>)
      /\ row.at \in Steps /\ row.err \in {"none", "open"}
      /\ row \in Run
      /\ row.err = "open" => run.err \in {"retry", "skip"}
      /\ row.err = "none" => run.err = "none"
  BY AnsweredType DEF SameButAnswer, TypeInv, Storable
<1>2. run.reqs # <<>> => LastOf(run.reqs).kind = LastOf(row.reqs).kind /\ LastOf(run.reqs) \in Requirement
  BY <1>1, AnsweredType DEF TypeInv
<1>3. run.err = "none" /\ ActiveKind(run, "review") <=> row.err = "none" /\ ActiveKind(row, "review")
  BY <1>1, <1>2 DEF ActiveKind
<1>4. run.err = "none" /\ ActiveKind(run, "review") => run.results # <<>>
  BY <1>1, <1>3 DEF TypeInv, Storable
<1>5. /\ Ordered(row.results) /\ Fresh(row.results, rejected, takes) /\ Bounded(rejected, takes)
      /\ row.err = "none" /\ ActiveKind(row, "review") => LastOf(row.results).step = row.at
      /\ ~(row.err = "none" /\ ActiveKind(row, "review")) => Before(row.results, row.at)
  BY <1>1 DEF OutputInv, Kept
<1>6. /\ results \in Seq(Output)
      /\ Ordered(results) /\ Fresh(results, rejected, takes)
      /\ Before(row.results, row.at) => Before(results, row.at)
      /\ results # <<>> => last.step = LastOf(row.results).step
      /\ results = <<>> <=> row.results = <<>>
      /\ results # <<>> => last.take = LastOf(row.results).take
  <2>1. results \in Seq(Output)
    BY <1>1, EditedType
  <2>2. /\ Ordered(run.results) => Ordered(results)
        /\ Before(run.results, row.at) => Before(results, row.at)
        /\ Fresh(run.results, rejected, takes) => Fresh(results, rejected, takes)
        /\ results # <<>> => last.step = LastOf(run.results).step /\ last.take = LastOf(run.results).take
        /\ results = <<>> <=> run.results = <<>>
    BY <1>1, OutputsEdited
  <2>. HIDE DEF last
  <2>. QED
    BY <1>1, <1>5, <2>1, <2>2
<1>7. /\ leg'.pc = "head" /\ leg'.i = StartIndex(run)
      /\ leg'.collected = IF RemoveLast(run) /\ results # <<>> THEN ButLast(results) ELSE results
      /\ leg'.run.past = Noted(run) /\ leg'.run.results = results
  BY <1>1, <1>4, ResumeType
<1>8. /\ results # <<>> =>
            /\ last \in Output
            /\ ButLast(results) \in Seq(Output)
            /\ Ordered(ButLast(results)) /\ Before(ButLast(results), last.step)
            /\ Fresh(ButLast(results), rejected, takes)
            /\ Fresh(ButLast(results), rejected \cup {<<last.step, last.take>>}, takes)
  BY <1>6, OutputsShrink, ButLastType, LastType
<1>9. CASE run.err = "none" /\ ActiveKind(run, "review")
  <2>. DEFINE turnedDown == LastOf(run.reqs).verdict = "no"
  <2>1. results # <<>> /\ last.step = run.at /\ last = LastOf(results)
    BY <1>1, <1>3, <1>4, <1>5, <1>6, <1>9
  <2>2. Noted(run).rejected =
            rejected \cup (IF turnedDown THEN {<<LastOf(run.results).step, LastOf(run.results).take>>} ELSE {})
    BY <1>9 DEF Noted
  <2>3. LastOf(run.results).step = last.step /\ LastOf(run.results).take = last.take
    BY <1>1, <1>6, <2>1
  <2>4. CASE turnedDown
    <3>1. Rejected(run, "skip") \/ Rejected(run, "retry")
      <4>1. ~Rejected(run, "cancel")
        BY DEF Resume
      <4>2. LastOf(run.reqs).onReject \in OnReject /\ run.reqs # <<>>
        BY <1>2, <1>9 DEF ActiveKind, Requirement
      <4>. QED
        BY <2>4, <4>1, <4>2 DEF Rejected, OnReject
    <3>2. RemoveLast(run)
      BY <1>9, <3>1 DEF RemoveLast
    <3>3. leg'.collected = ButLast(results)
      BY <1>7, <2>1, <3>2
    <3>4. Noted(run).rejected = rejected \cup {<<last.step, last.take>>}
      BY <2>2, <2>3, <2>4
    <3>5. Bounded(Noted(run).rejected, takes)
      <4>1. last.take <= takes[last.step]
        <5>1. Len(results) \in DOMAIN results
          BY <1>6, <2>1
        <5>. QED
          BY <1>6, <5>1 DEF Fresh, LastOf
      <4>. QED
        BY <1>5, <3>4, <4>1 DEF Bounded
    <3>6. Before(leg'.collected, leg'.i)
      <4>1. leg'.i = run.at \/ leg'.i = run.at + 1
        BY <1>1, <1>7, StartIndexType
      <4>2. ASSUME NEW k \in DOMAIN ButLast(results)
            PROVE  ButLast(results)[k].step < leg'.i
        <5>1. ButLast(results)[k] \in Output
          BY <1>8, <2>1, <4>2
        <5>2. ButLast(results)[k].step < run.at /\ ButLast(results)[k].step \in Nat /\ run.at \in Nat
          BY <1>1, <1>8, <2>1, <4>2, <5>1 DEF Before, Output, Steps
        <5>. QED
          BY <4>1, <5>2
      <4>. QED
        BY <3>3, <4>2 DEF Before
    <3>. QED
      BY <1>6, <1>7, <1>8, <2>1, <3>3, <3>4, <3>5, <3>6 DEF Collecting
  <2>5. CASE ~turnedDown
    <3>1. Noted(run).rejected = rejected
      BY <2>2, <2>5
    <3>2. ~Rejected(run, "skip") /\ ~Rejected(run, "retry")
      BY <2>5 DEF Rejected
    <3>3. leg'.collected = results /\ leg'.i = run.at + 1
      BY <1>7, <1>9, <3>2 DEF RemoveLast, StartIndex
    <3>4. Before(leg'.collected, leg'.i)
      <4>1. ASSUME NEW k \in DOMAIN results
            PROVE  results[k].step < run.at + 1
        <5>1. results[k] \in Output /\ k \in 1..Len(results) /\ Len(results) \in DOMAIN results
          BY <1>6, <2>1, <4>1
        <5>2. results[k].step \in Nat /\ run.at \in Nat
          BY <1>1, <5>1 DEF Output, Steps
        <5>3. k = Len(results) \/ k < Len(results)
          BY <1>6, <5>1
        <5>4. CASE k = Len(results)
          BY <2>1, <5>2, <5>4 DEF LastOf
        <5>5. CASE k < Len(results)
          <6>1. results[k].step < results[Len(results)].step
            BY <1>6, <4>1, <5>1, <5>5 DEF Ordered
          <6>2. results[Len(results)].step = run.at
            BY <2>1 DEF LastOf
          <6>. QED
            BY <5>2, <6>1, <6>2
        <5>. QED
          BY <5>3, <5>4, <5>5
      <4>. QED
        BY <3>3, <4>1 DEF Before
    <3>. QED
      BY <1>5, <1>6, <1>7, <3>1, <3>3, <3>4 DEF Collecting
  <2>. QED
    BY <2>4, <2>5
<1>10. CASE ~(run.err = "none" /\ ActiveKind(run, "review"))
  <2>1. Noted(run).rejected = rejected
    BY <1>10 DEF Noted
  <2>2. Before(results, run.at)
    BY <1>1, <1>3, <1>5, <1>6, <1>10
  <2>3. leg'.collected = results \/ (results # <<>> /\ leg'.collected = ButLast(results))
    BY <1>7
  <2>4. /\ leg'.collected \in Seq(Output) /\ Ordered(leg'.collected)
        /\ Fresh(leg'.collected, rejected, takes)
    BY <1>6, <1>8, <2>3
  <2>5. Before(leg'.collected, leg'.i)
    <3>1. ASSUME NEW k \in DOMAIN leg'.collected
          PROVE  leg'.collected[k].step < leg'.i
      <4>1. k \in DOMAIN results /\ leg'.collected[k] = results[k]
        <5>1. CASE leg'.collected = results
          BY <3>1, <5>1
        <5>2. CASE results # <<>> /\ leg'.collected = ButLast(results)
          <6>1. /\ Len(ButLast(results)) = Len(results) - 1
                /\ \A j \in 1..Len(results) - 1 : ButLast(results)[j] = results[j]
            BY <1>6, <5>2, ButLastType
          <6>2. k \in 1..Len(results) - 1 /\ Len(results) \in Nat
            BY <1>6, <2>4, <3>1, <5>2, <6>1
          <6>3. k \in 1..Len(results) /\ DOMAIN results = 1..Len(results)
            BY <1>6, <6>2
          <6>. QED
            BY <5>2, <6>1, <6>2, <6>3
        <5>. QED
          BY <2>3, <5>1, <5>2
      <4>2. results[k].step < run.at /\ results[k] \in Output
        BY <1>6, <2>2, <4>1 DEF Before
      <4>3. results[k].step \in Nat /\ run.at \in Nat
        BY <1>1, <4>2 DEF Output, Steps
      <4>4. leg'.i = run.at \/ leg'.i = run.at + 1
        BY <1>1, <1>7, StartIndexType
      <4>. QED
        BY <4>1, <4>2, <4>3, <4>4
    <3>. QED
      BY <3>1 DEF Before
  <2>. QED
    BY <1>5, <1>6, <1>7, <2>1, <2>4, <2>5 DEF Collecting
<1>. QED
  BY <1>9, <1>10

LEMMA OutputStep ==
    ASSUME TypeInv, OutputInv, [Next]_vars
    PROVE  OutputInv'
<1>1. /\ TypeOK /\ leg \in Leg /\ leg.run \in Run /\ row \in Run /\ leg.run.past \in Past
      /\ leg.collected \in Seq(Output) /\ leg.retries \in Nat /\ leg.run.results \in Seq(Output)
      /\ leg.i \in 1..(N + 1) /\ takes \in [Steps -> Nat]
  BY DEF TypeInv, TypeOK, Leg, Run
<1>2. Kept(row, takes) /\ Ordered(leg.run.results) /\ Ordered(leg.collected)
  BY DEF OutputInv, Collecting
<1>3. /\ Ordered(<<>>) /\ Collecting(NoLeg, takes)
      /\ NoLeg.run.results = <<>> /\ NoLeg.collected = <<>>
  <2>1. NoLeg.pc = "none" /\ NoLeg.collected = <<>> /\ NoLeg.run.results = <<>>
    BY DEF NoLeg, NoRun
  <2>. QED
    BY <2>1, EmptyOutputs DEF Collecting
<1>4. ASSUME NEW background \in BOOLEAN, Start(background)
      PROVE  OutputInv'
  <2>. DEFINE run == [NoRun EXCEPT !.status = IF background THEN "pending" ELSE "running"]
  <2>1. /\ run.status \in {"pending", "running"} /\ run.results = <<>> /\ run.past.rejected = {}
    BY DEF NoRun
  <2>2. /\ row' = (IF background THEN run ELSE row) /\ takes' = takes
        /\ leg' = [NoLeg EXCEPT !.pc = "launch", !.run = run, !.first = TRUE, !.background = background]
    BY <1>4 DEF Start
  <2>. HIDE DEF run
  <2>3. leg'.pc = "launch" /\ leg'.run = run /\ leg'.collected = <<>>
    BY <2>2 DEF NoLeg
  <2>4. Kept(run, takes)
    BY <1>3, <2>1 DEF Kept
  <2>5. Before(<<>>, leg'.i) /\ Fresh(<<>>, {}, takes) /\ Bounded({}, takes)
    BY EmptyOutputs DEF Bounded
  <2>6. Collecting(leg', takes)
    BY <1>3, <2>1, <2>3, <2>5 DEF Collecting
  <2>7. Kept(row', takes)
    BY <1>2, <2>2, <2>4
  <2>. QED
    BY <2>2, <2>6, <2>7 DEF OutputInv
<1>5. CASE Launch
  <2>. DEFINE run == [leg.run EXCEPT !.status = "running"]
  <2>1. run.status = "running" /\ run.results = leg.run.results /\ run.past = leg.run.past
    BY <1>1 DEF Run
  <2>2. /\ row' = (IF leg.background THEN run ELSE row) /\ takes' = takes /\ leg.pc = "launch"
        /\ leg' = [leg EXCEPT !.pc = "head", !.run = run]
    BY <1>5 DEF Launch
  <2>. HIDE DEF run
  <2>3. leg'.pc = "head" /\ leg'.run = run /\ leg'.collected = leg.collected /\ leg'.i = leg.i
    BY <1>1, <2>2 DEF Leg
  <2>4. Kept(row', takes)
    BY <1>2, <2>1, <2>2 DEF Kept
  <2>5. Collecting(leg', takes)
    BY <2>1, <2>2, <2>3 DEF Collecting, OutputInv
  <2>. QED
    BY <2>2, <2>4, <2>5 DEF OutputInv
<1>6. CASE Continue
  <2>1. row.status = "paused" /\ UNCHANGED <<steps, intent, takes, seen>> /\ leg.pc = "none"
    BY <1>6 DEF Continue
  <2>2. PICK answered \in Answers(row) :
           \E run \in Timely(answered) : (\E results \in Edited(run) : Resume(run, results)) \/ GiveUp(run)
    BY <1>6 DEF Continue
  <2>3. PICK run \in Timely(answered) : (\E results \in Edited(run) : Resume(run, results)) \/ GiveUp(run)
    BY <2>2
  <2>4. ASSUME NEW results \in Edited(run), Resume(run, results)
        PROVE  OutputInv'
    <3>1. Collecting(leg', takes)
      BY <2>1, <2>4, ResumeOutputs
    <3>2. row' = row
      BY <2>4 DEF Resume
    <3>. QED
      BY <1>2, <2>1, <3>1, <3>2 DEF OutputInv
  <2>5. CASE GiveUp(run)
    <3>1. run \in Run /\ run.results = row.results
      BY <1>1, <2>1, AnsweredType DEF SameButAnswer
    <3>2. row'.status = "cancelled" /\ leg' = leg /\ row'.results = row.results
      BY <2>5, <3>1 DEF GiveUp, Run
    <3>3. Kept(row', takes)
      BY <1>2, <3>2 DEF Kept
    <3>. QED
      BY <2>1, <3>2, <3>3 DEF OutputInv
  <2>. QED
    BY <2>3, <2>4, <2>5
<1>7. CASE Finish
  <2>. DEFINE run == [leg.run EXCEPT !.status = "completed", !.at = 0, !.results = leg.collected]
  <2>1. run.status = "completed" /\ run.results = leg.collected /\ run.past = leg.run.past
    BY <1>1 DEF Run
  <2>2. EndLeg(run) /\ takes' = takes /\ leg.pc = "head"
    BY <1>7 DEF Finish
  <2>. HIDE DEF run
  <2>3. Kept(run, takes)
    BY <1>2, <2>1, <2>2 DEF Kept, OutputInv, Collecting
  <2>. QED
    BY <2>2, <2>3, EndLegOutputs
<1>8. Kept(CancelledRun, takes)
  <2>1. CancelledRun.status = "cancelled" /\ CancelledRun.results \in {leg.run.results, leg.collected}
    BY <1>1 DEF CancelledRun, Run
  <2>. QED
    BY <1>2, <2>1 DEF Kept
<1>9. CASE CheckCancelled
  BY <1>8, <1>9, EndLegOutputs DEF CheckCancelled
<1>10. ASSUME NEW kind \in {"confirm", "input", "executor"}, leg.pc \in {"head", "exec"}, leg.i \in Steps
       PROVE  Kept(Paused(kind, leg.collected, 0), takes)
  <2>. DEFINE run == Paused(kind, leg.collected, 0)
  <2>1. /\ run.status = "paused" /\ run.at = leg.i /\ run.past = leg.run.past
        /\ run.results = leg.collected /\ LastOf(run.reqs).kind = kind
    BY <1>1, <1>10, PausedType
  <2>. HIDE DEF run
  <2>2. ~ActiveKind(run, "review")
    BY <2>1 DEF ActiveKind
  <2>3. Kept(run, takes)
    BY <1>2, <1>10, <2>1, <2>2 DEF Kept, OutputInv, Collecting
  <2>. QED
    BY <2>3 DEF run
<1>11. CASE AskBefore
  <2>1. leg.i \in Steps /\ steps[leg.i].before \in {"confirm", "input"} /\ leg.pc = "head"
    BY <1>1, <1>11, SettingsType DEF AskBefore, AtStep, SettingType
  <2>2. EndLeg(Paused(steps[leg.i].before, leg.collected, 0)) /\ UNCHANGED takes
    BY <1>11 DEF AskBefore
  <2>3. Kept(Paused(steps[leg.i].before, leg.collected, 0), takes)
    BY <1>10, <2>1
  <2>. QED
    BY <2>2, <2>3, EndLegOutputs
<1>12. CASE Execute
  <2>1. /\ leg.i \in Steps /\ leg' = [leg EXCEPT !.pc = "exec"] /\ leg.pc = "head"
        /\ takes' = [takes EXCEPT ![leg.i] = @ + 1] /\ row' = row
    BY <1>12 DEF Execute, AtStep
  <2>2. /\ leg'.pc = "exec" /\ leg'.i = leg.i /\ leg'.run = leg.run /\ leg'.collected = leg.collected
    BY <1>1, <2>1 DEF Leg
  <2>3. /\ takes' \in [Steps -> Nat] /\ \A s \in Steps : takes[s] <= takes'[s]
        /\ takes'[leg.i] = takes[leg.i] + 1
    BY <1>1, <2>1
  <2>4. Kept(row, takes')
    BY <1>1, <1>2, <2>3, KeptLater
  <2>5. Fresh(leg.collected, leg.run.past.rejected, takes') /\ Bounded(leg.run.past.rejected, takes')
    <3>. DEFINE run == [leg.run EXCEPT !.status = "completed", !.results = leg.collected]
    <3>1. run \in Run /\ run.status = "completed" /\ run.results = leg.collected /\ run.past = leg.run.past
      BY <1>1 DEF Run
    <3>. HIDE DEF run
    <3>2. Fresh(leg.collected, leg.run.past.rejected, takes) /\ Bounded(leg.run.past.rejected, takes)
      BY <2>1 DEF OutputInv, Collecting
    <3>3. Kept(run, takes)
      BY <1>2, <3>1, <3>2 DEF Kept
    <3>4. Kept(run, takes')
      BY <1>1, <2>3, <3>1, <3>3, KeptLater
    <3>5. ASSUME NEW p \in leg.run.past.rejected
          PROVE  p[2] <= takes'[p[1]]
      <4>1. p[1] \in Steps /\ p[2] \in Nat
        BY <1>1 DEF Past
      <4>2. takes[p[1]] \in Nat /\ takes'[p[1]] \in Nat /\ takes[p[1]] <= takes'[p[1]]
        BY <1>1, <2>3, <4>1
      <4>3. p[2] <= takes[p[1]]
        BY <3>2 DEF Bounded
      <4>. QED
        BY <4>1, <4>2, <4>3
    <3>. QED
      BY <3>1, <3>4, <3>5 DEF Kept, Bounded
  <2>6. ASSUME NEW p \in leg.run.past.rejected, p[1] = leg.i
        PROVE  p[2] < takes'[p[1]]
    <3>1. p[2] \in Nat /\ takes[p[1]] \in Nat
      BY <1>1, <2>1, <2>6 DEF Past
    <3>2. p[2] <= takes[p[1]]
      BY <2>1 DEF OutputInv, Collecting, Bounded
    <3>. QED
      BY <2>3, <2>6, <3>1, <3>2
  <2>7. Before(leg.collected, leg.i)
    BY <2>1 DEF OutputInv, Collecting
  <2>8. Collecting(leg', takes')
    BY <1>2, <2>2, <2>5, <2>6, <2>7 DEF Collecting
  <2>. QED
    BY <2>1, <2>4, <2>8 DEF OutputInv
<1>13. leg.pc = "exec" => leg.i \in Steps
  BY DEF TypeInv, TypeOK
<1>14. ASSUME NEW stop \in BOOLEAN, Return(stop)
       PROVE  OutputInv'
  <2>. DEFINE out == NewOutput(stop)
              outputs == Append(leg.collected, out)
  <2>1. leg.pc = "exec" /\ leg.i \in Steps /\ UNCHANGED <<steps, intent, legs, takes, seen>>
    BY <1>13, <1>14 DEF Return
  <2>2. /\ out \in Output /\ out.step = leg.i /\ out.take = takes[leg.i]
        /\ outputs \in Seq(Output) /\ LastOf(outputs) = out
    BY <1>1, <2>1, NewOutputType
  <2>3. \/ EndLeg(CancelledRun)
        \/ Advance(outputs)
        \/ Review(outputs)
    BY <1>14 DEF Return
  <2>4. /\ Before(leg.collected, leg.i) /\ Fresh(leg.collected, leg.run.past.rejected, takes)
        /\ Bounded(leg.run.past.rejected, takes)
        /\ \A p \in leg.run.past.rejected : p[1] = leg.i => p[2] < takes[p[1]]
    BY <2>1 DEF OutputInv, Collecting
  <2>5. <<leg.i, out.take>> \notin leg.run.past.rejected
    <3>1. SUFFICES ASSUME <<leg.i, out.take>> \in leg.run.past.rejected
                   PROVE  FALSE
      OBVIOUS
    <3>2. takes[leg.i] < takes[leg.i]
      BY <2>2, <2>4, <3>1
    <3>. QED
      BY <1>1, <2>1, <3>2
  <2>6. out.take <= takes[leg.i]
    BY <1>1, <2>1, <2>2
  <2>. HIDE DEF out
  <2>7. Ordered(outputs) /\ Before(outputs, leg.i + 1) /\ Fresh(outputs, leg.run.past.rejected, takes)
    BY <1>1, <1>2, <2>1, <2>2, <2>4, <2>5, <2>6, OutputsGrow
  <2>. HIDE DEF outputs
  <2>8. CASE EndLeg(CancelledRun)
    BY <1>8, <2>1, <2>8, EndLegOutputs
  <2>9. CASE Advance(outputs)
    <3>. DEFINE next == IF LastOf(outputs).stop THEN N + 1 ELSE leg.i + 1
                executor == IF Routed THEN 0 ELSE leg.executor
    <3>1. /\ leg' = [leg EXCEPT !.pc = "head", !.i = next, !.collected = outputs, !.executor = executor]
          /\ row' = row
      BY <2>9 DEF Advance
    <3>2. next >= leg.i + 1 /\ next \in Nat /\ leg.i \in Nat
      BY <1>1, <2>1, WorkflowRunsAssumption DEF Steps
    <3>. HIDE DEF next, executor
    <3>3. leg'.pc = "head" /\ leg'.i = next /\ leg'.run = leg.run /\ leg'.collected = outputs
      BY <1>1, <3>1 DEF Leg
    <3>4. Before(outputs, next)
      <4>1. ASSUME NEW k \in DOMAIN outputs
            PROVE  outputs[k].step < next
        <5>1. outputs[k] \in Output
          BY <2>2
        <5>2. outputs[k].step \in Nat
          BY <5>1 DEF Output, Steps
        <5>3. outputs[k].step < leg.i + 1
          BY <2>7 DEF Before
        <5>. QED
          BY <3>2, <5>2, <5>3
      <4>. QED
        BY <4>1 DEF Before
    <3>5. Collecting(leg', takes)
      BY <1>2, <2>4, <2>7, <3>3, <3>4 DEF Collecting
    <3>. QED
      BY <1>2, <2>1, <3>1, <3>5 DEF OutputInv
  <2>10. CASE Review(outputs)
    <3>. DEFINE retries == IF Routed THEN 0 ELSE leg.retries
                run == Paused("review", outputs, retries)
    <3>1. retries \in Nat /\ EndLeg(run)
      BY <1>1, <2>10 DEF Review
    <3>. HIDE DEF retries
    <3>2. /\ run.status = "paused" /\ run.at = leg.i /\ run.past = leg.run.past
          /\ run.results = outputs /\ LastOf(run.reqs).kind = "review"
          /\ run.reqs # <<>> /\ run.err = "none"
      BY <1>1, <2>1, <2>2, <3>1, PausedType DEF TypeInv
    <3>. HIDE DEF run
    <3>3. ActiveKind(run, "review") /\ LastOf(run.results).step = run.at
      BY <2>2, <3>2 DEF ActiveKind
    <3>4. Kept(run, takes)
      BY <2>4, <2>7, <3>2, <3>3 DEF Kept
    <3>. QED
      BY <2>1, <3>1, <3>4, EndLegOutputs
  <2>. QED
    BY <2>3, <2>8, <2>9, <2>10
<1>15. CASE ExecutorPauses
  <2>1. leg.pc = "exec" /\ EndLeg(Paused("executor", leg.collected, 0)) /\ UNCHANGED takes
    BY <1>15 DEF ExecutorPauses
  <2>2. Kept(Paused("executor", leg.collected, 0), takes)
    BY <1>10, <1>13, <2>1
  <2>. QED
    BY <2>1, <2>2, EndLegOutputs
<1>16. CASE ErrorPauses
  <2>. DEFINE base == PausedAt(leg.i, leg.collected)
              run == [base EXCEPT !.err = "open"]
  <2>1. leg.pc = "exec" /\ EndLeg(run) /\ UNCHANGED takes
    BY <1>16 DEF ErrorPauses
  <2>2. base \in Run /\ base.at = leg.i /\ base.results = leg.collected /\ base.past = leg.run.past
    BY <1>1, <1>13, <2>1, PausedAtType
  <2>. HIDE DEF base
  <2>3. run.at = leg.i /\ run.err = "open" /\ run.results = leg.collected /\ run.past = leg.run.past
    BY <2>2 DEF Run
  <2>. HIDE DEF run
  <2>4. Kept(run, takes)
    BY <1>2, <2>1, <2>3 DEF Kept, OutputInv, Collecting
  <2>. QED
    BY <2>1, <2>4, EndLegOutputs
<1>17. CASE Fail
  <2>. DEFINE run == [leg.run EXCEPT !.status = "error"]
  <2>1. run.status = "error" /\ run.results = leg.run.results
    BY <1>1 DEF Run
  <2>2. /\ UNCHANGED takes
        /\ \/ (row' = run \/ row' = row) /\ leg' = NoLeg
           \/ EndLeg(run)
    BY <1>17 DEF Fail
  <2>. HIDE DEF run
  <2>3. Kept(run, takes)
    BY <1>2, <2>1 DEF Kept
  <2>4. CASE (row' = run \/ row' = row) /\ leg' = NoLeg
    BY <1>2, <1>3, <2>2, <2>3, <2>4 DEF OutputInv
  <2>5. CASE EndLeg(run)
    BY <2>2, <2>3, <2>5, EndLegOutputs
  <2>. QED
    BY <2>2, <2>4, <2>5
<1>18. CASE Cleanup \/ Crash
  <2>1. leg' = NoLeg /\ UNCHANGED <<row, takes>>
    BY <1>18 DEF Cleanup, Crash
  <2>. QED
    BY <1>2, <1>3, <2>1 DEF OutputInv
<1>19. CASE Cancel \/ UNCHANGED vars
  <2>1. UNCHANGED <<row, leg, takes>>
    BY <1>19 DEF Cancel, vars
  <2>. QED
    BY <2>1 DEF OutputInv
<1>. QED
  BY <1>4, <1>5, <1>6, <1>7, <1>9, <1>11, <1>12, <1>14, <1>15, <1>16, <1>17, <1>18, <1>19 DEF Next

LEMMA OutputInvariant == Spec => []OutputInv
<1>1. Init => OutputInv
  <2>1. ASSUME Init
        PROVE  OutputInv
    <3>1. row = NoRun /\ leg = NoLeg
      BY <2>1 DEF Init
    <3>2. row.status = "absent" /\ row.results = <<>> /\ leg.pc = "none" /\ leg.collected = <<>>
          /\ leg.run.results = <<>>
      BY <3>1 DEF NoRun, NoLeg
    <3>. QED
      BY <3>2, EmptyOutputs DEF OutputInv, Kept, Collecting
  <2>. QED
    BY <2>1
<1>2. TypeInv /\ OutputInv /\ [Next]_vars => OutputInv'
  BY OutputStep
<1>. QED
  BY <1>1, <1>2, TypeInvariant, PTL DEF Spec

(* The outputs of a run are in the order of its steps and there is at most     *)
(* one of each, whatever was skipped, retried, reviewed or lost.              *)
THEOREM OutputsInOrder == Spec => []OrderKept
<1>1. OutputInv => OrderKept
  BY DEF OutputInv, Kept, Collecting, OrderKept
<1>. QED
  BY <1>1, OutputInvariant, PTL

(* No output that a reviewer has turned down is a result of a completed run.  *)
THEOREM RejectedIsGone == Spec => []RejectedNotKept
<1>1. OutputInv => RejectedNotKept
  BY DEF OutputInv, Kept, Fresh, RejectedNotKept
<1>. QED
  BY <1>1, OutputInvariant, PTL

-----------------------------------------------------------------------------
(* The request to stop. *)

Reviewed(run, s) == \E j \in DOMAIN run.reqs : run.reqs[j].kind = "review" /\ run.reqs[j].step = s

(* The outputs with a request to stop, among the first n, have been reviewed. *)
Passed(outs, run, n) == \A k \in 1..n : outs[k].stop => Reviewed(run, outs[k].step)

StopInv ==
    /\ row.status = "paused" => Passed(row.results, row, Len(row.results))
    /\ leg.pc \in {"none", "launch", "cleanup"} => leg.collected = <<>>
    /\ leg.pc = "exec" \/ AtStep => Passed(leg.collected, leg.run, Len(leg.collected))
    /\ leg.pc = "head" => Passed(leg.collected, leg.run, Len(leg.collected) - 1)

LEMMA EndLegStop ==
    ASSUME NEW run, EndLeg(run), run.status = "paused" => Passed(run.results, run, Len(run.results))
    PROVE  StopInv'
<1>1. row' = run /\ (leg' = NoLeg \/ leg' = [NoLeg EXCEPT !.pc = "cleanup", !.run = run])
  BY DEF EndLeg
<1>2. leg'.pc \in {"none", "cleanup"} /\ leg'.collected = <<>>
  <2>1. NoLeg.pc = "none" /\ NoLeg.collected = <<>>
    BY DEF NoLeg
  <2>2. CASE leg' = NoLeg
    BY <2>1, <2>2
  <2>3. CASE leg' = [NoLeg EXCEPT !.pc = "cleanup", !.run = run]
    BY <2>3 DEF NoLeg
  <2>. QED
    BY <1>1, <2>2, <2>3
<1>. QED
  BY <1>1, <1>2 DEF StopInv, AtStep, Passed, Reviewed

(* More requirements, or answers to them, change nothing of it. *)
LEMMA ReviewedKept ==
    ASSUME NEW run \in Run, NEW other \in Run, Len(other.reqs) >= Len(run.reqs),
           \A k \in 1..Len(run.reqs) : /\ other.reqs[k].kind = run.reqs[k].kind
                                       /\ other.reqs[k].step = run.reqs[k].step,
           NEW s, Reviewed(run, s)
    PROVE  Reviewed(other, s)
<1>1. run.reqs \in Seq(Requirement) /\ other.reqs \in Seq(Requirement)
  BY DEF Run
<1>2. PICK j \in DOMAIN run.reqs : run.reqs[j].kind = "review" /\ run.reqs[j].step = s
  BY DEF Reviewed
<1>3. j \in 1..Len(run.reqs) /\ j \in DOMAIN other.reqs
  BY <1>1, <1>2
<1>. QED
  BY <1>2, <1>3 DEF Reviewed

LEMMA ResumeStop ==
    ASSUME TypeInv, StopInv, row.status = "paused", NEW answered \in Answers(row),
           NEW run \in Timely(answered), NEW results \in Edited(run), Resume(run, results)
    PROVE  /\ leg'.pc = "head" /\ leg'.collected \in Seq(Output)
           /\ Passed(leg'.collected, leg'.run, Len(leg'.collected))
<1>1. /\ run \in Run /\ run.at = row.at /\ run.results = row.results /\ row \in Run
      /\ (run.reqs = <<>>) <=> (row.reqs = <<>>)
      /\ row.at \in Steps /\ row.err \in {"none", "open"}
      /\ row.err = "open" => run.err \in {"retry", "skip"}
  BY AnsweredType DEF SameButAnswer, TypeInv, Storable
<1>2. /\ Len(run.reqs) = Len(row.reqs)
      /\ \A k \in 1..Len(row.reqs) - 1 : run.reqs[k] = row.reqs[k]
      /\ row.reqs # <<>> => /\ LastOf(run.reqs).step = LastOf(row.reqs).step
                            /\ LastOf(run.reqs).kind = LastOf(row.reqs).kind
  BY AnsweredType DEF TypeInv
<1>3. run.err = "none" /\ ActiveKind(run, "review") => run.results # <<>>
  <2>1. run.err = "none" => row.err = "none"
    BY <1>1
  <2>2. ActiveKind(run, "review") => ActiveKind(row, "review")
    BY <1>1, <1>2 DEF ActiveKind
  <2>. QED
    BY <1>1, <2>1, <2>2 DEF TypeInv, Storable
<1>4. /\ leg' \in Leg /\ leg'.pc = "head" /\ leg'.run.reqs = run.reqs
      /\ leg'.collected = IF RemoveLast(run) /\ results # <<>> THEN ButLast(results) ELSE results
  BY <1>1, <1>3, ResumeType
<1>5. /\ results \in Seq(Output) /\ Len(results) = Len(row.results)
      /\ \A k \in 1..Len(results) : /\ results[k].step = row.results[k].step
                                    /\ results[k].stop = row.results[k].stop
  BY <1>1, EditedType
<1>6. leg'.collected \in Seq(Output) /\ leg'.run \in Run
  BY <1>4 DEF Leg
<1>7. ASSUME NEW k \in 1..Len(row.reqs)
      PROVE  leg'.run.reqs[k].kind = row.reqs[k].kind /\ leg'.run.reqs[k].step = row.reqs[k].step
  <2>1. row.reqs \in Seq(Requirement)
    BY <1>1 DEF Run
  <2>2. k \in 1..Len(row.reqs) - 1 \/ (k = Len(row.reqs) /\ row.reqs # <<>>)
    BY <2>1
  <2>. QED
    BY <1>2, <1>4, <2>2 DEF LastOf
<1>8. ASSUME NEW k \in 1..Len(leg'.collected)
      PROVE  k \in 1..Len(results) /\ leg'.collected[k] = results[k]
  <2>1. CASE leg'.collected = results
    BY <2>1
  <2>2. CASE results # <<>> /\ leg'.collected = ButLast(results)
    <3>1. /\ Len(leg'.collected) = Len(results) - 1
          /\ \A j \in 1..Len(results) - 1 : leg'.collected[j] = results[j]
      BY <1>5, <2>2, ButLastType
    <3>2. Len(results) \in Nat
      BY <1>5
    <3>. QED
      BY <3>1, <3>2
  <2>. QED
    BY <1>4, <2>1, <2>2
<1>9. Passed(leg'.collected, leg'.run, Len(leg'.collected))
  <2>1. ASSUME NEW k \in 1..Len(leg'.collected), leg'.collected[k].stop
        PROVE  Reviewed(leg'.run, leg'.collected[k].step)
    <3>1. /\ k \in 1..Len(row.results) /\ row.results[k].stop
          /\ row.results[k].step = leg'.collected[k].step
      BY <1>5, <1>8, <2>1
    <3>2. Reviewed(row, leg'.collected[k].step)
      BY <3>1 DEF StopInv, Passed
    <3>3. Len(leg'.run.reqs) >= Len(row.reqs)
      <4>1. row.reqs \in Seq(Requirement)
        BY <1>1 DEF Run
      <4>. QED
        BY <1>2, <1>4, <4>1
    <3>. DEFINE other == leg'.run
                s == leg'.collected[k].step
    <3>4. /\ row \in Run /\ other \in Run /\ Len(other.reqs) >= Len(row.reqs) /\ Reviewed(row, s)
          /\ \A j \in 1..Len(row.reqs) : /\ other.reqs[j].kind = row.reqs[j].kind
                                        /\ other.reqs[j].step = row.reqs[j].step
      BY <1>1, <1>6, <1>7, <3>2, <3>3
    <3>. HIDE DEF other, s
    <3>5. Reviewed(other, s)
      BY <3>4, ReviewedKept
    <3>. QED
      BY <3>5 DEF other, s
  <2>. QED
    BY <2>1 DEF Passed
<1>. QED
  BY <1>4, <1>6, <1>9

LEMMA StopStep ==
    ASSUME TypeInv, StopInv, [Next]_vars
    PROVE  StopInv'
<1>1. /\ TypeOK /\ leg \in Leg /\ leg.run \in Run /\ row \in Run
      /\ leg.collected \in Seq(Output) /\ leg.retries \in Nat /\ leg.i \in 1..(N + 1)
  BY DEF TypeInv, TypeOK, Leg
<1>2. NoLeg.pc = "none" /\ NoLeg.collected = <<>>
  BY DEF NoLeg
<1>3. ASSUME NEW background \in BOOLEAN, Start(background)
      PROVE  StopInv'
  <2>. DEFINE run == [NoRun EXCEPT !.status = IF background THEN "pending" ELSE "running"]
  <2>1. run.status # "paused"
    BY DEF NoRun
  <2>2. /\ row' = (IF background THEN run ELSE row)
        /\ leg' = [NoLeg EXCEPT !.pc = "launch", !.run = run, !.first = TRUE, !.background = background]
    BY <1>3 DEF Start
  <2>. HIDE DEF run
  <2>3. leg'.pc = "launch" /\ leg'.collected = <<>>
    BY <2>2 DEF NoLeg
  <2>. QED
    BY <2>1, <2>2, <2>3 DEF StopInv, AtStep, Passed, Reviewed
<1>4. CASE Launch
  <2>. DEFINE run == [leg.run EXCEPT !.status = "running"]
  <2>1. run.status = "running"
    BY <1>1 DEF Run
  <2>2. /\ row' = (IF leg.background THEN run ELSE row) /\ leg.pc = "launch"
        /\ leg' = [leg EXCEPT !.pc = "head", !.run = run]
    BY <1>4 DEF Launch
  <2>. HIDE DEF run
  <2>3. leg'.collected = leg.collected /\ leg.collected = <<>>
    BY <1>1, <2>2 DEF Leg, StopInv
  <2>4. /\ Passed(leg'.collected, leg'.run, Len(leg'.collected))
        /\ Passed(leg'.collected, leg'.run, Len(leg'.collected) - 1)
    <3>1. Len(leg'.collected) = 0
      BY <2>3
    <3>2. 1..0 = {} /\ 1..(0 - 1) = {}
      OBVIOUS
    <3>. QED
      BY <3>1, <3>2 DEF Passed
  <2>5. leg'.pc = "head"
    BY <1>1, <2>2 DEF Leg
  <2>6. row'.status = "paused" => row' = row
    BY <2>1, <2>2
  <2>. QED
    BY <2>4, <2>5, <2>6 DEF StopInv, Passed, Reviewed
<1>5. CASE Continue
  <2>1. row.status = "paused" /\ leg.pc = "none"
    BY <1>5 DEF Continue
  <2>2. PICK answered \in Answers(row) :
           \E run \in Timely(answered) : (\E results \in Edited(run) : Resume(run, results)) \/ GiveUp(run)
    BY <1>5 DEF Continue
  <2>3. PICK run \in Timely(answered) : (\E results \in Edited(run) : Resume(run, results)) \/ GiveUp(run)
    BY <2>2
  <2>4. ASSUME NEW results \in Edited(run), Resume(run, results)
        PROVE  StopInv'
    <3>1. /\ leg'.pc = "head" /\ leg'.collected \in Seq(Output)
          /\ Passed(leg'.collected, leg'.run, Len(leg'.collected))
      BY <2>1, <2>4, ResumeStop
    <3>2. Passed(leg'.collected, leg'.run, Len(leg'.collected) - 1)
      <4>1. ASSUME NEW k \in 1..(Len(leg'.collected) - 1)
            PROVE  k \in 1..Len(leg'.collected)
        BY <3>1
      <4>. QED
        BY <3>1, <4>1 DEF Passed
    <3>3. row' = row
      BY <2>4 DEF Resume
    <3>. QED
      BY <3>1, <3>2, <3>3 DEF StopInv, Passed, Reviewed
  <2>5. CASE GiveUp(run)
    <3>1. run \in Run
      BY <1>1, <2>1, AnsweredType DEF SameButAnswer
    <3>2. row'.status = "cancelled" /\ leg' = leg
      BY <2>5, <3>1 DEF GiveUp, Run
    <3>. QED
      BY <2>1, <3>2 DEF StopInv, AtStep
  <2>. QED
    BY <2>3, <2>4, <2>5
<1>6. CASE Finish
  <2>1. [leg.run EXCEPT !.status = "completed", !.at = 0, !.results = leg.collected].status = "completed"
    BY <1>1 DEF Run
  <2>. QED
    BY <1>6, <2>1, EndLegStop DEF Finish
<1>7. CancelledRun.status = "cancelled"
  BY <1>1 DEF CancelledRun, Run
<1>8. CASE CheckCancelled
  BY <1>7, <1>8, EndLegStop DEF CheckCancelled
<1>9. ASSUME NEW kind \in {"confirm", "input", "review", "executor"}, NEW retries \in Nat,
             NEW outputs \in Seq(Output), leg.i \in Steps,
             \A k \in 1..Len(outputs) :
                 outputs[k].stop => \/ Reviewed(leg.run, outputs[k].step)
                                    \/ kind = "review" /\ outputs[k].step = leg.i
      PROVE  LET run == Paused(kind, outputs, retries) IN Passed(run.results, run, Len(run.results))
  <2>. DEFINE run == Paused(kind, outputs, retries)
  <2>1. /\ run \in Run /\ run.reqs # <<>> /\ Len(run.reqs) = Len(leg.run.reqs) + 1
        /\ \A k \in 1..Len(leg.run.reqs) : run.reqs[k] = leg.run.reqs[k]
        /\ LastOf(run.reqs).step = leg.i /\ LastOf(run.reqs).kind = kind
        /\ run.results = outputs
    BY <1>1, <1>9, PausedType
  <2>. HIDE DEF run
  <2>2. leg.run.reqs \in Seq(Requirement) /\ run.reqs \in Seq(Requirement)
    BY <1>1, <2>1 DEF Run
  <2>3. Len(run.reqs) >= Len(leg.run.reqs)
    BY <2>1, <2>2
  <2>4. kind = "review" => Reviewed(run, leg.i)
    <3>1. Len(run.reqs) \in DOMAIN run.reqs
      BY <2>1, <2>2
    <3>. QED
      BY <2>1, <3>1 DEF Reviewed, LastOf
  <2>5. ASSUME NEW k \in 1..Len(outputs), outputs[k].stop
        PROVE  Reviewed(run, outputs[k].step)
    <3>1. CASE Reviewed(leg.run, outputs[k].step)
      BY <1>1, <2>1, <2>3, <3>1, ReviewedKept
    <3>2. CASE kind = "review" /\ outputs[k].step = leg.i
      BY <2>4, <3>2
    <3>. QED
      BY <1>9, <2>5, <3>1, <3>2
  <2>6. Passed(run.results, run, Len(run.results))
    BY <2>1, <2>5 DEF Passed
  <2>. QED
    BY <2>6 DEF run
<1>10. CASE AskBefore
  <2>1. leg.i \in Steps /\ steps[leg.i].before \in {"confirm", "input"} /\ AtStep
    BY <1>1, <1>10, SettingsType DEF AskBefore, AtStep, SettingType
  <2>2. EndLeg(Paused(steps[leg.i].before, leg.collected, 0))
    BY <1>10 DEF AskBefore
  <2>3. Passed(leg.collected, leg.run, Len(leg.collected))
    BY <2>1 DEF StopInv
  <2>. QED
    BY <1>1, <1>9, <2>1, <2>2, <2>3, EndLegStop DEF Passed
<1>11. CASE Execute
  <2>1. leg' = [leg EXCEPT !.pc = "exec"] /\ AtStep /\ row' = row
    BY <1>11 DEF Execute
  <2>2. leg'.pc = "exec" /\ leg'.run = leg.run /\ leg'.collected = leg.collected
    BY <1>1, <2>1 DEF Leg
  <2>. QED
    BY <2>1, <2>2 DEF StopInv, AtStep, Passed, Reviewed
<1>12. leg.pc = "exec" => leg.i \in Steps /\ Passed(leg.collected, leg.run, Len(leg.collected))
  BY DEF TypeInv, TypeOK, StopInv
<1>13. ASSUME NEW stop \in BOOLEAN, Return(stop)
       PROVE  StopInv'
  <2>. DEFINE out == NewOutput(stop)
              outputs == Append(leg.collected, out)
  <2>1. leg.pc = "exec" /\ leg.i \in Steps
    BY <1>12, <1>13 DEF Return
  <2>2. /\ out.step = leg.i /\ out.stop = stop
        /\ outputs \in Seq(Output) /\ LastOf(outputs) = out
        /\ Len(outputs) = Len(leg.collected) + 1
        /\ \A k \in 1..Len(leg.collected) : outputs[k] = leg.collected[k]
    BY <1>1, <2>1, NewOutputType
  <2>3. \/ EndLeg(CancelledRun)
        \/ Advance(outputs)
        \/ Review(outputs)
    BY <1>13 DEF Return
  <2>. HIDE DEF out, outputs
  <2>4. Passed(outputs, leg.run, Len(leg.collected))
    BY <1>12, <2>1, <2>2 DEF Passed
  <2>5. /\ \A k \in 1..Len(outputs) : k \in 1..Len(leg.collected) \/ outputs[k] = out
        /\ Len(outputs) - 1 = Len(leg.collected)
    BY <1>1, <2>2 DEF LastOf
  <2>6. CASE EndLeg(CancelledRun)
    BY <1>7, <2>6, EndLegStop
  <2>7. CASE Advance(outputs)
    <3>. DEFINE next == IF LastOf(outputs).stop THEN N + 1 ELSE leg.i + 1
                executor == IF Routed THEN 0 ELSE leg.executor
    <3>1. /\ leg' = [leg EXCEPT !.pc = "head", !.i = next, !.collected = outputs, !.executor = executor]
          /\ row' = row
      BY <2>7 DEF Advance
    <3>2. next \in Steps => ~stop
      BY <2>2, WorkflowRunsAssumption DEF Steps
    <3>. HIDE DEF next, executor
    <3>3. leg'.pc = "head" /\ leg'.i = next /\ leg'.run = leg.run /\ leg'.collected = outputs
      BY <1>1, <3>1 DEF Leg
    <3>4. next \in Steps => Passed(outputs, leg.run, Len(outputs))
      BY <2>2, <2>4, <2>5, <3>2 DEF Passed
    <3>5. AtStep' => next \in Steps
      BY <3>3 DEF AtStep, Steps
    <3>6. row'.status = "paused" => Passed(row'.results, row', Len(row'.results))
      BY <3>1 DEF StopInv
    <3>7. Passed(outputs, leg.run, Len(outputs) - 1)
      BY <2>4, <2>5
    <3>. QED
      BY <3>3, <3>4, <3>5, <3>6, <3>7 DEF StopInv, Passed, Reviewed
  <2>8. CASE Review(outputs)
    <3>. DEFINE retries == IF Routed THEN 0 ELSE leg.retries
    <3>1. retries \in Nat /\ EndLeg(Paused("review", outputs, retries))
      BY <1>1, <2>8 DEF Review
    <3>. HIDE DEF retries
    <3>2. ASSUME NEW k \in 1..Len(outputs), outputs[k].stop
          PROVE  Reviewed(leg.run, outputs[k].step) \/ outputs[k].step = leg.i
      BY <2>2, <2>4, <2>5, <3>2 DEF Passed
    <3>. QED
      BY <1>9, <2>1, <2>2, <3>1, <3>2, EndLegStop
  <2>. QED
    BY <2>3, <2>6, <2>7, <2>8
<1>14. CASE ExecutorPauses
  <2>1. leg.pc = "exec" /\ EndLeg(Paused("executor", leg.collected, 0))
    BY <1>14 DEF ExecutorPauses
  <2>. QED
    BY <1>1, <1>9, <1>12, <2>1, EndLegStop DEF Passed
<1>15. CASE ErrorPauses
  <2>. DEFINE base == PausedAt(leg.i, leg.collected)
              run == [base EXCEPT !.err = "open"]
  <2>1. leg.pc = "exec" /\ EndLeg(run)
    BY <1>15 DEF ErrorPauses
  <2>2. base \in Run /\ base.results = leg.collected /\ base.reqs = leg.run.reqs
    BY <1>1, <1>12, <2>1, PausedAtType
  <2>. HIDE DEF base
  <2>3. run.results = leg.collected /\ run.reqs = leg.run.reqs
    BY <2>2 DEF Run
  <2>. HIDE DEF run
  <2>4. Passed(run.results, run, Len(run.results))
    BY <1>12, <2>1, <2>3 DEF Passed, Reviewed
  <2>. QED
    BY <2>1, <2>4, EndLegStop
<1>16. CASE Fail
  <2>. DEFINE run == [leg.run EXCEPT !.status = "error"]
  <2>1. run.status = "error"
    BY <1>1 DEF Run
  <2>2. \/ (row' = run \/ row' = row) /\ leg' = NoLeg
        \/ EndLeg(run)
    BY <1>16 DEF Fail
  <2>. HIDE DEF run
  <2>3. CASE (row' = run \/ row' = row) /\ leg' = NoLeg
    BY <1>2, <2>1, <2>3 DEF StopInv, AtStep, Passed, Reviewed
  <2>4. CASE EndLeg(run)
    BY <2>1, <2>4, EndLegStop
  <2>. QED
    BY <2>2, <2>3, <2>4
<1>17. CASE Cleanup \/ Crash
  <2>1. leg' = NoLeg /\ row' = row
    BY <1>17 DEF Cleanup, Crash
  <2>. QED
    BY <1>2, <2>1 DEF StopInv, AtStep, Passed, Reviewed
<1>18. CASE Cancel \/ UNCHANGED vars
  <2>1. UNCHANGED <<row, leg>>
    BY <1>18 DEF Cancel, vars
  <2>. QED
    BY <2>1 DEF StopInv, AtStep, Passed, Reviewed
<1>. QED
  BY <1>3, <1>4, <1>5, <1>6, <1>8, <1>10, <1>11, <1>13, <1>14, <1>15, <1>16, <1>17, <1>18 DEF Next

(* Nothing is executed after a step that asked to stop, however the run is     *)
(* continued, unless that step's output was given to a human to review.       *)
THEOREM StopIsFinal == Spec => []StopEnds
<1>1. Init => StopInv
  BY DEF Init, StopInv, NoRun, NoLeg, AtStep
<1>2. TypeInv /\ StopInv /\ [Next]_vars => StopInv'
  BY StopStep
<1>3. TypeInv /\ StopInv => StopEnds
  <2>1. ASSUME TypeInv, StopInv, NEW k \in DOMAIN leg.collected, leg.collected[k].stop,
               k < Len(leg.collected)
        PROVE  Reviewed(leg.run, leg.collected[k].step)
    <3>1. /\ leg.collected \in Seq(Output) /\ leg.i \in 1..(N + 1)
          /\ leg.pc \in {"none", "launch", "head", "exec", "cleanup"}
      BY <2>1 DEF TypeInv, TypeOK, Leg
    <3>2. k \in 1..(Len(leg.collected) - 1) /\ k \in 1..Len(leg.collected) /\ leg.collected # <<>>
      BY <2>1, <3>1
    <3>. QED
      BY <2>1, <3>1, <3>2 DEF StopInv, Passed
  <2>. QED
    BY <2>1 DEF StopEnds, Reviewed
<1>. QED
  BY <1>1, <1>2, <1>3, TypeInvariant, PTL DEF Spec

-----------------------------------------------------------------------------
(* What a step does to the row and to the leg. *)

RowStays == row' = row \/ row'.status \in {"pending", "running", "cancelled", "error"}

Begins ==
    /\ RowStays
    /\ leg'.pc = "launch" /\ leg'.i = 1 /\ leg'.start = 0 /\ leg'.resolved = 0
    /\ leg'.executor = 0 /\ leg'.retries = 0
    /\ leg'.collected = <<>> /\ leg'.run.reqs = <<>>

Resumes(run, results) ==
    /\ row.status = "paused" /\ leg.pc = "none"
    /\ \E answered \in Answers(row) : run \in Timely(answered)
    /\ results \in Edited(run) /\ Resume(run, results)

(* The leg goes on, with the same step or after it. *)
Goes(i, outputs) ==
    /\ RowStays
    /\ leg.pc \in {"launch", "head", "exec"} /\ leg'.pc \in {"head", "exec"}
    /\ leg'.i = i /\ leg'.collected = outputs
    /\ leg'.start = leg.start /\ leg'.resolved = leg.resolved /\ leg'.retries = leg.retries
    /\ leg'.executor \in {0, leg.executor}
    /\ leg'.run.reqs = leg.run.reqs /\ leg'.run.past = leg.run.past

Advances(stop) ==
    leg.i \in Steps /\ Goes(IF stop THEN N + 1 ELSE leg.i + 1, Append(leg.collected, NewOutput(stop)))

(* The run is stored, and is over. *)
Ends(run) ==
    /\ run.status \in {"completed", "cancelled", "error"}
    /\ run.reqs = leg.run.reqs
    /\ run.status = "completed" => leg.i = N + 1 /\ run.results = leg.collected

(* It waits: with a requirement, or for the decision about an error. *)
Waiting(run) ==
    /\ leg.i \in Steps /\ run.status = "paused" /\ run.at = leg.i

Asks(run, kind, retries) ==
    /\ Waiting(run) /\ run.err = "none"
    /\ run.reqs # <<>> /\ Len(run.reqs) = Len(leg.run.reqs) + 1
    /\ \A k \in 1..Len(leg.run.reqs) : run.reqs[k] = leg.run.reqs[k]
    /\ LastOf(run.reqs).step = leg.i /\ LastOf(run.reqs).kind = kind
    /\ LastOf(run.reqs).verdict = "open" /\ LastOf(run.reqs).retries = retries

AsksBefore(run) ==
    /\ \E kind \in {"confirm", "input"} : Asks(run, kind, 0)
    /\ run.results = leg.collected /\ ~Routed /\ leg.i # leg.resolved

AsksAfter(run) ==
    /\ Asks(run, "review", IF Routed THEN 0 ELSE leg.retries)
    /\ \E stop \in BOOLEAN : run.results = Append(leg.collected, NewOutput(stop))

AsksWithin(run) == Asks(run, "executor", 0) /\ run.results = leg.collected

Errs(run) ==
    Waiting(run) /\ run.err = "open" /\ run.reqs = leg.run.reqs /\ run.results = leg.collected

Stores(run) ==
    /\ EndLeg(run) /\ run \in Run /\ run.past = leg.run.past /\ leg.pc \in {"head", "exec"}
    /\ Ends(run) \/ AsksBefore(run) \/ AsksAfter(run) \/ AsksWithin(run) \/ Errs(run)

LEMMA PausedAsks ==
    ASSUME TypeInv, leg.i \in Steps, NEW outputs \in Seq(Output), NEW retries \in Nat,
           NEW kind \in {"confirm", "input", "review", "executor"}, leg.run.err = "none"
    PROVE  LET run == Paused(kind, outputs, retries) IN
           /\ run \in Run /\ run.past = leg.run.past /\ run.results = outputs
           /\ Asks(run, kind, retries)
<1>. DEFINE run == Paused(kind, outputs, retries)
<1>1. /\ run \in Run
      /\ run.status = "paused" /\ run.at = leg.i
      /\ run.reqs # <<>> /\ Len(run.reqs) = Len(leg.run.reqs) + 1
      /\ \A k \in 1..Len(leg.run.reqs) : run.reqs[k] = leg.run.reqs[k]
      /\ LastOf(run.reqs).step = leg.i /\ LastOf(run.reqs).kind = kind
      /\ LastOf(run.reqs).verdict = "open" /\ LastOf(run.reqs).retries = retries
      /\ run.err = leg.run.err /\ run.past = leg.run.past
      /\ run.results = outputs
  BY PausedType DEF TypeInv
<1>. HIDE DEF run
<1>2. /\ run \in Run /\ run.past = leg.run.past /\ run.results = outputs
      /\ Asks(run, kind, retries)
  BY <1>1 DEF Asks, Waiting
<1>. QED
  BY <1>2 DEF run

LEMMA StepShape ==
    ASSUME TypeInv, [Next]_vars
    PROVE  \/ RowStays /\ leg' \in {leg, NoLeg}
           \/ Begins
           \/ \E run, results : Resumes(run, results) /\ row' = row
           \/ Goes(leg.i, leg.collected) /\ leg'.executor = leg.executor
           \/ \E stop \in BOOLEAN : Advances(stop)
           \/ \E run : Stores(run)
<1>1. /\ TypeOK /\ leg \in Leg /\ leg.run \in Run /\ row \in Run
      /\ leg.collected \in Seq(Output) /\ leg.retries \in Nat /\ leg.i \in 1..(N + 1)
      /\ leg.pc \in {"none", "launch", "head", "exec", "cleanup"}
  BY DEF TypeInv, TypeOK, Leg
<1>2. leg.pc \in {"head", "exec"} => leg.run.err = "none"
  BY DEF TypeInv
<1>3. ASSUME NEW background \in BOOLEAN, Start(background)
      PROVE  Begins
  <2>. DEFINE run == [NoRun EXCEPT !.status = IF background THEN "pending" ELSE "running"]
  <2>1. run.status \in {"pending", "running"} /\ run.reqs = <<>>
    BY DEF NoRun
  <2>2. /\ row' = (IF background THEN run ELSE row)
        /\ leg' = [NoLeg EXCEPT !.pc = "launch", !.run = run, !.first = TRUE, !.background = background]
    BY <1>3 DEF Start
  <2>. HIDE DEF run
  <2>3. /\ leg'.pc = "launch" /\ leg'.i = 1 /\ leg'.start = 0 /\ leg'.resolved = 0
        /\ leg'.executor = 0 /\ leg'.retries = 0 /\ leg'.collected = <<>> /\ leg'.run = run
    BY <2>2 DEF NoLeg
  <2>. QED
    BY <2>1, <2>2, <2>3 DEF Begins, RowStays
<1>4. CASE Launch
  <2>. DEFINE run == [leg.run EXCEPT !.status = "running"]
  <2>1. run.status = "running" /\ run.reqs = leg.run.reqs /\ run.past = leg.run.past
    BY <1>1 DEF Run
  <2>2. /\ row' = (IF leg.background THEN run ELSE row) /\ leg.pc = "launch"
        /\ leg' = [leg EXCEPT !.pc = "head", !.run = run]
    BY <1>4 DEF Launch
  <2>. HIDE DEF run
  <2>3. /\ leg'.pc = "head" /\ leg'.i = leg.i /\ leg'.collected = leg.collected
        /\ leg'.start = leg.start /\ leg'.resolved = leg.resolved /\ leg'.retries = leg.retries
        /\ leg'.executor = leg.executor /\ leg'.run = run
    BY <1>1, <2>2 DEF Leg
  <2>4. Goes(leg.i, leg.collected)
    BY <2>1, <2>2, <2>3 DEF Goes, RowStays
  <2>. QED
    BY <2>3, <2>4
<1>5. CASE Continue
  <2>1. row.status = "paused" /\ leg.pc = "none"
    BY <1>5 DEF Continue
  <2>2. PICK answered \in Answers(row) :
           \E run \in Timely(answered) : (\E results \in Edited(run) : Resume(run, results)) \/ GiveUp(run)
    BY <1>5 DEF Continue
  <2>3. PICK run \in Timely(answered) : (\E results \in Edited(run) : Resume(run, results)) \/ GiveUp(run)
    BY <2>2
  <2>4. ASSUME NEW results \in Edited(run), Resume(run, results)
        PROVE  Resumes(run, results) /\ row' = row
    BY <2>1, <2>4 DEF Resumes, Resume
  <2>5. CASE GiveUp(run)
    <3>1. run \in Run
      BY <1>1, <2>1, AnsweredType DEF SameButAnswer
    <3>2. row'.status = "cancelled" /\ leg' = leg
      BY <2>5, <3>1 DEF GiveUp, Run
    <3>. QED
      BY <3>2 DEF RowStays
  <2>. QED
    BY <2>3, <2>4, <2>5
<1>6. CASE Finish
  <2>. DEFINE run == [leg.run EXCEPT !.status = "completed", !.at = 0, !.results = leg.collected]
  <2>1. EndLeg(run) /\ leg.pc = "head" /\ leg.i = N + 1
    BY <1>6 DEF Finish
  <2>2. /\ run \in Run /\ run.status = "completed" /\ run.reqs = leg.run.reqs
        /\ run.past = leg.run.past /\ run.results = leg.collected
    <3>1. 0 \in 0..N
      BY WorkflowRunsAssumption
    <3>. QED
      BY <1>1, <3>1 DEF Run
  <2>. HIDE DEF run
  <2>3. Stores(run)
    BY <2>1, <2>2 DEF Stores, Ends
  <2>. QED
    BY <2>3
<1>7. ASSUME EndLeg(CancelledRun), leg.pc \in {"head", "exec"}
      PROVE  Stores(CancelledRun)
  <2>1. /\ CancelledRun \in Run /\ CancelledRun.status = "cancelled"
        /\ CancelledRun.reqs = leg.run.reqs /\ CancelledRun.past = leg.run.past
    BY <1>1 DEF CancelledRun, Run
  <2>. QED
    BY <1>7, <2>1 DEF Stores, Ends
<1>8. CASE CheckCancelled
  <2>1. EndLeg(CancelledRun) /\ leg.pc = "head"
    BY <1>8 DEF CheckCancelled, AtStep
  <2>. QED
    BY <1>7, <2>1
<1>9. CASE AskBefore
  <2>. DEFINE run == Paused(steps[leg.i].before, leg.collected, 0)
  <2>1. /\ leg.i \in Steps /\ steps[leg.i].before \in {"confirm", "input"} /\ leg.pc = "head"
        /\ EndLeg(run) /\ ~Routed /\ leg.i # leg.resolved
    BY <1>1, <1>9, SettingsType DEF AskBefore, AtStep, SettingType
  <2>2. /\ run \in Run /\ run.past = leg.run.past /\ run.results = leg.collected
        /\ Asks(run, steps[leg.i].before, 0)
    BY <1>1, <1>2, <2>1, PausedAsks
  <2>. HIDE DEF run
  <2>3. Stores(run)
    BY <2>1, <2>2 DEF Stores, AsksBefore
  <2>. QED
    BY <2>3
<1>10. CASE Execute
  <2>1. leg' = [leg EXCEPT !.pc = "exec"] /\ leg.pc = "head" /\ row' = row
    BY <1>10 DEF Execute, AtStep
  <2>2. /\ leg'.pc = "exec" /\ leg'.i = leg.i /\ leg'.collected = leg.collected
        /\ leg'.start = leg.start /\ leg'.resolved = leg.resolved /\ leg'.retries = leg.retries
        /\ leg'.executor = leg.executor /\ leg'.run = leg.run
    BY <1>1, <2>1 DEF Leg
  <2>. QED
    BY <2>1, <2>2 DEF Goes, RowStays
<1>11. leg.pc = "exec" => leg.i \in Steps
  BY DEF TypeInv, TypeOK
<1>12. ASSUME NEW stop \in BOOLEAN, Return(stop)
       PROVE  Advances(stop) \/ \E run : Stores(run)
  <2>. DEFINE outputs == Append(leg.collected, NewOutput(stop))
  <2>1. leg.pc = "exec" /\ leg.i \in Steps
    BY <1>11, <1>12 DEF Return
  <2>2. LastOf(outputs).stop = stop /\ outputs \in Seq(Output)
    BY <1>1, <2>1, NewOutputType
  <2>3. EndLeg(CancelledRun) \/ Advance(outputs) \/ Review(outputs)
    BY <1>12 DEF Return
  <2>. HIDE DEF outputs
  <2>4. CASE EndLeg(CancelledRun)
    BY <1>7, <2>1, <2>4
  <2>5. CASE Advance(outputs)
    <3>. DEFINE next == IF stop THEN N + 1 ELSE leg.i + 1
                executor == IF Routed THEN 0 ELSE leg.executor
    <3>1. /\ leg' = [leg EXCEPT !.pc = "head", !.i = next, !.collected = outputs, !.executor = executor]
          /\ row' = row
      BY <2>2, <2>5 DEF Advance
    <3>2. executor \in {0, leg.executor}
      OBVIOUS
    <3>. HIDE DEF next, executor
    <3>3. /\ leg'.pc = "head" /\ leg'.i = next /\ leg'.collected = outputs
          /\ leg'.start = leg.start /\ leg'.resolved = leg.resolved /\ leg'.retries = leg.retries
          /\ leg'.executor = executor /\ leg'.run = leg.run
      BY <1>1, <3>1 DEF Leg
    <3>4. Goes(next, outputs)
      BY <2>1, <3>1, <3>2, <3>3 DEF Goes, RowStays
    <3>. QED
      BY <2>1, <3>4 DEF Advances, next, outputs
  <2>6. CASE Review(outputs)
    <3>. DEFINE retries == IF Routed THEN 0 ELSE leg.retries
                run == Paused("review", outputs, retries)
    <3>1. retries \in Nat /\ EndLeg(run)
      BY <1>1, <2>6 DEF Review
    <3>2. /\ run \in Run /\ run.past = leg.run.past /\ run.results = outputs
          /\ Asks(run, "review", retries)
      <4>. HIDE DEF retries
      <4>. QED
        BY <1>2, <2>1, <2>2, <3>1, PausedAsks
    <3>. HIDE DEF run
    <3>3. AsksAfter(run)
      BY <3>2 DEF AsksAfter, outputs, retries
    <3>4. Stores(run)
      BY <2>1, <3>1, <3>2, <3>3 DEF Stores
    <3>. QED
      BY <3>4
  <2>. QED
    BY <2>3, <2>4, <2>5, <2>6
<1>13. CASE ExecutorPauses
  <2>. DEFINE run == Paused("executor", leg.collected, 0)
  <2>1. leg.pc = "exec" /\ leg.i \in Steps /\ EndLeg(run)
    BY <1>11, <1>13 DEF ExecutorPauses
  <2>2. /\ run \in Run /\ run.past = leg.run.past /\ run.results = leg.collected
        /\ Asks(run, "executor", 0)
    BY <1>1, <1>2, <2>1, PausedAsks
  <2>. HIDE DEF run
  <2>3. Stores(run)
    BY <2>1, <2>2 DEF Stores, AsksWithin
  <2>. QED
    BY <2>3
<1>14. CASE ErrorPauses
  <2>. DEFINE base == PausedAt(leg.i, leg.collected)
              run == [base EXCEPT !.err = "open"]
  <2>1. leg.pc = "exec" /\ leg.i \in Steps /\ EndLeg(run)
    BY <1>11, <1>14 DEF ErrorPauses
  <2>2. /\ base \in Run /\ base.status = "paused" /\ base.at = leg.i
        /\ base.reqs = leg.run.reqs /\ base.past = leg.run.past /\ base.results = leg.collected
    BY <1>1, <2>1, PausedAtType
  <2>. HIDE DEF base
  <2>3. /\ run \in Run /\ run.status = "paused" /\ run.at = leg.i /\ run.err = "open"
        /\ run.reqs = leg.run.reqs /\ run.past = leg.run.past /\ run.results = leg.collected
    BY <2>2 DEF Run
  <2>. HIDE DEF run
  <2>4. Stores(run)
    BY <2>1, <2>3 DEF Stores, Errs, Waiting
  <2>. QED
    BY <2>4
<1>15. CASE Fail
  <2>. DEFINE run == [leg.run EXCEPT !.status = "error"]
  <2>1. run \in Run /\ run.status = "error" /\ run.reqs = leg.run.reqs /\ run.past = leg.run.past
    BY <1>1 DEF Run
  <2>2. /\ leg.pc = "exec"
        /\ \/ (row' = run \/ row' = row) /\ leg' = NoLeg
           \/ EndLeg(run)
    BY <1>15 DEF Fail
  <2>. HIDE DEF run
  <2>3. EndLeg(run) => Stores(run)
    BY <2>1, <2>2 DEF Stores, Ends
  <2>. QED
    BY <2>1, <2>2, <2>3 DEF RowStays
<1>16. CASE Cleanup \/ Crash \/ Cancel \/ UNCHANGED vars
  BY <1>16 DEF Cleanup, Crash, Cancel, vars, RowStays
<1>. QED
  BY <1>3, <1>4, <1>5, <1>6, <1>8, <1>9, <1>10, <1>12, <1>13, <1>14, <1>15, <1>16 DEF Next

-----------------------------------------------------------------------------
(* No output is dropped.                                                     *)

(* There is an output of the step, or an earlier step asked to stop. *)
Covered(outs, s) == \E k \in DOMAIN outs : outs[k].step = s \/ (outs[k].step < s /\ outs[k].stop)

(* The steps before the n-th are covered, but for those humans skipped. *)
Complete(outs, past, n) == \A s \in Steps \ past.skipped : s < n => Covered(outs, s)

(* What a paused run waits for a review of is there, too. *)
RowComplete ==
    row.status = "paused" /\ ~row.past.stale =>
        /\ Complete(row.results, row.past, row.at)
        /\ row.err = "none" /\ ActiveKind(row, "review") => Covered(row.results, row.at)

LegComplete ==
    leg.pc \in {"launch", "head", "exec"} /\ ~leg.run.past.stale
        => Complete(leg.collected, leg.run.past, leg.i)

DropInv == NothingDropped /\ RowComplete /\ LegComplete

LEMMA CoveredGrows ==
    ASSUME NEW outs \in Seq(Output), NEW out \in Output, NEW s \in Steps
    PROVE  /\ Covered(outs, s) => Covered(Append(outs, out), s)
           /\ out.step = s => Covered(Append(outs, out), s)
           /\ out.step < s /\ out.stop => Covered(Append(outs, out), s)
<1>. DEFINE new == Append(outs, out)
<1>1. /\ new \in Seq(Output) /\ Len(new) = Len(outs) + 1 /\ LastOf(new) = out
      /\ \A k \in 1..Len(outs) : new[k] = outs[k]
  BY AppendType
<1>2. DOMAIN outs = 1..Len(outs) /\ DOMAIN new = 1..(Len(outs) + 1) /\ Len(outs) \in Nat
  BY <1>1
<1>3. new[Len(outs) + 1] = out /\ Len(outs) + 1 \in DOMAIN new
  BY <1>1, <1>2 DEF LastOf
<1>4. \A k \in DOMAIN outs : k \in DOMAIN new /\ new[k] = outs[k]
  BY <1>1, <1>2
<1>. HIDE DEF new
<1>. QED
  BY <1>3, <1>4 DEF Covered, new

(* The output of a step is appended. *)
LEMMA CompleteGrows ==
    ASSUME NEW outs \in Seq(Output), NEW out \in Output, NEW i \in Steps, out.step = i,
           NEW past, Complete(outs, past, i)
    PROVE  LET new == Append(outs, out) IN
           /\ Covered(new, i)
           /\ Complete(new, past, i)
           /\ Complete(new, past, i + 1)
           /\ out.stop => Complete(new, past, N + 1)
<1>1. \A s \in Steps : s \in Nat /\ (s = i \/ s < i \/ i < s)
  BY DEF Steps
<1>2. \A s \in Steps : s < i + 1 => s = i \/ s < i
  BY DEF Steps
<1>. QED
  BY <1>1, <1>2, CoveredGrows DEF Complete

LEMMA CoveredShrinks ==
    ASSUME NEW outs \in Seq(Output), outs # <<>>, NEW s \in Steps, s < LastOf(outs).step,
           Covered(outs, s)
    PROVE  Covered(ButLast(outs), s)
<1>. DEFINE new == ButLast(outs)
            last == LastOf(outs)
<1>1. /\ new \in Seq(Output) /\ Len(new) = Len(outs) - 1
      /\ \A k \in 1..Len(outs) - 1 : new[k] = outs[k]
  BY ButLastType
<1>2. last \in Output /\ last = outs[Len(outs)]
  BY LastType DEF LastOf
<1>3. last.step \in Nat /\ s \in Nat
  BY <1>2 DEF Output, Steps
<1>. HIDE DEF new, last
<1>4. PICK k \in DOMAIN outs : outs[k].step = s \/ (outs[k].step < s /\ outs[k].stop)
  BY DEF Covered
<1>5. k # Len(outs)
  <2>1. s < last.step
    BY DEF last
  <2>. QED
    BY <1>2, <1>3, <1>4, <2>1
<1>6. k \in 1..Len(outs) - 1
  BY <1>4, <1>5
<1>7. k \in DOMAIN new /\ new[k] = outs[k]
  BY <1>1, <1>6
<1>. QED
  BY <1>4, <1>7 DEF Covered, new

LEMMA CoveredEdited ==
    ASSUME NEW run \in Run, NEW results \in Edited(run), NEW s, Covered(run.results, s)
    PROVE  Covered(results, s)
<1>1. /\ run.results \in Seq(Output) /\ results \in Seq(Output)
      /\ Len(results) = Len(run.results)
      /\ \A k \in 1..Len(results) : /\ results[k].step = run.results[k].step
                                    /\ results[k].stop = run.results[k].stop
  BY EditedType DEF Run
<1>2. DOMAIN results = DOMAIN run.results /\ DOMAIN results = 1..Len(results)
  BY <1>1
<1>. QED
  BY <1>1, <1>2 DEF Covered

(* A leg starts with the step the run was paused at, or after it if that step *)
(* was skipped, or has an output that was accepted; it drops an output only  *)
(* of that step.                                                             *)
LEMMA ResumeComplete ==
    ASSUME TypeInv, OutputInv, RowComplete, NEW run, NEW results, Resumes(run, results)
    PROVE  LegComplete'
<1>1. PICK answered \in Answers(row) : run \in Timely(answered)
  BY DEF Resumes
<1>2. /\ row.status = "paused" /\ results \in Edited(run) /\ Resume(run, results)
  BY DEF Resumes
<1>3. /\ run \in Run /\ run.at = row.at /\ run.past = row.past /\ run.results = row.results
      /\ (run.reqs = <<>>) <=> (row.reqs = <<>>)
      /\ row.at \in Steps /\ row.err \in {"none", "open"}
      /\ row.err = "open" => run.err \in {"retry", "skip"}
      /\ row.err = "none" => run.err = "none"
      /\ row \in Run
  BY <1>1, <1>2, AnsweredType DEF SameButAnswer, TypeInv, Storable
<1>4. run.reqs # <<>> => LastOf(run.reqs).kind = LastOf(row.reqs).kind
  BY <1>1, <1>2, <1>3, AnsweredType DEF TypeInv
<1>5. ActiveKind(run, "review") <=> ActiveKind(row, "review")
  BY <1>3, <1>4 DEF ActiveKind
<1>6. run.err = "none" /\ ActiveKind(run, "review") => run.results # <<>>
  BY <1>2, <1>3, <1>5 DEF TypeInv, Storable
<1>7. /\ leg'.pc = "head" /\ leg'.i = StartIndex(run)
      /\ leg'.collected = IF RemoveLast(run) /\ results # <<>> THEN ButLast(results) ELSE results
      /\ leg'.run.past = Noted(run)
  BY <1>2, <1>3, <1>6, ResumeType
<1>. SUFFICES ASSUME ~Noted(run).stale
              PROVE  Complete(leg'.collected, Noted(run), leg'.i)
  BY <1>7 DEF LegComplete
<1>8. ~row.past.stale /\ (run.err = "none" \/ run.reqs = <<>>)
  BY <1>3 DEF Noted
<1>9. /\ Noted(run).skipped = row.past.skipped \cup (IF Rejected(run, "skip") \/ run.err = "skip" THEN {row.at} ELSE {})
  BY <1>3 DEF Noted
<1>10. /\ Complete(row.results, row.past, row.at)
       /\ run.err = "none" /\ ActiveKind(run, "review") => Covered(row.results, row.at)
  BY <1>2, <1>3, <1>5, <1>8 DEF RowComplete
<1>11. ASSUME NEW s \in Steps \ Noted(run).skipped, s < row.at
       PROVE  Covered(leg'.collected, s)
  <2>1. Covered(results, s)
    <3>1. Covered(run.results, s)
      BY <1>3, <1>9, <1>10, <1>11 DEF Complete
    <3>. QED
      BY <1>2, <1>3, <3>1, CoveredEdited
  <2>2. CASE RemoveLast(run) /\ results # <<>>
    <3>1. run.err = "none" /\ ActiveKind(run, "review")
      BY <1>8, <2>2 DEF RemoveLast, ActiveKind
    <3>2. LastOf(row.results).step = row.at
      BY <1>2, <1>3, <1>5, <3>1 DEF OutputInv, Kept
    <3>3. LastOf(results).step = row.at
      BY <1>2, <1>3, <2>2, <3>2, OutputsEdited
    <3>4. results \in Seq(Output)
      BY <1>2, <1>3, EditedType
    <3>5. Covered(ButLast(results), s)
      BY <1>11, <2>1, <2>2, <3>3, <3>4, CoveredShrinks
    <3>. QED
      BY <1>7, <2>2, <3>5
  <2>3. CASE ~(RemoveLast(run) /\ results # <<>>)
    BY <1>7, <2>1, <2>3
  <2>. QED
    BY <2>2, <2>3
<1>12. ASSUME leg'.i # row.at, row.at \notin Noted(run).skipped
       PROVE  Covered(leg'.collected, row.at)
  <2>1. ~Rejected(run, "skip") /\ run.err # "skip"
    BY <1>9, <1>12
  <2>2. ActiveKind(run, "review") /\ ~Rejected(run, "retry")
    BY <1>3, <1>7, <1>12, <2>1 DEF StartIndex
  <2>3. run.err = "none"
    BY <1>8, <2>2 DEF ActiveKind
  <2>4. Covered(results, row.at)
    BY <1>2, <1>3, <1>10, <2>2, <2>3, CoveredEdited
  <2>5. leg'.collected = results
    BY <1>7, <2>1, <2>2 DEF RemoveLast
  <2>. QED
    BY <2>4, <2>5
<1>13. leg'.i = row.at \/ leg'.i = row.at + 1
  BY <1>3, <1>7, StartIndexType
<1>14. ASSUME NEW s \in Steps, s < leg'.i
       PROVE  s < row.at \/ (s = row.at /\ leg'.i # row.at)
  BY <1>3, <1>13, <1>14 DEF Steps
<1>. QED
  BY <1>11, <1>12, <1>14 DEF Complete

LEMMA DropStep ==
    ASSUME TypeInv, OutputInv, DropInv, [Next]_vars
    PROVE  DropInv'
<1>1. /\ TypeOK /\ leg.collected \in Seq(Output) /\ leg.pc \in {"none", "launch", "head", "exec", "cleanup"}
      /\ leg.i \in 1..(N + 1)
  BY DEF TypeInv, TypeOK, Leg
<1>2. ASSUME RowStays
      PROVE  NothingDropped' /\ RowComplete'
  <2>1. CASE row' = row
    BY <2>1 DEF DropInv, NothingDropped, RowComplete, ActiveKind
  <2>2. CASE row'.status \in {"pending", "running", "cancelled", "error"}
    BY <2>2 DEF NothingDropped, RowComplete
  <2>. QED
    BY <1>2, <2>1, <2>2 DEF RowStays
<1>3. CASE RowStays /\ leg' \in {leg, NoLeg}
  <2>1. NoLeg.pc = "none"
    BY DEF NoLeg
  <2>2. LegComplete'
    BY <1>3, <2>1 DEF DropInv, LegComplete
  <2>. QED
    BY <1>2, <1>3, <2>2 DEF DropInv
<1>4. CASE Begins
  <2>1. Complete(leg'.collected, leg'.run.past, 1)
    BY DEF Complete, Steps
  <2>2. LegComplete' /\ RowStays
    BY <1>4, <2>1 DEF Begins, LegComplete
  <2>. QED
    BY <1>2, <2>2 DEF DropInv
<1>5. ASSUME NEW run, NEW results, Resumes(run, results), row' = row
      PROVE  DropInv'
  <2>1. LegComplete'
    BY <1>5, ResumeComplete DEF DropInv
  <2>. QED
    BY <1>2, <1>5, <2>1 DEF DropInv, RowStays
<1>6. CASE Goes(leg.i, leg.collected)
  <2>1. LegComplete' /\ RowStays
    BY <1>6 DEF Goes, DropInv, LegComplete
  <2>. QED
    BY <1>2, <2>1 DEF DropInv
<1>7. ASSUME NEW stop \in BOOLEAN, leg.i \in Steps, leg.pc \in {"launch", "head", "exec"}, ~leg.run.past.stale
      PROVE  LET new == Append(leg.collected, NewOutput(stop)) IN
             /\ Covered(new, leg.i) /\ Complete(new, leg.run.past, leg.i)
             /\ Complete(new, leg.run.past, IF stop THEN N + 1 ELSE leg.i + 1)
  <2>1. NewOutput(stop) \in Output /\ NewOutput(stop).step = leg.i /\ NewOutput(stop).stop = stop
    BY <1>1, <1>7, NewOutputType
  <2>2. Complete(leg.collected, leg.run.past, leg.i)
    BY <1>7 DEF DropInv, LegComplete
  <2>. QED
    BY <1>1, <1>7, <2>1, <2>2, CompleteGrows
<1>8. ASSUME NEW stop \in BOOLEAN, Advances(stop)
      PROVE  DropInv'
  <2>1. LegComplete' /\ RowStays
    BY <1>7, <1>8 DEF Advances, Goes, LegComplete
  <2>. QED
    BY <1>2, <2>1 DEF DropInv
<1>9. ASSUME NEW run, Stores(run)
      PROVE  DropInv'
  <2>1. row' = run /\ leg'.pc \in {"none", "cleanup"}
    BY <1>9 DEF Stores, EndLeg, NoLeg
  <2>2. LegComplete'
    BY <2>1 DEF LegComplete
  <2>3. run.past = leg.run.past /\ leg.pc \in {"head", "exec"}
    BY <1>9 DEF Stores
  <2>. SUFFICES ASSUME ~leg.run.past.stale
                PROVE  NothingDropped' /\ RowComplete'
    BY <2>1, <2>2, <2>3 DEF DropInv, NothingDropped, RowComplete
  <2>4. Complete(leg.collected, leg.run.past, leg.i)
    BY <2>3 DEF DropInv, LegComplete
  <2>5. CASE Ends(run)
    <3>1. RowComplete'
      BY <2>1, <2>5 DEF Ends, RowComplete
    <3>2. \A s \in Steps : s < N + 1
      BY WorkflowRunsAssumption DEF Steps
    <3>3. NothingDropped'
      BY <2>1, <2>3, <2>4, <2>5, <3>2 DEF Ends, NothingDropped, Complete, Covered
    <3>. QED
      BY <3>1, <3>3
  <2>6. CASE Waiting(run) /\ run.results = leg.collected /\ ~(run.err = "none" /\ ActiveKind(run, "review"))
    BY <2>1, <2>3, <2>4, <2>6 DEF Waiting, NothingDropped, RowComplete
  <2>7. AsksBefore(run) \/ AsksWithin(run) \/ Errs(run)
            => Waiting(run) /\ run.results = leg.collected /\ ~(run.err = "none" /\ ActiveKind(run, "review"))
    BY DEF AsksBefore, AsksWithin, Errs, Asks, ActiveKind
  <2>8. CASE AsksAfter(run)
    <3>1. PICK stop \in BOOLEAN : run.results = Append(leg.collected, NewOutput(stop))
      BY <2>8 DEF AsksAfter
    <3>2. Waiting(run)
      BY <2>8 DEF AsksAfter, Asks
    <3>3. Covered(run.results, leg.i) /\ Complete(run.results, leg.run.past, leg.i)
      BY <1>7, <2>3, <3>1, <3>2 DEF Waiting
    <3>. QED
      BY <2>1, <2>3, <3>2, <3>3 DEF Waiting, NothingDropped, RowComplete
  <2>. QED
    BY <1>9, <2>5, <2>6, <2>7, <2>8 DEF Stores
<1>. QED
  BY <1>3, <1>4, <1>5, <1>6, <1>8, <1>9, StepShape

(* Every step of a completed run has an output, however often the run was     *)
(* paused and continued, unless humans skipped it or an earlier step asked to *)
(* stop: no pause loses what has been collected, no leg starts too late.      *)
THEOREM NothingIsDropped == Spec => []NothingDropped
<1>1. Init => DropInv
  <2>1. ASSUME Init
        PROVE  row.status = "absent" /\ leg.pc = "none"
    BY <2>1 DEF Init, NoRun, NoLeg
  <2>. QED
    BY <2>1 DEF DropInv, NothingDropped, RowComplete, LegComplete
<1>2. TypeInv /\ OutputInv /\ DropInv /\ [Next]_vars => DropInv'
  BY DropStep
<1>3. DropInv => NothingDropped
  BY DEF DropInv
<1>. QED
  BY <1>1, <1>2, <1>3, TypeInvariant, OutputInvariant, PTL DEF Spec

-----------------------------------------------------------------------------
(* Retries.                                                                  *)

(* Has the step's agent had requirements of its own? *)
Agent(run, s) == \E k \in DOMAIN run.reqs : run.reqs[k].kind = "executor" /\ run.reqs[k].step = s

Within(run, s, n) == Cardinality(RetriesOf(run, s)) <= n \/ Agent(run, s)

Limited(run) == \A s \in Steps : Within(run, s, MaxRetries)

UpTo(run, n) == \A k \in DOMAIN run.reqs : run.reqs[k].step <= n

(* The count in the last requirement, which a retry of the step goes on with, *)
(* bounds the retries so far.                                                *)
RowRetries ==
    row.status = "paused" /\ ~row.past.stale =>
        /\ Limited(row) /\ UpTo(row, row.at)
        /\ row.err = "none" =>
              LET last == LastOf(row.reqs) IN
              /\ last.step = row.at /\ last.verdict = "open"
              /\ last.retries <= MaxRetries /\ Within(row, row.at, last.retries)
              /\ last.kind # "review" => last.retries = 0

(* So does the count in the leg, for the step it starts with; steps after the *)
(* resolved one have no requirements yet.                                    *)
LegRetries ==
    ~leg.run.past.stale =>
        /\ Limited(leg.run)
        /\ leg.pc \in {"launch", "head", "exec"} =>
              /\ UpTo(leg.run, leg.resolved)
              /\ leg.resolved <= leg.start /\ leg.start <= leg.i
              /\ leg.retries <= MaxRetries
              /\ leg.start \in Steps => Within(leg.run, leg.start, leg.retries)
              /\ leg.executor # 0 => Agent(leg.run, leg.start)

RetryInv == MaxRetries # 0 => RowRetries /\ LegRetries

LEMMA RetriesFinite ==
    ASSUME NEW run \in Run, NEW s
    PROVE  /\ RetriesOf(run, s) \subseteq 1..Len(run.reqs) /\ Len(run.reqs) \in Nat
           /\ IsFiniteSet(RetriesOf(run, s)) /\ Cardinality(RetriesOf(run, s)) \in Nat
<1>1. run.reqs \in Seq(Requirement)
  BY DEF Run
<1>2. RetriesOf(run, s) \subseteq 1..Len(run.reqs) /\ Len(run.reqs) \in Nat
  BY <1>1 DEF RetriesOf
<1>3. IsFiniteSet(1..Len(run.reqs))
  BY <1>2, FS_Interval
<1>4. IsFiniteSet(RetriesOf(run, s))
  BY <1>2, <1>3, FS_Subset
<1>. QED
  BY <1>2, <1>4, FS_CardinalityType

LEMMA NoRetries ==
    ASSUME NEW run, run.reqs = <<>>, NEW s, NEW n \in Nat
    PROVE  Within(run, s, n) /\ UpTo(run, n)
<1>1. DOMAIN <<>> = {}
  OBVIOUS
<1>2. RetriesOf(run, s) = {}
  BY <1>1 DEF RetriesOf
<1>3. Cardinality(RetriesOf(run, s)) = 0
  BY <1>2, FS_EmptySet
<1>. QED
  BY <1>1, <1>3 DEF Within, UpTo

LEMMA WithinMore ==
    ASSUME NEW run \in Run, NEW s, NEW m \in Nat, NEW n \in Nat, m <= n, Within(run, s, m)
    PROVE  Within(run, s, n)
<1>1. Cardinality(RetriesOf(run, s)) \in Nat
  BY RetriesFinite
<1>. QED
  BY <1>1 DEF Within

(* A requirement that is still open counts for nothing. *)
LEMMA AskedRetries ==
    ASSUME NEW old \in Run, NEW new \in Run, Len(new.reqs) = Len(old.reqs) + 1,
           \A k \in 1..Len(old.reqs) : new.reqs[k] = old.reqs[k],
           LastOf(new.reqs).verdict = "open", NEW s, NEW n
    PROVE  /\ RetriesOf(new, s) = RetriesOf(old, s)
           /\ Agent(old, s) => Agent(new, s)
           /\ Within(old, s, n) => Within(new, s, n)
<1>1. old.reqs \in Seq(Requirement) /\ new.reqs \in Seq(Requirement)
  BY DEF Run
<1>2. /\ DOMAIN old.reqs = 1..Len(old.reqs) /\ DOMAIN new.reqs = 1..Len(new.reqs)
      /\ Len(old.reqs) \in Nat
  BY <1>1
<1>3. new.reqs[Len(new.reqs)].verdict = "open"
  BY DEF LastOf
<1>4. \A k \in 1..Len(new.reqs) : k \in 1..Len(old.reqs) \/ k = Len(new.reqs)
  BY <1>2
<1>5. \A k \in 1..Len(old.reqs) : k \in 1..Len(new.reqs)
  BY <1>2
<1>6. RetriesOf(new, s) = RetriesOf(old, s)
  BY <1>2, <1>3, <1>4, <1>5 DEF RetriesOf
<1>7. Agent(old, s) => Agent(new, s)
  BY <1>2, <1>5 DEF Agent
<1>. QED
  BY <1>6, <1>7 DEF Within

(* The answer to the last requirement is one retry of its step at most. *)
LEMMA AnsweredRetries ==
    ASSUME NEW old \in Run, NEW new \in Run, old.reqs # <<>>, Len(new.reqs) = Len(old.reqs),
           \A k \in 1..Len(old.reqs) - 1 : new.reqs[k] = old.reqs[k],
           LastOf(old.reqs).verdict = "open",
           LastOf(new.reqs).step = LastOf(old.reqs).step,
           LastOf(new.reqs).kind = LastOf(old.reqs).kind, NEW s
    PROVE  /\ Agent(old, s) => Agent(new, s)
           /\ \A n : UpTo(old, n) => UpTo(new, n)
           /\ ~Rejected(new, "retry") \/ s # LastOf(old.reqs).step => RetriesOf(new, s) = RetriesOf(old, s)
           /\ Cardinality(RetriesOf(new, s)) <= Cardinality(RetriesOf(old, s)) + 1
<1>. DEFINE n == Len(old.reqs)
<1>1. old.reqs \in Seq(Requirement) /\ new.reqs \in Seq(Requirement)
  BY DEF Run
<1>2. DOMAIN old.reqs = 1..n /\ DOMAIN new.reqs = 1..n /\ n \in Nat \ {0} /\ new.reqs # <<>>
  BY <1>1
<1>3. /\ LastOf(old.reqs) = old.reqs[n] /\ LastOf(new.reqs) = new.reqs[n]
      /\ \A k \in 1..n : k \in 1..n - 1 \/ k = n
  BY <1>2 DEF LastOf
<1>. HIDE DEF n
<1>4. \A k \in 1..n : new.reqs[k].step = old.reqs[k].step /\ new.reqs[k].kind = old.reqs[k].kind
  BY <1>3 DEF n
<1>5. Agent(old, s) => Agent(new, s)
  BY <1>2, <1>4 DEF Agent
<1>6. \A b : UpTo(old, b) => UpTo(new, b)
  BY <1>2, <1>4 DEF UpTo
<1>7. n \notin RetriesOf(old, s)
  BY <1>3 DEF RetriesOf
<1>8. \A k \in 1..n - 1 : k \in RetriesOf(new, s) <=> k \in RetriesOf(old, s)
  BY <1>2, <1>3 DEF RetriesOf, n
<1>9. n \in RetriesOf(new, s) <=> Rejected(new, "retry") /\ s = LastOf(old.reqs).step
  BY <1>2, <1>3, <1>4 DEF RetriesOf, Rejected
<1>10. RetriesOf(new, s) \subseteq 1..n /\ RetriesOf(old, s) \subseteq 1..n
  BY <1>2 DEF RetriesOf
<1>11. RetriesOf(new, s) = RetriesOf(old, s) \/ RetriesOf(new, s) = RetriesOf(old, s) \cup {n}
  <2>1. CASE n \in RetriesOf(new, s)
    <3>1. \A k : k \in RetriesOf(new, s) <=> k \in RetriesOf(old, s) \cup {n}
      BY <1>3, <1>8, <1>10, <2>1
    <3>. QED
      BY <3>1
  <2>2. CASE n \notin RetriesOf(new, s)
    <3>1. \A k : k \in RetriesOf(new, s) <=> k \in RetriesOf(old, s)
      BY <1>3, <1>7, <1>8, <1>10, <2>2
    <3>. QED
      BY <3>1
  <2>. QED
    BY <2>1, <2>2
<1>12. ~Rejected(new, "retry") \/ s # LastOf(old.reqs).step => RetriesOf(new, s) = RetriesOf(old, s)
  BY <1>7, <1>9, <1>11
<1>13. Cardinality(RetriesOf(new, s)) <= Cardinality(RetriesOf(old, s)) + 1
  <2>1. IsFiniteSet(RetriesOf(old, s)) /\ Cardinality(RetriesOf(old, s)) \in Nat
    BY RetriesFinite
  <2>2. CASE RetriesOf(new, s) = RetriesOf(old, s)
    BY <2>1, <2>2
  <2>3. CASE RetriesOf(new, s) = RetriesOf(old, s) \cup {n}
    <3>1. Cardinality(RetriesOf(old, s) \cup {n}) = Cardinality(RetriesOf(old, s)) + 1
      BY <1>7, <2>1, FS_AddElement
    <3>. QED
      BY <2>1, <2>3, <3>1
  <2>. QED
    BY <1>11, <2>2, <2>3
<1>. QED
  BY <1>5, <1>6, <1>12, <1>13

LEMMA ResumeRetries ==
    ASSUME TypeInv, MaxRetries # 0, RowRetries, NEW run, NEW results, Resumes(run, results)
    PROVE  LegRetries'
<1>. DEFINE old == LastOf(row.reqs)
            new == LastOf(run.reqs)
<1>1. PICK answered \in Answers(row) : run \in Timely(answered)
  BY DEF Resumes
<1>2. row.status = "paused" /\ results \in Edited(run) /\ Resume(run, results)
  BY DEF Resumes
<1>3. /\ run \in Run /\ run.at = row.at /\ run.past = row.past /\ run.results = row.results
      /\ (run.reqs = <<>>) <=> (row.reqs = <<>>)
      /\ row.at \in Steps /\ row.err \in {"none", "open"}
      /\ row.err = "open" => run.err \in {"retry", "skip"}
      /\ row.err = "none" => run.err = "none" /\ row.reqs # <<>>
      /\ row \in Run /\ run.reqs \in Seq(Requirement)
  BY <1>1, <1>2, AnsweredType DEF SameButAnswer, TypeInv, Storable, Run
<1>4. /\ Len(run.reqs) = Len(row.reqs)
      /\ \A k \in 1..Len(row.reqs) - 1 : run.reqs[k] = row.reqs[k]
      /\ row.reqs # <<>> => /\ new \in Requirement
                            /\ new.step = old.step /\ new.kind = old.kind /\ new.retries = old.retries
      /\ row.err = "none" /\ old.kind \in {"input", "executor"} => new.verdict = "yes"
  <2>. HIDE DEF old, new
  <2>. QED
    BY <1>1, <1>2, <1>3, AnsweredType DEF TypeInv, old, new
<1>5. run.err = "none" /\ ActiveKind(run, "review") => run.results # <<>>
  BY <1>2, <1>3, <1>4 DEF TypeInv, Storable, ActiveKind
<1>6. /\ leg' \in Leg /\ leg'.pc = "head" /\ leg'.i = StartIndex(run) /\ leg'.start = StartIndex(run)
      /\ leg'.resolved = row.at
      /\ leg'.executor = IF ActiveKind(run, "executor") THEN new.step ELSE 0
      /\ leg'.retries = IF Rejected(run, "retry") THEN new.retries + 1 ELSE 0
      /\ leg'.run.reqs = run.reqs /\ leg'.run.past = Noted(run)
  BY <1>2, <1>3, <1>5, ResumeType
<1>7. leg'.run \in Run /\ MaxRetries \in Nat
  BY <1>6, WorkflowRunsAssumption DEF Leg
<1>8. /\ leg'.start = row.at \/ leg'.start = row.at + 1
      /\ row.at \in Nat
  BY <1>3, <1>6, StartIndexType DEF Steps
<1>. SUFFICES ASSUME ~Noted(run).stale
              PROVE  /\ Limited(leg'.run) /\ UpTo(leg'.run, row.at)
                     /\ leg'.retries <= MaxRetries
                     /\ leg'.start \in Steps => Within(leg'.run, leg'.start, leg'.retries)
                     /\ leg'.executor # 0 => Agent(leg'.run, leg'.start)
  BY <1>6, <1>8 DEF LegRetries, Limited, UpTo, Within, Agent, RetriesOf
<1>9. ~row.past.stale /\ (run.err = "none" \/ run.reqs = <<>>)
  BY <1>3 DEF Noted
<1>10. Limited(row) /\ UpTo(row, row.at)
  BY <1>2, <1>9 DEF RowRetries
<1>11. \A s, n : (Within(leg'.run, s, n) <=> Within(run, s, n)) /\ (Agent(leg'.run, s) <=> Agent(run, s))
                 /\ (UpTo(leg'.run, n) <=> UpTo(run, n))
  BY <1>6 DEF Within, Agent, UpTo, RetriesOf
<1>12. CASE run.reqs = <<>>
  <2>1. \A s : Within(run, s, 0) /\ Within(run, s, MaxRetries) /\ UpTo(run, row.at)
    BY <1>7, <1>8, <1>12, NoRetries
  <2>2. leg'.retries = 0 /\ leg'.executor = 0
    BY <1>6, <1>12 DEF Rejected, ActiveKind
  <2>. QED
    BY <1>7, <1>11, <2>1, <2>2 DEF Limited
<1>13. CASE run.reqs # <<>>
  <2>1. /\ row.err = "none" /\ run.err = "none" /\ row.reqs # <<>>
        /\ old.step = row.at /\ old.verdict = "open"
        /\ old.retries <= MaxRetries /\ Within(row, row.at, old.retries)
        /\ old.kind # "review" => old.retries = 0
    BY <1>2, <1>3, <1>9, <1>13 DEF RowRetries
  <2>2. new \in Requirement /\ new.step = row.at /\ new.kind = old.kind /\ new.retries = old.retries
    BY <1>4, <2>1
  <2>3. new.retries \in Nat
    BY <2>2 DEF Requirement
  <2>. HIDE DEF old, new
  <2>4. /\ \A n : UpTo(row, n) => UpTo(run, n)
        /\ \A s : /\ Agent(row, s) => Agent(run, s)
                  /\ ~Rejected(run, "retry") \/ s # row.at => RetriesOf(run, s) = RetriesOf(row, s)
                  /\ Cardinality(RetriesOf(run, s)) <= Cardinality(RetriesOf(row, s)) + 1
    BY <1>3, <1>4, <2>1, <2>2, AnsweredRetries DEF old, new
  <2>5. UpTo(run, row.at)
    BY <1>10, <2>4
  <2>6. leg'.executor # 0 => Agent(run, leg'.start)
    <3>1. SUFFICES ASSUME ActiveKind(run, "executor")
                   PROVE  Agent(run, leg'.start)
      BY <1>6
    <3>2. new.kind = "executor" /\ new.verdict = "yes"
      BY <1>4, <2>1, <2>2, <3>1 DEF ActiveKind, new
    <3>3. leg'.start = row.at
      BY <1>3, <1>6, <2>1, <3>2 DEF StartIndex, Rejected, ActiveKind, new
    <3>4. Len(run.reqs) \in DOMAIN run.reqs /\ run.reqs[Len(run.reqs)] = new
      BY <1>3, <1>13 DEF LastOf, new
    <3>. QED
      BY <2>2, <3>2, <3>3, <3>4 DEF Agent
  <2>7. CASE Rejected(run, "retry")
    <3>1. new.retries < MaxRetries
      BY <1>2, <1>7, <2>3, <2>7 DEF Resume, Exhausted, new
    <3>2. leg'.retries = new.retries + 1 /\ leg'.retries <= MaxRetries /\ leg'.retries \in Nat
      BY <1>6, <1>7, <2>3, <2>7, <3>1
    <3>3. leg'.start = row.at
      BY <1>3, <1>6, <2>1, <2>7 DEF StartIndex, Rejected
    <3>4. Within(run, row.at, leg'.retries)
      <4>1. /\ Cardinality(RetriesOf(row, row.at)) \in Nat
            /\ Cardinality(RetriesOf(run, row.at)) \in Nat
        BY <1>3, RetriesFinite
      <4>. QED
        BY <2>1, <2>2, <2>3, <2>4, <3>2, <4>1 DEF Within
    <3>5. ASSUME NEW s \in Steps
          PROVE  Within(run, s, MaxRetries)
      <4>1. CASE s = row.at
        BY <1>3, <1>7, <3>2, <3>4, <4>1, WithinMore
      <4>2. CASE s # row.at
        BY <1>10, <2>4, <4>2 DEF Limited, Within
      <4>. QED
        BY <4>1, <4>2
    <3>. QED
      BY <1>11, <2>5, <2>6, <3>2, <3>3, <3>4, <3>5 DEF Limited
  <2>8. CASE ~Rejected(run, "retry")
    <3>1. leg'.retries = 0 /\ 0 <= MaxRetries
      BY <1>6, <1>7, <2>8
    <3>2. \A s, n : Within(row, s, n) => Within(run, s, n)
      BY <2>4, <2>8 DEF Within
    <3>3. Limited(run)
      BY <1>10, <3>2 DEF Limited
    <3>4. ASSUME leg'.start \in Steps
          PROVE  Within(run, leg'.start, 0)
      <4>1. CASE leg'.start = row.at
        <5>1. ~ActiveKind(run, "review")
          BY <1>3, <1>6, <1>8, <2>8, <4>1 DEF StartIndex
        <5>2. old.kind # "review"
          BY <1>13, <2>2, <5>1 DEF ActiveKind, new
        <5>. QED
          BY <2>1, <3>2, <4>1, <5>2
      <4>2. CASE leg'.start = row.at + 1
        <5>1. RetriesOf(run, leg'.start) = {}
          <6>1. \A k \in DOMAIN run.reqs : run.reqs[k].step # leg'.start
            <7>1. ASSUME NEW k \in DOMAIN run.reqs
                  PROVE  run.reqs[k].step <= row.at /\ run.reqs[k].step \in Nat
              <8>1. run.reqs[k] \in Requirement
                BY <1>3, <7>1
              <8>. QED
                BY <2>5, <7>1, <8>1 DEF UpTo, Requirement, Steps
            <7>. QED
              BY <1>8, <4>2, <7>1
          <6>. QED
            BY <6>1 DEF RetriesOf
        <5>. QED
          BY <5>1, FS_EmptySet DEF Within
      <4>. QED
        BY <1>8, <4>1, <4>2
    <3>. QED
      BY <1>11, <2>5, <2>6, <3>1, <3>3, <3>4 DEF Limited
  <2>. QED
    BY <2>7, <2>8
<1>. QED
  BY <1>12, <1>13

LEMMA RetryStep ==
    ASSUME TypeInv, RetryInv, [Next]_vars
    PROVE  RetryInv'
<1>. SUFFICES ASSUME MaxRetries # 0
              PROVE  RowRetries' /\ LegRetries'
  BY DEF RetryInv
<1>1. /\ RowRetries /\ LegRetries /\ MaxRetries \in Nat /\ TypeOK
      /\ leg \in Leg /\ leg.run \in Run /\ leg.run.reqs \in Seq(Requirement)
      /\ leg.pc \in {"none", "launch", "head", "exec", "cleanup"}
      /\ leg.i \in 1..(N + 1) /\ leg.start \in 0..(N + 1) /\ leg.resolved \in 0..N
      /\ leg.retries \in Nat /\ N \in Nat
  BY WorkflowRunsAssumption DEF RetryInv, TypeInv, TypeOK, Leg, Run
<1>2. ASSUME NEW run, run.reqs = <<>>
      PROVE  Limited(run)
  BY <1>1, <1>2, NoRetries DEF Limited
<1>3. ASSUME RowStays
      PROVE  RowRetries'
  <2>1. CASE row' = row
    BY <1>1, <2>1 DEF RowRetries, Limited, UpTo, Within, Agent, RetriesOf
  <2>2. CASE row'.status \in {"pending", "running", "cancelled", "error"}
    BY <2>2 DEF RowRetries
  <2>. QED
    BY <1>3, <2>1, <2>2 DEF RowStays
<1>4. CASE RowStays /\ leg' \in {leg, NoLeg}
  <2>1. NoLeg.pc = "none" /\ NoLeg.run.reqs = <<>>
    BY DEF NoLeg, NoRun
  <2>2. CASE leg' = leg
    BY <1>1, <1>3, <1>4, <2>2 DEF LegRetries, Limited, UpTo, Within, Agent, RetriesOf
  <2>3. CASE leg' = NoLeg
    <3>1. Limited(leg'.run)
      BY <1>2, <2>1, <2>3
    <3>2. leg'.pc = "none"
      BY <2>1, <2>3
    <3>. QED
      BY <1>3, <1>4, <3>1, <3>2 DEF LegRetries, Limited, Within, Agent, RetriesOf
  <2>. QED
    BY <1>4, <2>2, <2>3
<1>5. CASE Begins
  <2>1. /\ RowStays
        /\ leg'.pc = "launch" /\ leg'.i = 1 /\ leg'.start = 0 /\ leg'.resolved = 0
        /\ leg'.executor = 0 /\ leg'.retries = 0 /\ leg'.run.reqs = <<>>
    BY <1>5 DEF Begins
  <2>2. Limited(leg'.run) /\ UpTo(leg'.run, 0)
    BY <1>2, <2>1, NoRetries
  <2>3. 0 \notin Steps
    BY DEF Steps
  <2>4. LegRetries'
    BY <1>1, <2>1, <2>2, <2>3 DEF LegRetries, Limited, UpTo, Within, Agent, RetriesOf
  <2>. QED
    BY <1>3, <2>1, <2>4
<1>6. ASSUME NEW run, NEW results, Resumes(run, results), row' = row
      PROVE  RowRetries' /\ LegRetries'
  BY <1>1, <1>3, <1>6, ResumeRetries DEF RowStays
<1>7. ASSUME NEW i \in Nat, leg.i <= i, NEW outputs, Goes(i, outputs)
      PROVE  RowRetries' /\ LegRetries'
  <2>1. /\ RowStays
        /\ leg.pc \in {"launch", "head", "exec"} /\ leg'.pc \in {"head", "exec"}
        /\ leg'.i = i
        /\ leg'.start = leg.start /\ leg'.resolved = leg.resolved /\ leg'.retries = leg.retries
        /\ leg'.executor \in {0, leg.executor}
        /\ leg'.run.reqs = leg.run.reqs /\ leg'.run.past = leg.run.past
    BY <1>7 DEF Goes
  <2>2. ~leg.run.past.stale =>
            /\ Limited(leg.run) /\ UpTo(leg.run, leg.resolved)
            /\ leg.resolved <= leg.start /\ leg.start <= leg.i
            /\ leg.retries <= MaxRetries
            /\ leg.start \in Steps => Within(leg.run, leg.start, leg.retries)
            /\ leg.executor # 0 => Agent(leg.run, leg.start)
    BY <1>1, <2>1 DEF LegRetries
  <2>3. leg.start <= leg.i => leg.start <= i
    BY <1>1, <1>7
  <2>4. LegRetries'
    BY <2>1, <2>2, <2>3 DEF LegRetries, Limited, UpTo, Within, Agent, RetriesOf
  <2>. QED
    BY <1>3, <2>1, <2>4
<1>8. CASE Goes(leg.i, leg.collected)
  BY <1>1, <1>7, <1>8
<1>9. ASSUME NEW stop \in BOOLEAN, Advances(stop)
      PROVE  RowRetries' /\ LegRetries'
  <2>. DEFINE next == IF stop THEN N + 1 ELSE leg.i + 1
  <2>1. next \in Nat /\ leg.i <= next
    BY <1>1
  <2>2. Goes(next, Append(leg.collected, NewOutput(stop)))
    BY <1>9 DEF Advances
  <2>. HIDE DEF next
  <2>. QED
    BY <1>7, <2>1, <2>2
<1>10. ASSUME NEW run, Stores(run)
       PROVE  RowRetries' /\ LegRetries'
  <2>1. /\ row' = run /\ run \in Run /\ run.past = leg.run.past /\ leg.pc \in {"head", "exec"}
        /\ (leg' = NoLeg \/ leg' = [NoLeg EXCEPT !.pc = "cleanup", !.run = run])
    BY <1>10 DEF Stores, EndLeg
  <2>2. leg'.pc \in {"none", "cleanup"} /\ (leg'.run.reqs = <<>> \/ leg'.run = run)
    <3>1. NoLeg.pc = "none" /\ NoLeg.run.reqs = <<>>
      BY DEF NoLeg, NoRun
    <3>2. CASE leg' = NoLeg
      BY <3>1, <3>2
    <3>3. CASE leg' = [NoLeg EXCEPT !.pc = "cleanup", !.run = run]
      BY <3>3 DEF NoLeg
    <3>. QED
      BY <2>1, <3>2, <3>3
  <2>3. (~run.past.stale => Limited(run)) => LegRetries'
    <3>1. CASE leg'.run.reqs = <<>>
      <4>1. Limited(leg'.run)
        BY <1>2, <3>1
      <4>. QED
        BY <2>2, <4>1 DEF LegRetries, Limited, Within, Agent, RetriesOf
    <3>2. CASE leg'.run = run
      BY <2>2, <3>2 DEF LegRetries, Limited, Within, Agent, RetriesOf
    <3>. QED
      BY <2>2, <3>1, <3>2
  <2>. SUFFICES ASSUME ~leg.run.past.stale
                PROVE  Limited(run) /\ RowRetries'
    BY <2>1, <2>3 DEF RowRetries
  <2>4. /\ Limited(leg.run) /\ UpTo(leg.run, leg.resolved)
        /\ leg.resolved <= leg.start /\ leg.start <= leg.i
        /\ leg.retries <= MaxRetries
        /\ leg.start \in Steps => Within(leg.run, leg.start, leg.retries)
        /\ leg.executor # 0 => Agent(leg.run, leg.start)
    BY <1>1, <2>1 DEF LegRetries
  <2>5. ASSUME NEW k \in DOMAIN leg.run.reqs
        PROVE  /\ leg.run.reqs[k].step \in Nat /\ leg.run.reqs[k].step <= leg.resolved
               /\ leg.run.reqs[k].step <= leg.i
    <3>1. leg.run.reqs[k] \in Requirement
      BY <1>1, <2>5
    <3>2. leg.run.reqs[k].step \in Nat /\ leg.run.reqs[k].step <= leg.resolved
      BY <2>4, <2>5, <3>1 DEF UpTo, Requirement, Steps
    <3>. QED
      BY <1>1, <2>4, <3>2
  <2>6. run.reqs = leg.run.reqs => Limited(run) /\ UpTo(run, leg.i)
    BY <2>4, <2>5 DEF Limited, UpTo, Within, Agent, RetriesOf
  <2>7. CASE Ends(run)
    BY <2>1, <2>6, <2>7 DEF Ends, RowRetries
  <2>8. CASE Errs(run)
    BY <2>1, <2>6, <2>8 DEF Errs, Waiting, RowRetries, Limited, UpTo, Within, Agent, RetriesOf
  <2>9. ASSUME NEW kind, NEW retries \in Nat, Asks(run, kind, retries), retries <= MaxRetries,
               Within(leg.run, leg.i, retries) \/ kind = "executor",
               kind # "review" => retries = 0
        PROVE  Limited(run) /\ RowRetries'
    <3>1. /\ leg.i \in Steps /\ run.status = "paused" /\ run.at = leg.i /\ run.err = "none"
          /\ run.reqs # <<>> /\ Len(run.reqs) = Len(leg.run.reqs) + 1
          /\ \A k \in 1..Len(leg.run.reqs) : run.reqs[k] = leg.run.reqs[k]
          /\ LastOf(run.reqs).step = leg.i /\ LastOf(run.reqs).kind = kind
          /\ LastOf(run.reqs).verdict = "open" /\ LastOf(run.reqs).retries = retries
      BY <2>9 DEF Asks, Waiting
    <3>2. \A s, n : Within(leg.run, s, n) => Within(run, s, n)
      BY <1>1, <2>1, <3>1, AskedRetries
    <3>3. Limited(run)
      BY <2>4, <3>2 DEF Limited
    <3>4. run.reqs \in Seq(Requirement)
      BY <2>1 DEF Run
    <3>5. UpTo(run, leg.i)
      <4>1. ASSUME NEW k \in DOMAIN run.reqs
            PROVE  run.reqs[k].step <= leg.i
        <5>1. k \in 1..Len(leg.run.reqs) \/ k = Len(run.reqs)
          <6>1. k \in 1..Len(run.reqs)
            BY <3>4, <4>1
          <6>2. Len(leg.run.reqs) \in Nat
            BY <1>1
          <6>. QED
            BY <3>1, <6>1, <6>2
        <5>2. CASE k \in 1..Len(leg.run.reqs)
          <6>1. k \in DOMAIN leg.run.reqs /\ run.reqs[k] = leg.run.reqs[k]
            BY <1>1, <3>1, <5>2
          <6>. QED
            BY <2>5, <6>1
        <5>3. CASE k = Len(run.reqs)
          BY <1>1, <3>1, <5>3 DEF LastOf
        <5>. QED
          BY <5>1, <5>2, <5>3
      <4>. QED
        BY <4>1 DEF UpTo
    <3>6. Within(run, leg.i, retries)
      <4>1. CASE Within(leg.run, leg.i, retries)
        BY <3>2, <4>1
      <4>2. CASE kind = "executor"
        <5>1. Len(run.reqs) \in DOMAIN run.reqs /\ run.reqs[Len(run.reqs)] = LastOf(run.reqs)
          BY <3>1, <3>4 DEF LastOf
        <5>. QED
          BY <3>1, <4>2, <5>1 DEF Within, Agent
      <4>. QED
        BY <2>9, <4>1, <4>2
    <3>. QED
      <4>1. RowRetries'
        <5>1. row' = run
          BY <2>1
        <5>2. /\ Limited(row') /\ UpTo(row', row'.at)
              /\ LastOf(row'.reqs).step = row'.at /\ LastOf(row'.reqs).verdict = "open"
              /\ LastOf(row'.reqs).retries <= MaxRetries
              /\ Within(row', row'.at, LastOf(row'.reqs).retries)
              /\ LastOf(row'.reqs).kind # "review" => LastOf(row'.reqs).retries = 0
          BY <2>9, <3>1, <3>3, <3>5, <3>6, <5>1
        <5>. QED
          BY <5>2 DEF RowRetries, Limited, UpTo, Within, Agent, RetriesOf
      <4>. QED
        BY <3>3, <4>1
  <2>10. ASSUME leg.i # leg.resolved
         PROVE  Within(leg.run, leg.i, 0)
    <3>1. leg.resolved < leg.i
      BY <1>1, <2>4, <2>10
    <3>2. \A k \in DOMAIN leg.run.reqs : leg.run.reqs[k].step # leg.i
      BY <1>1, <2>5, <3>1
    <3>3. RetriesOf(leg.run, leg.i) = {}
      BY <3>2 DEF RetriesOf
    <3>. QED
      BY <3>3, FS_EmptySet DEF Within
  <2>11. CASE AsksBefore(run)
    <3>1. PICK kind \in {"confirm", "input"} : Asks(run, kind, 0)
      BY <2>11 DEF AsksBefore
    <3>2. Within(leg.run, leg.i, 0)
      BY <2>10, <2>11 DEF AsksBefore
    <3>. QED
      BY <1>1, <2>9, <3>1, <3>2
  <2>12. CASE AsksWithin(run)
    BY <1>1, <2>9, <2>12 DEF AsksWithin
  <2>13. CASE AsksAfter(run)
    <3>1. leg.i \in Steps
      BY <2>13 DEF AsksAfter, Asks, Waiting
    <3>2. CASE Routed
      <4>1. Asks(run, "review", 0) /\ Agent(leg.run, leg.i)
        BY <2>4, <2>13, <3>2 DEF AsksAfter, Routed
      <4>2. Within(leg.run, leg.i, 0)
        BY <4>1 DEF Within
      <4>. QED
        BY <1>1, <2>9, <4>1, <4>2
    <3>3. CASE ~Routed
      <4>1. Asks(run, "review", leg.retries)
        BY <2>13, <3>3 DEF AsksAfter
      <4>2. Within(leg.run, leg.i, leg.retries)
        <5>1. CASE leg.i = leg.start
          BY <2>4, <3>1, <5>1
        <5>2. CASE leg.i # leg.start
          <6>1. leg.i # leg.resolved
            BY <1>1, <2>4, <5>2
          <6>. QED
            BY <1>1, <2>10, <6>1, WithinMore
        <5>. QED
          BY <5>1, <5>2
      <4>. QED
        BY <1>1, <2>4, <2>9, <4>1, <4>2
    <3>. QED
      BY <3>2, <3>3
  <2>. QED
    BY <1>10, <2>7, <2>8, <2>11, <2>12, <2>13 DEF Stores
<1>. QED
  BY <1>4, <1>5, <1>6, <1>8, <1>9, <1>10, StepShape

(* Reviewers cannot have a step repeated without end: the count of its        *)
(* retries survives every pause and every continuation, unless requirements   *)
(* of the step's agent came between.                                         *)
THEOREM RetriesAreBounded == Spec => []RetriesBounded
<1>1. Init => RetryInv
  <2>1. ASSUME Init
        PROVE  /\ row.status = "absent" /\ leg.pc = "none" /\ leg.run.reqs = <<>>
    BY <2>1 DEF Init, NoRun, NoLeg
  <2>2. ASSUME Init
        PROVE  Limited(leg.run)
    BY <2>1, <2>2, NoRetries, WorkflowRunsAssumption DEF Limited
  <2>. QED
    BY <2>1, <2>2 DEF RetryInv, RowRetries, LegRetries
<1>2. TypeInv /\ RetryInv /\ [Next]_vars => RetryInv'
  BY RetryStep
<1>3. RetryInv => RetriesBounded
  BY DEF RetryInv, LegRetries, RetriesBounded, Limited, Within, Agent
<1>. QED
  BY <1>1, <1>2, <1>3, TypeInvariant, PTL DEF Spec

=============================================================================
