--------------------------- MODULE TeamTasksProofs ---------------------------
(* Proofs about TeamTasks, for any number of concurrent executions, tasks    *)
(* and runs.                                                                 *)
EXTENDS TeamTasks, SequenceTheorems, FiniteSetTheorems, TLAPS

-----------------------------------------------------------------------------
(* Until a member pauses, the session state holds the very list the tools    *)
(* work on, or one that a refresh turns into it: every change is saved, and  *)
(* saved after a member's copy of the state, which holds an older list, has  *)
(* been merged.                                                              *)
THEOREM SavedAgreesAlways == Spec => []SavedAgrees
<1>1. Init => SavedAgrees
  BY DEF Init, SavedAgrees
<1>2. SavedAgrees /\ [Next]_vars => SavedAgrees'
  <2>. SUFFICES ASSUME SavedAgrees, [Next]_vars, ~paused'
       PROVE  tasks' \in {saved', Refreshed(saved')}
    BY DEF SavedAgrees
  <2>1. CASE UNCHANGED vars \/ Edit \/ Respond \/ Iterate
    BY <2>1 DEF vars, Edit, Respond, Iterate, SavedAgrees
  <2>2. CASE Begin \/ MarkAllComplete
    BY <2>2 DEF Begin, MarkAllComplete
  <2>3. ASSUME NEW list, Save(list)
        PROVE  tasks' = saved'
    BY <2>3 DEF Save
  <2>4. ASSUME NEW deps, Create(deps)
        PROVE  tasks' = saved'
    BY <2>3, <2>4 DEF Create
  <2>5. ASSUME NEW i, NEW st, UpdateStatus(i, st)
        PROVE  tasks' = saved'
    BY <2>3, <2>5 DEF UpdateStatus
  <2>6. ASSUME NEW c \in Calls, Execution(c)
        PROVE  tasks' \in {saved', Refreshed(saved')}
    <3>1. ASSUME NEW ids, NEW parallel, Start(c, ids, parallel)
          PROVE  tasks' = saved'
      BY <2>3, <3>1 DEF Start
    <3>2. ASSUME NEW i, MemberRaises(c, i) \/ \E st : MemberReturns(c, i, st)
          PROVE  tasks' = saved'
      BY <2>3, <3>2 DEF MemberRaises, MemberReturns
    <3>3. ASSUME NEW i, MemberCancelled(c, i)
          PROVE  tasks' \in {saved', Refreshed(saved')}
      BY <3>3 DEF MemberCancelled, SavedAgrees
    <3>4. ASSUME NEW i
          PROVE  ~MemberPauses(c, i)
      BY DEF MemberPauses
    <3>5. ASSUME NEW outcome, ParallelReturns(c, outcome)
          PROVE  tasks' = saved'
      BY <2>3, <3>5 DEF ParallelReturns
    <3>6. QED
      BY <2>6, <3>1, <3>2, <3>3, <3>4, <3>5 DEF Execution, Execute, ExecuteParallel
  <2>7. QED
    BY <2>1, <2>2, <2>4, <2>5, <2>6 DEF Next
<1>3. QED
  BY <1>1, <1>2, PTL DEF Spec

-----------------------------------------------------------------------------
(* The lists: which tasks there are, whatever their status.                  *)

Marks == [Ids -> BOOLEAN]

IsList(list) == \E n \in 0..MaxTasks : list = [i \in 1..n |-> list[i]]

LEMMA ListFacts ==
    ASSUME NEW list, IsList(list)
    PROVE  /\ DOMAIN list \subseteq Ids
           /\ Len(list) \in 0..MaxTasks /\ DOMAIN list = 1..Len(list)
           /\ \E S : list \in Seq(S)
<1>1. PICK n \in 0..MaxTasks : list = [i \in 1..n |-> list[i]]
  BY DEF IsList
<1>2. MaxTasks \in Nat /\ n \in Nat /\ n <= MaxTasks
  BY TeamTasksAssumption
<1>3. DOMAIN list = 1..n
  BY <1>1
<1>. DEFINE S == {list[i] : i \in 1..n}
<1>4. list \in [1..n -> S]
  BY <1>1
<1>5. list \in Seq(S)
  BY <1>2, <1>4, IsASeq
<1>6. Len(list) = n
  BY <1>2, <1>3, <1>5, LenProperties
<1>7. DOMAIN list \subseteq Ids
  BY <1>2, <1>3 DEF Ids
<1>8. QED
  BY <1>3, <1>5, <1>6, <1>7

LEMMA SameDomainList ==
    ASSUME NEW list, IsList(list), NEW f, f = [i \in DOMAIN list |-> f[i]]
    PROVE  IsList(f)
  BY DEF IsList

LEMMA RefreshedList ==
    ASSUME NEW list, IsList(list)
    PROVE  IsList(Refreshed(list))
<1>1. Refreshed(list) = [i \in DOMAIN list |-> Refreshed(list)[i]]
  BY DEF Refreshed
<1>2. QED
  BY <1>1, SameDomainList

LEMMA AppendList ==
    ASSUME NEW list, IsList(list), Len(list) < MaxTasks, NEW e
    PROVE  IsList(Append(list, e))
<1>1. PICK S : list \in Seq(S)
  BY ListFacts
<1>. DEFINE T == S \cup {e}
            n == Len(list) + 1
            longer == Append(list, e)
<1>2. list \in Seq(T) /\ e \in T
  BY <1>1
<1>3. longer \in Seq(T) /\ Len(longer) = n
  BY <1>2, AppendProperties
<1>. HIDE DEF longer
<1>4. longer \in [1..n -> T]
  BY <1>3, LenProperties
<1>5. n \in 0..MaxTasks
  BY ListFacts, TeamTasksAssumption
<1>6. IsList(longer)
  BY <1>4, <1>5 DEF IsList
<1>7. QED
  BY <1>6 DEF longer

-----------------------------------------------------------------------------
(* MarksKept.  A copy of the session state is as old as its execution.  That *)
(* the merge of an old copy undoes nothing rests on what the copies of the   *)
(* executions under way hold: every mark kept so far, and, in the copy of    *)
(* an execution that no other one has overlapped, all of the state.          *)

CallShape(k) ==
    /\ k = [ids |-> k.ids, list |-> k.list, marks |-> k.marks,
            parallel |-> k.parallel, alone |-> k.alone]
    /\ k.ids \subseteq Ids
    /\ IsList(k.list)
    /\ k.marks \in Marks
    /\ k.alone \in BOOLEAN
    /\ k.parallel => k.ids # {}

Shape ==
    /\ IsList(tasks) /\ IsList(saved)
    /\ marks \in Marks
    /\ alone \subseteq Ids
    /\ call = [c \in Calls |-> call[c]]
    /\ \A c \in Calls : CallShape(call[c])

CopyHolds(c) ==
    call[c].ids # {} =>
        /\ \A i \in alone : call[c].marks[i]
        /\ call[c].alone => /\ call[c].marks = marks
                            /\ \A d \in Calls \ {c} : call[d].ids = {}

MarkInv == Shape /\ MarksKept /\ \A c \in Calls : CopyHolds(c)

LEMMA EmptyList == IsList(<<>>)
<1>1. 0 \in 0..MaxTasks
  BY TeamTasksAssumption
<1>2. <<>> = [i \in 1..0 |-> <<>>[i]]
  OBVIOUS
<1>3. QED
  BY <1>1, <1>2 DEF IsList

LEMMA FreeShape == CallShape(Free) /\ Free.ids = {}
<1>1. IsList(<<>>)
  BY EmptyList
<1>2. [i \in Ids |-> FALSE] \in Marks
  BY DEF Marks
<1>3. QED
  BY <1>1, <1>2 DEF Free, CallShape

LEMMA MarkInit == Init => MarkInv
<1>. SUFFICES ASSUME Init PROVE MarkInv
  OBVIOUS
<1>1. IsList(tasks) /\ IsList(saved)
  BY EmptyList DEF Init
<1>2. marks \in Marks /\ alone = {}
  BY DEF Init, Marks
<1>3. call = [c \in Calls |-> call[c]] /\ \A c \in Calls : call[c] = Free
  BY DEF Init
<1>4. QED
  BY <1>1, <1>2, <1>3, FreeShape DEF MarkInv, Shape, MarksKept, CopyHolds

(* Steps that change the lists only. *)
LEMMA ListStep ==
    ASSUME MarkInv, UNCHANGED <<marks, call, alone>>, IsList(tasks'), IsList(saved')
    PROVE  MarkInv'
  BY DEF MarkInv, Shape, MarksKept, CopyHolds

LEMMA ListActions ==
    ASSUME MarkInv,
           \/ Begin \/ Edit \/ Respond \/ Iterate \/ MarkAllComplete
           \/ \E deps : Create(deps)
           \/ \E i, st : UpdateStatus(i, st)
    PROVE  MarkInv'
<1>1. IsList(tasks) /\ IsList(saved)
  BY DEF MarkInv, Shape
<1>2. CASE Begin \/ Edit \/ Respond \/ Iterate \/ MarkAllComplete
  BY <1>1, <1>2, RefreshedList, ListStep DEF Begin, Edit, Respond, Iterate, MarkAllComplete
<1>3. ASSUME NEW deps, Create(deps)
      PROVE  MarkInv'
  <2>1. IsList(Append(tasks, [st |-> "pending", deps |-> deps]))
    BY <1>1, <1>3, AppendList DEF Create
  <2>2. IsList(Refreshed(Append(tasks, [st |-> "pending", deps |-> deps])))
    BY <2>1, RefreshedList
  <2>3. QED
    BY <1>3, <2>2, ListStep DEF Create, Save
<1>4. ASSUME NEW i, NEW st, UpdateStatus(i, st)
      PROVE  MarkInv'
  <2>1. IsList([tasks EXCEPT ![i].st = st])
    BY <1>1, SameDomainList
  <2>2. IsList(Refreshed([tasks EXCEPT ![i].st = st]))
    BY <2>1, RefreshedList
  <2>3. QED
    BY <1>4, <2>2, ListStep DEF UpdateStatus, Save
<1>5. QED
  BY <1>2, <1>3, <1>4

(* An execution starts on a copy of the state as it is. *)
LEMMA StartKeeps ==
    ASSUME MarkInv, NEW c \in Calls, NEW ids, NEW parallel \in BOOLEAN,
           ids \subseteq DOMAIN tasks, parallel => ids # {}, Start(c, ids, parallel)
    PROVE  MarkInv'
<1>. DEFINE list == [i \in DOMAIN tasks |->
                        IF i \in ids THEN [tasks[i] EXCEPT !.st = "in_progress"] ELSE tasks[i]]
            mine == [ids |-> ids, list |-> list, marks |-> marks,
                     parallel |-> parallel, alone |-> Idle]
<1>1. /\ IsList(tasks) /\ marks \in Marks /\ alone \subseteq Ids
      /\ \A d \in Calls : CallShape(call[d])
      /\ call[c].ids = {}
  BY DEF MarkInv, Shape, Start
<1>2. IsList(list) /\ ids \subseteq Ids
  BY <1>1, SameDomainList, ListFacts
<1>3. tasks' = list /\ saved' = list /\ UNCHANGED <<marks, alone>>
  BY DEF Start, Save
<1>4. call' = [d \in Calls |-> IF d = c THEN mine
                               ELSE [call[d] EXCEPT !.alone = @ /\ call[d].ids = {}]]
  BY DEF Start
<1>. HIDE DEF list
<1>5. /\ mine.ids = ids /\ mine.marks = marks /\ mine.alone = Idle
      /\ CallShape(mine)
  BY <1>1, <1>2 DEF CallShape, Idle
<1>. HIDE DEF mine
<1>6. ASSUME NEW d \in Calls \ {c}
      PROVE  /\ call'[d].ids = call[d].ids /\ call'[d].marks = call[d].marks
             /\ call'[d].alone => call[d].ids = {}
             /\ CallShape(call'[d])
  <2>1. call'[d] = [call[d] EXCEPT !.alone = @ /\ call[d].ids = {}] /\ CallShape(call[d])
    BY <1>1, <1>4
  <2>2. QED
    BY <2>1 DEF CallShape
<1>7. call'[c] = mine
  BY <1>4
<1>8. Shape'
  BY <1>1, <1>2, <1>3, <1>4, <1>5, <1>6, <1>7 DEF Shape
<1>9. MarksKept'
  BY <1>3 DEF MarkInv, MarksKept
<1>10. CopyHolds(c)'
  BY <1>3, <1>5, <1>6, <1>7 DEF MarkInv, MarksKept, CopyHolds, Idle
<1>11. ASSUME NEW d \in Calls \ {c}
       PROVE  CopyHolds(d)'
  BY <1>3, <1>6 DEF MarkInv, CopyHolds
<1>12. QED
  BY <1>8, <1>9, <1>10, <1>11 DEF MarkInv

(* An execution returns: its marks are in the state, those that were there   *)
(* and had to be kept still are.                                             *)
LEMMA ReturnKeeps ==
    ASSUME MarkInv, NEW c \in Calls, call[c].ids # {}, Return(c),
           IsList(tasks'), IsList(saved'), marks' \in Marks, alone' \subseteq Ids,
           \A i \in alone' : marks'[i],
           ~call[c].alone => alone' = alone
    PROVE  MarkInv'
<1>1. /\ call' = [call EXCEPT ![c] = Free]
      /\ call = [d \in Calls |-> call[d]]
      /\ \A d \in Calls : CallShape(call[d])
  BY DEF Return, MarkInv, Shape
<1>2. call'[c] = Free /\ \A d \in Calls \ {c} : call'[d] = call[d]
  BY <1>1
<1>3. Shape'
  BY <1>1, <1>2, FreeShape DEF Shape
<1>4. CopyHolds(c)'
  BY <1>2, FreeShape DEF CopyHolds
<1>5. ASSUME NEW d \in Calls \ {c}
      PROVE  CopyHolds(d)'
  <2>1. CopyHolds(c) /\ CopyHolds(d)
    BY DEF MarkInv
  <2>2. call[c].alone => call'[d].ids = {}
    BY <1>2, <2>1 DEF CopyHolds
  <2>3. call[d].ids # {} => ~call[d].alone
    BY <2>1 DEF CopyHolds
  <2>4. QED
    BY <1>2, <2>1, <2>2, <2>3 DEF CopyHolds
<1>6. QED
  BY <1>3, <1>4, <1>5 DEF MarkInv, MarksKept

(* The copy of one member. *)
LEMMA WorkedFacts ==
    ASSUME NEW copy \in Marks, NEW i \in Ids
    PROVE  /\ Worked(copy, i) \in Marks
           /\ Worked(copy, i)[i]
           /\ \A k \in Ids : copy[k] => Worked(copy, i)[k]
           /\ \A k \in Ids \ {i} : Worked(copy, i)[k] = copy[k]
  BY DEF Worked, Marks

LEMMA SingleKeeps ==
    ASSUME MarkInv, NEW c \in Calls, NEW i,
           \/ MemberRaises(c, i) \/ MemberCancelled(c, i) \/ MemberPauses(c, i)
           \/ \E st : MemberReturns(c, i, st)
    PROVE  MarkInv'
<1>1. /\ call[c].ids = {i} /\ Return(c) /\ CallShape(call[c])
      /\ IsList(tasks) /\ IsList(saved) /\ marks \in Marks /\ alone \subseteq Ids
  BY DEF MemberRaises, MemberCancelled, MemberPauses, MemberReturns, Single, MarkInv, Shape
<1>2. i \in Ids /\ call[c].marks \in Marks /\ IsList(call[c].list)
  BY <1>1 DEF CallShape
<1>3. \A st : IsList(With(i, st))
  BY <1>1, SameDomainList DEF With
<1>4. /\ \A k \in alone : marks[k]
      /\ \A k \in alone : call[c].marks[k]
  BY <1>1 DEF MarkInv, MarksKept, CopyHolds
<1>5. CASE MemberRaises(c, i) \/ MemberCancelled(c, i)
  <2>1. UNCHANGED <<marks, alone>> /\ IsList(tasks') /\ IsList(saved')
    BY <1>1, <1>3, <1>5 DEF MemberRaises, MemberCancelled, Save
  <2>2. QED
    BY <1>1, <1>4, <2>1, ReturnKeeps
<1>6. /\ Worked(call[c].marks, i) \in Marks
      /\ Worked(call[c].marks, i)[i]
      /\ \A k \in alone : Worked(call[c].marks, i)[k]
  BY <1>1, <1>2, <1>4, WorkedFacts
<1>7. CASE MemberPauses(c, i)
  <2>1. /\ marks' = Worked(call[c].marks, i) /\ alone' = alone
        /\ IsList(tasks') /\ IsList(saved')
    BY <1>2, <1>3, <1>7 DEF MemberPauses
  <2>2. QED
    BY <1>1, <1>6, <2>1, ReturnKeeps
<1>8. ASSUME NEW st, MemberReturns(c, i, st)
      PROVE  MarkInv'
  <2>1. /\ marks' = Worked(call[c].marks, i)
        /\ alone' \subseteq alone \cup {i} /\ (~call[c].alone => alone' = alone)
        /\ IsList(tasks') /\ IsList(saved')
    BY <1>3, <1>8 DEF MemberReturns, Save
  <2>2. QED
    BY <1>1, <1>2, <1>6, <2>1, ReturnKeeps
<1>9. QED
  BY <1>5, <1>7, <1>8

(* The copies of one parallel call are merged change by change. *)
LEMMA ParallelKeeps ==
    ASSUME MarkInv, NEW c \in Calls, NEW outcome, ParallelReturns(c, outcome)
    PROVE  MarkInv'
<1>. DEFINE copy == call[c].marks
            done == Copied(c, outcome)
<1>1. /\ Return(c) /\ CallShape(call[c]) /\ call[c].ids # {}
      /\ IsList(tasks) /\ marks \in Marks /\ alone \subseteq Ids
  BY DEF ParallelReturns, MarkInv, Shape, CallShape
<1>2. call[c].ids \subseteq Ids /\ copy \in Marks /\ done \subseteq Ids
  BY <1>1 DEF CallShape, Copied
<1>3. /\ \A k \in alone : marks[k]
      /\ \A k \in alone : copy[k]
      /\ call[c].alone => copy = marks
  BY <1>1 DEF MarkInv, MarksKept, CopyHolds
<1>4. /\ marks' = Merged(c, done)
      /\ tasks' = saved' /\ IsList(tasks')
      /\ alone' = IF call[c].alone THEN alone \cup {i \in call[c].ids : outcome[i] = "completed"}
                                   ELSE alone
  BY <1>1, SameDomainList DEF ParallelReturns, Save
<1>5. marks' \in Marks
  BY <1>1, <1>4 DEF Merged, Marks
<1>6. ASSUME NEW k \in Ids
      PROVE  marks'[k] = IF \E i \in done : Worked(copy, i)[k] # marks[k]
                         THEN ~marks[k] ELSE marks[k]
  BY <1>4 DEF Merged
<1>7. \A i \in done : \A k \in Ids : copy[k] => Worked(copy, i)[k]
  BY <1>2, WorkedFacts
<1>8. \A k \in alone : marks'[k]
  BY <1>1, <1>3, <1>6, <1>7 DEF Marks
<1>9. ASSUME call[c].alone, NEW k \in done
      PROVE  marks'[k]
  <2>1. k \in Ids /\ Worked(copy, k)[k] /\ Worked(copy, k)[k] \in BOOLEAN
    BY <1>2, WorkedFacts DEF Marks
  <2>2. CASE marks[k]
    <3>1. \A i \in done : Worked(copy, i)[k]
      BY <1>3, <1>7, <1>9, <2>1, <2>2
    <3>2. \A i \in done : Worked(copy, i)[k] = TRUE
      BY <1>2, <2>1, <3>1, WorkedFacts DEF Marks
    <3>3. marks[k] = TRUE
      BY <1>1, <2>1, <2>2 DEF Marks
    <3>4. QED
      BY <1>6, <2>1, <3>2, <3>3
  <2>3. CASE ~marks[k]
    BY <1>6, <2>1, <2>3
  <2>4. QED
    BY <2>2, <2>3
<1>10. \A i \in alone' : marks'[i] /\ i \in Ids
  BY <1>1, <1>2, <1>4, <1>8, <1>9 DEF Copied
<1>11. QED
  BY <1>1, <1>4, <1>5, <1>10, ReturnKeeps

LEMMA MarkStep == MarkInv /\ [Next]_vars => MarkInv'
<1>. SUFFICES ASSUME MarkInv, [Next]_vars PROVE MarkInv'
  OBVIOUS
<1>1. CASE UNCHANGED vars
  BY <1>1, ListStep DEF vars, MarkInv, Shape
<1>2. ASSUME NEW c \in Calls, Execution(c)
      PROVE  MarkInv'
  <2>1. ASSUME NEW i \in DOMAIN tasks, Execute(c, i)
        PROVE  MarkInv'
    BY <2>1, StartKeeps DEF Execute
  <2>2. ASSUME NEW ids \in SUBSET DOMAIN tasks, ExecuteParallel(c, ids)
        PROVE  MarkInv'
    BY <2>2, StartKeeps DEF ExecuteParallel
  <2>3. ASSUME NEW outcome, ParallelReturns(c, outcome)
        PROVE  MarkInv'
    BY <2>3, ParallelKeeps
  <2>4. QED
    BY <1>2, <2>1, <2>2, <2>3, SingleKeeps DEF Execution
<1>3. QED
  BY <1>1, <1>2, ListActions DEF Next

(* What a member leaves in the session state while no other execution is     *)
(* under way is never undone: neither by an execution that overlaps another, *)
(* nor by the merge of a parallel call, nor by a member that pauses.         *)
THEOREM MarksStay == Spec => []MarksKept
<1>1. MarkInv => MarksKept
  BY DEF MarkInv
<1>2. QED
  BY <1>1, MarkInit, MarkStep, PTL DEF Spec

-----------------------------------------------------------------------------
(* The pass over the list. *)

(* Induction over the natural numbers, for a set of them.  If A did not have  *)
(* some k, the function that keeps the members of A and moves the others one  *)
(* down would take 0..k to 0..(k - 1) one to one.                            *)
LEMMA SetInduction ==
    ASSUME NEW A, 0 \in A, \A n \in Nat : n \in A => n + 1 \in A
    PROVE  Nat \subseteq A
<1>. SUFFICES ASSUME NEW k \in Nat, k \notin A
              PROVE  FALSE
  OBVIOUS
<1>1. k > 0
  OBVIOUS
<1>. DEFINE f == [n \in 0..k |-> IF n \in A THEN n ELSE n - 1]
<1>2. f \in [0..k -> 0..(k - 1)]
  <2>. SUFFICES ASSUME NEW n \in 0..k
                PROVE  f[n] \in 0..(k - 1)
    OBVIOUS
  <2>1. CASE n \in A
    BY <2>1
  <2>2. CASE n \notin A
    BY <2>2
  <2>. QED
    BY <2>1, <2>2
<1>3. /\ IsFiniteSet(0..k) /\ Cardinality(0..k) = k + 1
      /\ IsFiniteSet(0..(k - 1)) /\ Cardinality(0..(k - 1)) = k
  <2>1. 0 \in Int /\ k \in Int /\ k - 1 \in Int
    OBVIOUS
  <2>2. /\ IsFiniteSet(0..k) /\ Cardinality(0..k) = IF 0 > k THEN 0 ELSE k - 0 + 1
    BY <2>1, FS_Interval
  <2>3. /\ IsFiniteSet(0..(k - 1)) /\ Cardinality(0..(k - 1)) = IF 0 > k - 1 THEN 0 ELSE (k - 1) - 0 + 1
    BY <2>1, FS_Interval
  <2>. QED
    BY <1>1, <2>2, <2>3
<1>4. \E m, n \in 0..k : m # n /\ f[m] = f[n]
  <2>1. Cardinality(0..(k - 1)) < Cardinality(0..k)
    BY <1>3
  <2>. HIDE DEF f
  <2>. QED
    BY <1>2, <1>3, <2>1, FS_PigeonHole
<1>5. \A m, n \in 0..k : m # n => f[m] # f[n]
  OBVIOUS
<1>. QED
  BY <1>4, <1>5

(* The lists of a pass, up to the n-th task. *)
IsPass(list, n, f) == f = [k \in 0..n |-> IF k = 0 THEN list ELSE Settled(f[k - 1], k)]

LEMMA PassExists ==
    ASSUME NEW list, NEW n \in Nat
    PROVE  \E f : IsPass(list, n, f)
<1>. DEFINE A == {m \in Nat : \E f : IsPass(list, m, f)}
<1>1. 0 \in A
  <2>1. IsPass(list, 0, [k \in 0..0 |-> list])
    BY DEF IsPass
  <2>. QED
    BY <2>1
<1>2. ASSUME NEW m \in Nat, m \in A
      PROVE  m + 1 \in A
  <2>1. PICK f : IsPass(list, m, f)
    BY <1>2
  <2>. DEFINE g == [k \in 0..(m + 1) |-> IF k <= m THEN f[k] ELSE Settled(f[m], m + 1)]
  <2>2. ASSUME NEW k \in 0..(m + 1)
        PROVE  g[k] = IF k = 0 THEN list ELSE Settled(g[k - 1], k)
    <3>1. CASE k = 0
      BY <2>1, <3>1 DEF IsPass
    <3>2. CASE k > 0 /\ k <= m
      <4>1. k \in 0..m /\ k - 1 \in 0..m /\ k - 1 \in 0..(m + 1) /\ k - 1 <= m
        BY <3>2
      <4>2. f[k] = Settled(f[k - 1], k)
        BY <2>1, <3>2, <4>1 DEF IsPass
      <4>3. g[k] = f[k] /\ g[k - 1] = f[k - 1]
        BY <3>2, <4>1
      <4>. QED
        BY <3>2, <4>2, <4>3
    <3>3. CASE k = m + 1
      <4>1. k - 1 = m /\ m \in 0..(m + 1) /\ ~(k <= m) /\ k # 0
        BY <3>3
      <4>2. g[k] = Settled(f[m], k) /\ g[m] = f[m]
        BY <3>3, <4>1
      <4>. QED
        BY <4>1, <4>2
    <3>. QED
      BY <3>1, <3>2, <3>3
  <2>. HIDE DEF g
  <2>3. g = [k \in 0..(m + 1) |-> g[k]]
    BY DEF g
  <2>4. IsPass(list, m + 1, g)
    BY <2>2, <2>3 DEF IsPass
  <2>. QED
    BY <2>4
<1>3. Nat \subseteq A
  <2>. HIDE DEF A
  <2>. QED
    BY <1>1, <1>2, SetInduction
<1>. QED
  BY <1>3

LEMMA PassRefreshed ==
    ASSUME NEW list, Len(list) \in Nat
    PROVE  \E f : /\ IsPass(list, Len(list), f)
                  /\ Refreshed(list) = [i \in DOMAIN list |-> f[Len(list)][i]]
<1>. DEFINE f == CHOOSE f : f = [k \in 0..Len(list) |-> IF k = 0 THEN list ELSE Settled(f[k - 1], k)]
<1>1. \E g : g = [k \in 0..Len(list) |-> IF k = 0 THEN list ELSE Settled(g[k - 1], k)]
  <2>1. PICK g : IsPass(list, Len(list), g)
    BY PassExists
  <2>. QED
    BY <2>1 DEF IsPass
<1>2. f = [k \in 0..Len(list) |-> IF k = 0 THEN list ELSE Settled(f[k - 1], k)]
  BY <1>1, Zenon
<1>3. Refreshed(list) = [i \in DOMAIN list |-> f[Len(list)][i]]
  BY DEF Refreshed
<1>. QED
  BY <1>2, <1>3 DEF IsPass

Task == [st : Statuses, deps : SUBSET (Ids \cup {Unknown})]

LEMMA TaskListFacts ==
    ASSUME NEW list
    PROVE  list \in TaskList <=> /\ Len(list) \in 0..MaxTasks
                                 /\ list \in [1..Len(list) -> Task]
<1>1. ASSUME list \in TaskList
      PROVE  Len(list) \in 0..MaxTasks /\ list \in [1..Len(list) -> Task]
  <2>1. PICK n \in 0..MaxTasks : list \in [1..n -> Task]
    BY <1>1 DEF TaskList, Task
  <2>2. n \in Nat
    BY TeamTasksAssumption
  <2>3. list \in Seq(Task) /\ Len(list) = n
    BY <2>1, <2>2, IsASeq, LenProperties
  <2>. QED
    BY <2>1, <2>3
<1>2. ASSUME Len(list) \in 0..MaxTasks, list \in [1..Len(list) -> Task]
      PROVE  list \in TaskList
  BY <1>2 DEF TaskList, Task
<1>. QED
  BY <1>1, <1>2

(* A list as the passes see it. *)
LEMMA TaskListShape ==
    ASSUME NEW list \in TaskList
    PROVE  /\ Len(list) \in Nat /\ Len(list) <= MaxTasks /\ DOMAIN list = 1..Len(list)
           /\ DOMAIN list \subseteq Ids
           /\ list = [i \in DOMAIN list |-> list[i]]
           /\ \A i \in DOMAIN list : /\ list[i] \in Task
                                     /\ list[i] = [st |-> list[i].st, deps |-> list[i].deps]
                                     /\ list[i].st \in Statuses
                                     /\ list[i].deps \subseteq Ids \cup {Unknown}
<1>1. Len(list) \in 0..MaxTasks /\ list \in [1..Len(list) -> Task]
  BY TaskListFacts
<1>2. MaxTasks \in Nat
  BY TeamTasksAssumption
<1>3. \A i \in 1..Len(list) : list[i] \in Task
  BY <1>1
<1>4. \A t \in Task : t = [st |-> t.st, deps |-> t.deps] /\ t.st \in Statuses /\ t.deps \subseteq Ids \cup {Unknown}
  BY DEF Task
<1>. QED
  BY <1>1, <1>2, <1>3, <1>4 DEF Ids

LEMMA TaskListMade ==
    ASSUME NEW list \in TaskList, NEW new, DOMAIN new = DOMAIN list,
           new = [i \in DOMAIN new |-> new[i]],
           \A i \in DOMAIN list : new[i] \in Task
    PROVE  new \in TaskList
<1>1. Len(list) \in 0..MaxTasks /\ DOMAIN list = 1..Len(list)
  BY TaskListFacts
<1>2. new \in [1..Len(list) -> Task]
  BY <1>1
<1>. QED
  BY <1>1, <1>2 DEF TaskList, Task

(* Tasks depend on earlier ones. *)
InOrder(list) == \A i \in DOMAIN list : \A d \in list[i].deps : d < i

(* The status a task has after the pass, when the list after the pass is new. *)
NewStatus(st, new, i) ==
    IF st = "blocked" /\ DependencyFailed(new, i) THEN "failed"
    ELSE IF st \in {"pending", "blocked"} THEN IF Blocked(new, i) THEN "blocked" ELSE "pending"
    ELSE st

LEMMA SettledFacts ==
    ASSUME NEW list \in TaskList, NEW n \in DOMAIN list
    PROVE  /\ Settled(list, n) \in TaskList
           /\ DOMAIN Settled(list, n) = DOMAIN list
           /\ \A i \in DOMAIN list \ {n} : Settled(list, n)[i] = list[i]
           /\ Settled(list, n)[n] = [st |-> NewStatus(list[n].st, list, n), deps |-> list[n].deps]
<1>. DEFINE new == Settled(list, n)
            st == NewStatus(list[n].st, list, n)
<1>1. /\ list[n] = [st |-> list[n].st, deps |-> list[n].deps]
      /\ list[n] \in Task /\ list[n].st \in Statuses
      /\ \A i \in DOMAIN list : list[i] \in Task
      /\ list = [i \in DOMAIN list |-> list[i]]
  BY TaskListShape
<1>2. new = [list EXCEPT ![n].st = st]
  <2>1. list = [list EXCEPT ![n].st = list[n].st]
    BY <1>1
  <2>. QED
    BY <2>1 DEF Settled, NewStatus
<1>3. st \in Statuses
  BY <1>1 DEF NewStatus, Statuses
<1>. HIDE DEF st
<1>4. [list[n] EXCEPT !.st = st] = [st |-> st, deps |-> list[n].deps]
  BY <1>1
<1>5. /\ DOMAIN new = DOMAIN list
      /\ new = [i \in DOMAIN new |-> new[i]]
      /\ \A i \in DOMAIN list \ {n} : new[i] = list[i]
      /\ new[n] = [st |-> st, deps |-> list[n].deps]
  BY <1>1, <1>2, <1>4
<1>6. new[n] \in Task
  BY <1>1, <1>3, <1>5 DEF Task
<1>7. new \in TaskList
  <2>. HIDE DEF new
  <2>. QED
    BY <1>1, <1>5, <1>6, TaskListMade
<1>. QED
  BY <1>5, <1>7 DEF st

(* What blocks a task is seen in its dependencies alone. *)
LEMMA SameBlocks ==
    ASSUME NEW list, NEW new, NEW i, DOMAIN new = DOMAIN list, new[i].deps = list[i].deps,
           \A d \in list[i].deps \cap DOMAIN list : new[d].st = list[d].st
    PROVE  /\ Blocked(new, i) <=> Blocked(list, i)
           /\ DependencyFailed(new, i) <=> DependencyFailed(list, i)
  BY DEF Blocked, DependencyFailed

(* One pass in the order of creation settles everything: in the list it makes *)
(* each task has the status that its old status and the new status of its     *)
(* dependencies call for, however long the chains are.                       *)
LEMMA RefreshedRule ==
    ASSUME NEW list \in TaskList, InOrder(list)
    PROVE  /\ Refreshed(list) \in TaskList
           /\ DOMAIN Refreshed(list) = DOMAIN list
           /\ \A i \in DOMAIN list :
                 Refreshed(list)[i] = [st |-> NewStatus(list[i].st, Refreshed(list), i),
                                       deps |-> list[i].deps]
<1>. DEFINE N == Len(list)
<1>1. N \in Nat /\ DOMAIN list = 1..N /\ N <= MaxTasks
  BY TaskListShape
<1>2. PICK f : IsPass(list, N, f) /\ Refreshed(list) = [i \in DOMAIN list |-> f[N][i]]
  BY <1>1, PassRefreshed
<1>3. /\ f[0] = list
      /\ \A k \in 1..N : f[k] = Settled(f[k - 1], k)
  <2>1. f = [k \in 0..N |-> IF k = 0 THEN list ELSE Settled(f[k - 1], k)]
    BY <1>2 DEF IsPass
  <2>2. 0 \in 0..N /\ \A k \in 1..N : k \in 0..N /\ k # 0
    BY <1>1
  <2>. HIDE DEF N
  <2>. QED
    BY <2>1, <2>2
<1>. HIDE DEF N
<1>. DEFINE Done(n) ==
        /\ f[n] \in TaskList /\ DOMAIN f[n] = DOMAIN list
        /\ \A i \in DOMAIN list : i > n => f[n][i] = list[i]
        /\ \A i \in DOMAIN list : i <= n =>
              f[n][i] = [st |-> NewStatus(list[i].st, f[n], i), deps |-> list[i].deps]
            A == {n \in Nat : n <= N => Done(n)}
<1>4. 0 \in A
  BY <1>1, <1>3
<1>5. ASSUME NEW n \in Nat, n \in A
      PROVE  n + 1 \in A
  <2>. SUFFICES ASSUME n + 1 <= N
                PROVE  Done(n + 1)
    OBVIOUS
  <2>. DEFINE old == f[n]
              new == f[n + 1]
              m == n + 1
  <2>1. m \in DOMAIN list /\ m \in 1..N /\ m - 1 = n /\ n <= N
    BY <1>1
  <2>2. Done(n)
    BY <1>5, <2>1
  <2>3. new = Settled(old, m)
    BY <1>3, <2>1
  <2>. HIDE DEF old, new, m
  <2>4. old \in TaskList /\ DOMAIN old = DOMAIN list
    BY <2>2 DEF old
  <2>5. /\ new \in TaskList /\ DOMAIN new = DOMAIN list
        /\ \A i \in DOMAIN list \ {m} : new[i] = old[i]
        /\ new[m] = [st |-> NewStatus(old[m].st, old, m), deps |-> old[m].deps]
    BY <2>1, <2>3, <2>4, SettledFacts
  <2>6. old[m] = list[m]
    BY <1>1, <2>1, <2>2 DEF old, m
  <2>7. ASSUME NEW i \in DOMAIN list
        PROVE  old[i].deps = list[i].deps
    <3>1. CASE i > n
      BY <2>2, <3>1 DEF old
    <3>2. CASE i <= n
      <4>1. old[i] = [st |-> NewStatus(list[i].st, old, i), deps |-> list[i].deps]
        BY <2>2, <3>2 DEF old
      <4>. QED
        BY <4>1
    <3>. QED
      BY <1>1, <3>1, <3>2
  <2>8. \A i \in DOMAIN list : i \in Nat
    BY <1>1
  <2>9. ASSUME NEW i \in DOMAIN list, i <= m
        PROVE  /\ Blocked(new, i) <=> Blocked(old, i)
               /\ DependencyFailed(new, i) <=> DependencyFailed(old, i)
    <3>1. new[i].deps = old[i].deps
      BY <2>1, <2>5
    <3>2. \A d \in old[i].deps : d < i
      BY <2>7 DEF InOrder
    <3>3. \A d \in old[i].deps \cap DOMAIN old : d \in DOMAIN list \ {m}
      BY <1>1, <2>1, <2>4, <2>8, <2>9, <3>2
    <3>4. \A d \in old[i].deps \cap DOMAIN old : new[d].st = old[d].st
      BY <2>5, <3>3
    <3>. QED
      BY <2>4, <2>5, <3>1, <3>4, SameBlocks
  <2>10. ASSUME NEW i \in DOMAIN list, i > m
         PROVE  new[i] = list[i]
    <3>1. i # m /\ i > n
      BY <2>1, <2>8, <2>10 DEF m
    <3>. QED
      BY <2>2, <2>5, <3>1 DEF old
  <2>11. ASSUME NEW i \in DOMAIN list, i <= m
         PROVE  new[i] = [st |-> NewStatus(list[i].st, new, i), deps |-> list[i].deps]
    <3>1. CASE i = m
      BY <2>5, <2>6, <2>9, <3>1, <2>1 DEF NewStatus
    <3>2. CASE i # m
      <4>1. i <= n
        BY <2>1, <2>8, <2>11, <3>2 DEF m
      <4>2. old[i] = [st |-> NewStatus(list[i].st, old, i), deps |-> list[i].deps]
        BY <2>2, <4>1 DEF old
      <4>. QED
        BY <2>5, <2>9, <2>11, <3>2, <4>2 DEF NewStatus
    <3>. QED
      BY <3>1, <3>2
  <2>. QED
    BY <2>5, <2>10, <2>11 DEF new, m
<1>6. Done(N)
  <2>1. Nat \subseteq A
    <3>. HIDE DEF A
    <3>. QED
      BY <1>4, <1>5, SetInduction
  <2>. QED
    BY <1>1, <2>1
<1>7. Refreshed(list) = f[N]
  <2>1. f[N] = [i \in DOMAIN f[N] |-> f[N][i]]
    BY <1>6, TaskListShape
  <2>. QED
    BY <1>2, <1>6, <2>1
<1>8. \A i \in DOMAIN list : i <= N
  BY <1>1
<1>. QED
  BY <1>6, <1>7, <1>8

-----------------------------------------------------------------------------
(* The types.  That the list a paused member brings back fits the one it is   *)
(* put in place of rests on this: while executions are under way no task is   *)
(* added, so all copies of the list have the same tasks.                     *)

Agree(list) ==
    /\ list \in TaskList
    /\ DOMAIN list = DOMAIN tasks
    /\ \A i \in DOMAIN tasks : list[i].deps = tasks[i].deps

TypeInv ==
    /\ TypeOK
    /\ phase # "execute" => Idle
    /\ Agree(saved)
    /\ \A c \in Calls : call[c].ids # {} => Agree(call[c].list)

(* The same tasks, those of ids perhaps with another status. *)
Restated(new, ids) ==
    /\ new \in TaskList /\ DOMAIN new = DOMAIN tasks
    /\ \A i \in DOMAIN tasks : /\ new[i].deps = tasks[i].deps
                               /\ i \notin ids => new[i] = tasks[i]

CallType == [ids : SUBSET Ids, list : TaskList, marks : Marks, parallel : BOOLEAN, alone : BOOLEAN]

LEMMA TypeParts ==
    ASSUME TypeInv
    PROVE  /\ tasks \in TaskList /\ saved \in TaskList /\ InOrder(tasks) /\ InOrder(saved)
           /\ marks \in Marks /\ call \in [Calls -> CallType]
           /\ byHand \subseteq DOMAIN tasks /\ alone \subseteq DOMAIN tasks
           /\ \A c \in Calls : call[c].ids \subseteq DOMAIN tasks
           /\ DOMAIN tasks \subseteq Ids
<1>1. tasks \in TaskList /\ InOrder(tasks)
  BY DEF TypeInv, TypeOK, InOrder
<1>2. DOMAIN tasks \subseteq Ids
  BY <1>1, TaskListShape
<1>. QED
  BY <1>1, <1>2 DEF TypeInv, TypeOK, Agree, InOrder, Marks, CallType

LEMMA SameLength ==
    ASSUME NEW list \in TaskList, NEW new \in TaskList, DOMAIN new = DOMAIN list
    PROVE  Len(new) = Len(list)
<1>1. ASSUME NEW m \in Nat, NEW n \in Nat, 1..m = 1..n
      PROVE  m <= n
  <2>1. m = 0 \/ m \in 1..m
    OBVIOUS
  <2>2. m = 0 \/ m \in 1..n
    BY <1>1, <2>1
  <2>. QED
    BY <2>2
<1>. DEFINE m == Len(new)
            n == Len(list)
<1>2. m \in Nat /\ n \in Nat /\ DOMAIN new = 1..m /\ DOMAIN list = 1..n
  BY TaskListShape
<1>. HIDE DEF m, n
<1>3. m <= n /\ n <= m
  BY <1>1, <1>2
<1>4. m = n
  BY <1>2, <1>3
<1>. QED
  BY <1>4, Zenon DEF m, n

LEMMA RestatedOne ==
    ASSUME TypeInv, NEW i \in DOMAIN tasks, NEW st \in Statuses
    PROVE  Restated(With(i, st), {i})
<1>1. tasks \in TaskList /\ tasks[i] = [st |-> tasks[i].st, deps |-> tasks[i].deps]
      /\ tasks[i].deps \subseteq Ids \cup {Unknown}
      /\ tasks = [k \in DOMAIN tasks |-> tasks[k]]
      /\ \A k \in DOMAIN tasks : tasks[k] \in Task
  BY TypeParts, TaskListShape
<1>. DEFINE new == With(i, st)
<1>2. /\ DOMAIN new = DOMAIN tasks
      /\ new = [k \in DOMAIN new |-> new[k]]
      /\ new[i] = [st |-> st, deps |-> tasks[i].deps]
      /\ \A k \in DOMAIN tasks \ {i} : new[k] = tasks[k]
  BY <1>1 DEF With
<1>. HIDE DEF new
<1>3. new[i] \in Task
  BY <1>1, <1>2 DEF Task
<1>4. new \in TaskList
  BY <1>1, <1>2, <1>3, TaskListMade
<1>5. Restated(new, {i})
  BY <1>2, <1>4 DEF Restated
<1>. QED
  BY <1>5 DEF new

LEMMA RestatedMany ==
    ASSUME TypeInv, NEW ids \in SUBSET DOMAIN tasks, NEW st \in [ids -> Statuses],
           NEW new, new = [i \in DOMAIN tasks |-> IF i \in ids THEN [tasks[i] EXCEPT !.st = st[i]] ELSE tasks[i]]
    PROVE  Restated(new, ids)
<1>1. /\ tasks \in TaskList
      /\ \A k \in DOMAIN tasks : /\ tasks[k] \in Task
                                 /\ tasks[k] = [st |-> tasks[k].st, deps |-> tasks[k].deps]
                                 /\ tasks[k].deps \subseteq Ids \cup {Unknown}
  BY TypeParts, TaskListShape
<1>2. ASSUME NEW k \in ids
      PROVE  new[k] = [st |-> st[k], deps |-> tasks[k].deps] /\ new[k] \in Task
  <2>1. new[k] = [tasks[k] EXCEPT !.st = st[k]] /\ st[k] \in Statuses
    OBVIOUS
  <2>2. new[k] = [st |-> st[k], deps |-> tasks[k].deps]
    BY <1>1, <2>1
  <2>. QED
    BY <1>1, <2>1, <2>2 DEF Task
<1>3. \A k \in DOMAIN tasks \ ids : new[k] = tasks[k]
  OBVIOUS
<1>4. DOMAIN new = DOMAIN tasks /\ new = [k \in DOMAIN new |-> new[k]]
  OBVIOUS
<1>5. new \in TaskList
  BY <1>1, <1>2, <1>3, <1>4, TaskListMade
<1>. QED
  BY <1>2, <1>3, <1>4, <1>5 DEF Restated

LEMMA EmptyTaskList == <<>> \in TaskList /\ DOMAIN <<>> = {}
<1>1. 0 \in 0..MaxTasks
  BY TeamTasksAssumption
<1>2. <<>> \in [1..0 -> Task] /\ DOMAIN <<>> = {}
  OBVIOUS
<1>. QED
  BY <1>1, <1>2 DEF TaskList, Task

LEMMA FreeType == Free \in CallType /\ Free.ids = {}
  BY EmptyTaskList DEF Free, CallType, Marks

(* The parts of TypeOK, the list in the session state by Agree. *)
Typed ==
    /\ tasks \in TaskList /\ InOrder(tasks) /\ Agree(saved)
    /\ marks \in Marks /\ call \in [Calls -> CallType]
    /\ phase \in {"execute", "edit", "over"} /\ runs \in 0..MaxRuns
    /\ goal \in BOOLEAN /\ paused \in BOOLEAN
    /\ byHand \subseteq DOMAIN tasks /\ alone \subseteq DOMAIN tasks
    /\ \A c \in Calls : call[c].ids \subseteq DOMAIN tasks

LEMMA TypeMade == Typed => TypeOK
<1>. SUFFICES ASSUME Typed PROVE TypeOK
  OBVIOUS
<1>1. tasks \in TaskList /\ saved \in TaskList /\ DOMAIN saved = DOMAIN tasks
  BY DEF Typed, Agree
<1>2. Len(saved) = Len(tasks)
  BY <1>1, SameLength
<1>. QED
  BY <1>1, <1>2 DEF Typed, TypeOK, InOrder, Marks, CallType

LEMMA TypeInit == Init => TypeInv
<1>. SUFFICES ASSUME Init PROVE TypeInv
  OBVIOUS
<1>1. tasks = <<>> /\ saved = <<>> /\ byHand = {} /\ alone = {} /\ phase = "over"
      /\ goal = FALSE /\ paused = FALSE
  BY DEF Init
<1>2. runs \in 0..MaxRuns
  BY TeamTasksAssumption DEF Init
<1>3. marks \in Marks
  BY DEF Init, Marks
<1>4. call \in [Calls -> CallType] /\ \A c \in Calls : call[c].ids = {}
  BY FreeType DEF Init
<1>5. Agree(saved) /\ InOrder(tasks) /\ tasks \in TaskList
  BY <1>1, EmptyTaskList DEF Agree, InOrder
<1>6. TypeOK
  <2>1. Typed
    BY <1>1, <1>2, <1>3, <1>4, <1>5 DEF Typed
  <2>. QED
    BY <2>1, TypeMade
<1>. QED
  BY <1>1, <1>4, <1>5, <1>6 DEF TypeInv, Idle

LEMMA AppendTask ==
    ASSUME TypeInv, Len(tasks) < MaxTasks,
           NEW deps \in (SUBSET DOMAIN tasks) \cup {{Unknown}},
           NEW base, base = Append(tasks, [st |-> "pending", deps |-> deps])
    PROVE  /\ base \in TaskList /\ InOrder(base)
           /\ DOMAIN base = DOMAIN tasks \cup {Len(tasks) + 1}
           /\ Len(tasks) + 1 \notin DOMAIN tasks
           /\ \A i \in DOMAIN tasks : base[i] = tasks[i]
           /\ base[Len(tasks) + 1] = [st |-> "pending", deps |-> deps]
<1>. DEFINE n == Len(tasks) + 1
            new == [st |-> "pending", deps |-> deps]
<1>1. /\ tasks \in TaskList /\ InOrder(tasks) /\ DOMAIN tasks \subseteq Ids
      /\ Len(tasks) \in Nat /\ DOMAIN tasks = 1..Len(tasks)
      /\ \A i \in DOMAIN tasks : tasks[i] \in Task
      /\ tasks = [i \in DOMAIN tasks |-> tasks[i]]
  BY TypeParts, TaskListShape
<1>2. MaxTasks \in Nat /\ n \in 0..MaxTasks
  BY <1>1, TeamTasksAssumption
<1>3. new \in Task
  <2>1. deps \subseteq Ids \cup {Unknown}
    BY <1>1
  <2>2. "pending" \in Statuses
    BY DEF Statuses
  <2>. QED
    BY <2>1, <2>2 DEF Task
<1>4. tasks \in [1..Len(tasks) -> Task]
  BY <1>1
<1>5. tasks \in Seq(Task)
  BY <1>1, <1>4, IsASeq
<1>. HIDE DEF new
<1>6. /\ base \in Seq(Task) /\ Len(base) = n
      /\ base[n] = new /\ \A i \in 1..Len(tasks) : base[i] = tasks[i]
  BY <1>3, <1>5, AppendProperties DEF new
<1>7. DOMAIN base = 1..n /\ base \in [1..Len(base) -> Task]
  BY <1>6, LenProperties
<1>8. base \in TaskList
  BY <1>2, <1>6, <1>7, TaskListFacts
<1>9. DOMAIN base = DOMAIN tasks \cup {n} /\ n \notin DOMAIN tasks
  BY <1>1, <1>7
<1>10. ASSUME NEW i \in DOMAIN base, NEW d \in base[i].deps
       PROVE  d < i
  <2>1. CASE i \in DOMAIN tasks
    BY <1>1, <1>6, <1>10, <2>1 DEF InOrder
  <2>2. CASE i = n
    <3>1. d \in deps
      BY <1>6, <1>10, <2>2 DEF new
    <3>2. d \in 1..Len(tasks) \/ d = 0
      BY <1>1, <3>1 DEF Unknown
    <3>. QED
      BY <1>1, <2>2, <3>2
  <2>. QED
    BY <1>9, <2>1, <2>2
<1>. QED
  BY <1>1, <1>6, <1>8, <1>9, <1>10 DEF InOrder, new

(* The pass keeps the tasks and what they depend on. *)
LEMMA RefreshedType ==
    ASSUME NEW list \in TaskList, InOrder(list)
    PROVE  /\ Refreshed(list) \in TaskList /\ InOrder(Refreshed(list))
           /\ DOMAIN Refreshed(list) = DOMAIN list
           /\ \A i \in DOMAIN list : Refreshed(list)[i].deps = list[i].deps
<1>. DEFINE new == Refreshed(list)
<1>1. new \in TaskList /\ DOMAIN new = DOMAIN list
  BY RefreshedRule
<1>2. ASSUME NEW i \in DOMAIN list
      PROVE  new[i].deps = list[i].deps
  <2>1. new[i] = [st |-> NewStatus(list[i].st, new, i), deps |-> list[i].deps]
    BY RefreshedRule
  <2>. QED
    BY <2>1
<1>. QED
  BY <1>1, <1>2 DEF InOrder

(* A tool edits the list, while no execution is under way. *)
LEMMA EditType ==
    ASSUME TypeInv, phase = "edit", UNCHANGED <<marks, call, phase, runs, goal, paused, alone>>,
           tasks' \in TaskList, InOrder(tasks)', saved' = tasks', DOMAIN tasks \subseteq DOMAIN tasks',
           byHand' \subseteq DOMAIN tasks'
    PROVE  TypeInv'
<1>1. Idle /\ Idle'
  BY DEF TypeInv, Idle
<1>2. Agree(saved)'
  BY DEF Agree
<1>3. TypeOK'
  <2>1. /\ marks' \in Marks /\ call' \in [Calls -> CallType]
        /\ phase' \in {"execute", "edit", "over"} /\ runs' \in 0..MaxRuns
        /\ goal' \in BOOLEAN /\ paused' \in BOOLEAN /\ alone' \subseteq DOMAIN tasks'
        /\ \A c \in Calls : call'[c].ids \subseteq DOMAIN tasks'
    BY TypeParts DEF TypeInv, TypeOK
  <2>2. Typed'
    BY <1>2, <2>1 DEF Typed
  <2>. QED
    BY <2>2, TypeMade, PTL
<1>. QED
  BY <1>1, <1>2, <1>3 DEF TypeInv, Idle

LEMMA EditTools ==
    ASSUME TypeInv,
           \/ \E deps \in (SUBSET DOMAIN tasks) \cup {{Unknown}} : Create(deps)
           \/ \E i \in DOMAIN tasks, st \in Statuses \ {"blocked"} : UpdateStatus(i, st)
    PROVE  TypeInv'
<1>1. tasks \in TaskList /\ InOrder(tasks) /\ byHand \subseteq DOMAIN tasks
  BY TypeParts
<1>2. ASSUME NEW deps \in (SUBSET DOMAIN tasks) \cup {{Unknown}}, Create(deps)
      PROVE  TypeInv'
  <2>. DEFINE base == Append(tasks, [st |-> "pending", deps |-> deps])
  <2>1. base \in TaskList /\ InOrder(base) /\ DOMAIN tasks \subseteq DOMAIN base
    BY <1>2, AppendTask DEF Create
  <2>. HIDE DEF base
  <2>2. /\ Refreshed(base) \in TaskList /\ InOrder(Refreshed(base))
        /\ DOMAIN Refreshed(base) = DOMAIN base
    BY <2>1, RefreshedType
  <2>3. /\ tasks' = Refreshed(base) /\ saved' = tasks' /\ phase = "edit"
        /\ UNCHANGED <<marks, call, phase, runs, goal, paused, alone, byHand>>
    BY <1>2 DEF Create, Save, base
  <2>4. InOrder(tasks)'
    BY <2>2, <2>3
  <2>. QED
    BY <1>1, <2>1, <2>2, <2>3, <2>4, EditType
<1>3. ASSUME NEW i \in DOMAIN tasks, NEW st \in Statuses, UpdateStatus(i, st)
      PROVE  TypeInv'
  <2>. DEFINE base == With(i, st)
  <2>1. Restated(base, {i})
    BY RestatedOne
  <2>2. base \in TaskList /\ InOrder(base) /\ DOMAIN base = DOMAIN tasks
    BY <1>1, <2>1 DEF Restated, InOrder
  <2>. HIDE DEF base
  <2>3. /\ Refreshed(base) \in TaskList /\ InOrder(Refreshed(base))
        /\ DOMAIN Refreshed(base) = DOMAIN base
    BY <2>2, RefreshedType
  <2>4. /\ tasks' = Refreshed(base) /\ saved' = tasks' /\ phase = "edit"
        /\ UNCHANGED <<marks, call, phase, runs, goal, paused, alone>>
        /\ byHand' = byHand \cup {i}
    BY <1>3 DEF UpdateStatus, Save, base, With
  <2>5. InOrder(tasks)'
    BY <2>3, <2>4
  <2>. QED
    BY <1>1, <2>2, <2>3, <2>4, <2>5, EditType
<1>. QED
  BY <1>2, <1>3

LEMMA LoopType ==
    ASSUME TypeInv, Begin \/ Edit \/ Respond \/ Iterate \/ MarkAllComplete \/ UNCHANGED vars
    PROVE  TypeInv'
<1>1. /\ tasks \in TaskList /\ InOrder(tasks) /\ saved \in TaskList /\ InOrder(saved)
      /\ marks \in Marks /\ call \in [Calls -> CallType]
      /\ byHand \subseteq DOMAIN tasks /\ alone \subseteq DOMAIN tasks
      /\ \A c \in Calls : call[c].ids \subseteq DOMAIN tasks
      /\ Agree(saved)
      /\ runs \in 0..MaxRuns /\ goal \in BOOLEAN /\ paused \in BOOLEAN
      /\ phase \in {"execute", "edit", "over"}
      /\ phase # "execute" => Idle
      /\ \A c \in Calls : call[c].ids # {} => Agree(call[c].list)
  BY TypeParts DEF TypeInv, TypeOK
<1>2. CASE Begin
  <2>1. /\ tasks' = Refreshed(saved) /\ UNCHANGED <<saved, marks, call, goal, byHand, alone>>
        /\ phase' = "execute" /\ paused' = FALSE /\ Idle
        /\ runs' = runs + 1 /\ runs < MaxRuns
    BY <1>1, <1>2 DEF Begin
  <2>2. /\ tasks' \in TaskList /\ InOrder(tasks)' /\ DOMAIN tasks' = DOMAIN saved
        /\ \A i \in DOMAIN saved : tasks'[i].deps = saved[i].deps
    BY <1>1, <2>1, RefreshedType
  <2>3. Agree(saved)' /\ DOMAIN tasks' = DOMAIN tasks
    BY <1>1, <2>1, <2>2 DEF Agree
  <2>4. runs' \in 0..MaxRuns
    BY <1>1, <2>1, TeamTasksAssumption
  <2>5. TypeOK'
    <3>1. Typed'
      BY <1>1, <2>1, <2>2, <2>3, <2>4 DEF Typed
    <3>. QED
      BY <3>1, TypeMade, PTL
  <2>. QED
    BY <2>1, <2>3, <2>5 DEF TypeInv, Idle
<1>3. CASE Edit \/ Respond \/ Iterate \/ MarkAllComplete \/ UNCHANGED vars
  <2>1. /\ UNCHANGED <<tasks, marks, call, byHand, alone, runs, paused>>
        /\ saved' \in {saved, tasks} /\ goal' \in BOOLEAN
        /\ phase' \in {"execute", "edit", "over"} /\ (phase' # "execute" => Idle)
    BY <1>1, <1>3 DEF Edit, Respond, Iterate, MarkAllComplete, vars
  <2>2. Agree(saved)' /\ InOrder(tasks)'
    BY <1>1, <2>1 DEF Agree
  <2>3. TypeOK'
    <3>1. Typed'
      BY <1>1, <2>1, <2>2 DEF Typed
    <3>. QED
      BY <3>1, TypeMade, PTL
  <2>4. \A c \in Calls : call'[c].ids # {} => Agree(call[c].list)'
    BY <1>1, <2>1 DEF Agree
  <2>5. phase' # "execute" => Idle'
    BY <2>1 DEF Idle
  <2>. QED
    BY <2>2, <2>3, <2>4, <2>5 DEF TypeInv
<1>. QED
  BY <1>2, <1>3

LEMMA StartType ==
    ASSUME TypeInv, NEW c \in Calls, NEW ids \in SUBSET DOMAIN tasks, NEW parallel \in BOOLEAN,
           Start(c, ids, parallel)
    PROVE  /\ TypeInv'
           /\ Restated(tasks', ids) /\ saved' = tasks'
           /\ call'[c].ids = ids /\ call'[c].list = tasks'
           /\ \A d \in Calls \ {c} : call'[d].ids = call[d].ids /\ call'[d].list = call[d].list
           /\ \A i \in ids : Executable(i)
           /\ call[c].ids = {} /\ UNCHANGED byHand
<1>. DEFINE list == [i \in DOMAIN tasks |->
                        IF i \in ids THEN [tasks[i] EXCEPT !.st = "in_progress"] ELSE tasks[i]]
            mine == [ids |-> ids, list |-> list, marks |-> marks,
                     parallel |-> parallel, alone |-> Idle]
            st == [i \in ids |-> "in_progress"]
<1>1. /\ tasks \in TaskList /\ InOrder(tasks)
      /\ marks \in Marks /\ call \in [Calls -> CallType]
      /\ byHand \subseteq DOMAIN tasks /\ alone \subseteq DOMAIN tasks
      /\ \A d \in Calls : call[d].ids \subseteq DOMAIN tasks
      /\ DOMAIN tasks \subseteq Ids
      /\ runs \in 0..MaxRuns /\ goal \in BOOLEAN /\ paused \in BOOLEAN
  BY TypeParts DEF TypeInv, TypeOK
<1>2. Restated(list, ids)
  <2>1. st \in [ids -> Statuses] /\ \A i \in ids : st[i] = "in_progress"
    BY DEF Statuses
  <2>2. list = [i \in DOMAIN tasks |-> IF i \in ids THEN [tasks[i] EXCEPT !.st = st[i]] ELSE tasks[i]]
    BY <2>1
  <2>. HIDE DEF list, st
  <2>. QED
    BY <2>1, <2>2, RestatedMany
<1>3. /\ tasks' = list /\ saved' = list
      /\ phase = "execute" /\ call[c].ids = {} /\ \A i \in ids : Executable(i)
      /\ UNCHANGED <<marks, phase, runs, goal, paused, byHand, alone>>
      /\ call' = [d \in Calls |-> IF d = c THEN mine
                                  ELSE [call[d] EXCEPT !.alone = @ /\ call[d].ids = {}]]
  BY DEF Start, Save
<1>. HIDE DEF list, st
<1>4. mine \in CallType /\ mine.ids = ids /\ mine.list = list
  BY <1>1, <1>2 DEF CallType, Restated, Idle
<1>. HIDE DEF mine
<1>5. ASSUME NEW d \in Calls \ {c}
      PROVE  /\ call'[d] \in CallType
             /\ call'[d].ids = call[d].ids /\ call'[d].list = call[d].list
  <2>1. call'[d] = [call[d] EXCEPT !.alone = @ /\ call[d].ids = {}] /\ call[d] \in CallType
    BY <1>1, <1>3
  <2>. QED
    BY <2>1 DEF CallType
<1>6. call'[c] = mine
  BY <1>3
<1>7. call' \in [Calls -> CallType]
  BY <1>3, <1>4, <1>5, <1>6
<1>8. /\ tasks' \in TaskList /\ DOMAIN tasks' = DOMAIN tasks /\ InOrder(tasks)'
      /\ \A i \in DOMAIN tasks : tasks'[i].deps = tasks[i].deps
      /\ Agree(saved)'
  BY <1>1, <1>2, <1>3 DEF Restated, InOrder, Agree
<1>9. TypeOK'
  <2>1. \A d \in Calls : call'[d].ids \subseteq DOMAIN tasks'
    BY <1>1, <1>4, <1>5, <1>6, <1>8
  <2>2. Typed'
    BY <1>1, <1>3, <1>7, <1>8, <2>1 DEF Typed
  <2>. QED
    BY <2>2, TypeMade, PTL
<1>10. ASSUME NEW d \in Calls, call'[d].ids # {}
       PROVE  Agree(call[d].list)'
  <2>1. CASE d = c
    BY <1>2, <1>3, <1>4, <1>6, <1>8, <2>1 DEF Agree
  <2>2. CASE d # c
    <3>1. Agree(call[d].list)
      BY <1>5, <1>10, <2>2 DEF TypeInv
    <3>. QED
      BY <1>5, <1>8, <2>2, <3>1 DEF Agree
  <2>. QED
    BY <2>1, <2>2
<1>11. TypeInv'
  BY <1>3, <1>8, <1>9, <1>10 DEF TypeInv
<1>. QED
  BY <1>2, <1>3, <1>4, <1>5, <1>6, <1>11

(* An execution is over: what becomes of the lists. *)
Returns(c) ==
    /\ call[c].ids # {} /\ Return(c)
    /\ Restated(tasks', call[c].ids)
    /\ saved' \in {saved, tasks', call[c].list}
    /\ marks' \in Marks /\ alone' \subseteq DOMAIN tasks /\ paused' \in BOOLEAN
    /\ UNCHANGED <<phase, runs, goal, byHand>>

LEMMA ReturnShape ==
    ASSUME TypeInv, NEW c \in Calls,
           \/ \E i \in DOMAIN tasks :
                 \/ MemberRaises(c, i) \/ MemberCancelled(c, i) \/ MemberPauses(c, i)
                 \/ \E st \in {"completed", "failed"} : MemberReturns(c, i, st)
           \/ \E outcome \in [call[c].ids -> {"pending", "completed", "failed", "cancelled"}] :
                 ParallelReturns(c, outcome) /\ call[c].ids # {}
    PROVE  Returns(c)
<1>1. /\ tasks \in TaskList /\ marks \in Marks /\ call[c] \in CallType
      /\ alone \subseteq DOMAIN tasks /\ call[c].ids \subseteq DOMAIN tasks
      /\ DOMAIN tasks \subseteq Ids /\ paused \in BOOLEAN
  BY TypeParts DEF TypeInv, TypeOK
<1>2. {"pending", "completed", "failed"} \subseteq Statuses
  BY DEF Statuses
<1>3. Restated(tasks, call[c].ids)
  BY <1>1 DEF Restated
<1>4. ASSUME NEW i \in DOMAIN tasks,
             \/ MemberRaises(c, i) \/ MemberCancelled(c, i) \/ MemberPauses(c, i)
             \/ \E st \in {"completed", "failed"} : MemberReturns(c, i, st)
      PROVE  Returns(c)
  <2>1. call[c].ids = {i} /\ Return(c)
    BY <1>4 DEF MemberRaises, MemberCancelled, MemberPauses, MemberReturns, Single
  <2>2. \A st \in {"pending", "completed", "failed"} : Restated(With(i, st), {i})
    BY <1>2, RestatedOne
  <2>3. Worked(call[c].marks, i) \in Marks
    BY <1>1 DEF CallType, Worked, Marks
  <2>4. CASE MemberRaises(c, i)
    BY <1>1, <2>1, <2>2, <2>4 DEF MemberRaises, Save, Returns
  <2>5. CASE MemberCancelled(c, i)
    BY <1>1, <1>3, <2>1, <2>5 DEF MemberCancelled, Returns
  <2>6. CASE MemberPauses(c, i)
    BY <1>1, <2>1, <2>2, <2>3, <2>6 DEF MemberPauses, Returns
  <2>7. ASSUME NEW st \in {"completed", "failed"}, MemberReturns(c, i, st)
        PROVE  Returns(c)
    <3>1. alone' \subseteq DOMAIN tasks
      BY <1>1, <2>7 DEF MemberReturns
    <3>. QED
      BY <1>1, <2>1, <2>2, <2>3, <2>7, <3>1 DEF MemberReturns, Save, Returns
  <2>. QED
    BY <1>4, <2>4, <2>5, <2>6, <2>7
<1>5. ASSUME NEW outcome \in [call[c].ids -> {"pending", "completed", "failed", "cancelled"}],
             ParallelReturns(c, outcome), call[c].ids # {}
      PROVE  Returns(c)
  <2>. DEFINE st == [i \in call[c].ids |-> After(outcome[i])]
  <2>1. st \in [call[c].ids -> Statuses] /\ \A i \in call[c].ids : st[i] = After(outcome[i])
    BY <1>2 DEF After
  <2>2. tasks' = [i \in DOMAIN tasks |->
                    IF i \in call[c].ids THEN [tasks[i] EXCEPT !.st = st[i]] ELSE tasks[i]]
    BY <1>5, <2>1 DEF ParallelReturns, Save
  <2>. HIDE DEF st
  <2>3. Restated(tasks', call[c].ids)
    BY <1>1, <2>1, <2>2, RestatedMany
  <2>4. /\ marks' \in Marks
        /\ saved' = tasks' /\ Return(c)
        /\ alone' \subseteq DOMAIN tasks
        /\ UNCHANGED <<phase, runs, goal, byHand>>
    BY <1>1, <1>5 DEF ParallelReturns, Save, Merged, Marks
  <2>5. paused' \in BOOLEAN
    BY <1>1, <1>5 DEF ParallelReturns
  <2>. QED
    BY <1>5, <2>3, <2>4, <2>5 DEF Returns
<1>. QED
  BY <1>4, <1>5

LEMMA ReturnType ==
    ASSUME TypeInv, NEW c \in Calls, Returns(c)
    PROVE  /\ TypeInv'
           /\ call'[c].ids = {}
           /\ \A d \in Calls \ {c} : call'[d] = call[d]
<1>1. /\ tasks \in TaskList /\ InOrder(tasks) /\ call \in [Calls -> CallType]
      /\ byHand \subseteq DOMAIN tasks
      /\ \A d \in Calls : call[d].ids \subseteq DOMAIN tasks
      /\ runs \in 0..MaxRuns /\ goal \in BOOLEAN
      /\ phase \in {"execute", "edit", "over"}
      /\ phase # "execute" => Idle
      /\ Agree(saved) /\ Agree(call[c].list)
  BY TypeParts DEF TypeInv, TypeOK, Returns
<1>2. /\ call' = [call EXCEPT ![c] = Free]
      /\ Restated(tasks', call[c].ids) /\ phase = "execute"
      /\ saved' \in {saved, tasks', call[c].list}
      /\ marks' \in Marks /\ alone' \subseteq DOMAIN tasks /\ paused' \in BOOLEAN
      /\ UNCHANGED <<phase, runs, goal, byHand>>
  BY <1>1 DEF Returns, Return, Idle
<1>3. /\ call' \in [Calls -> CallType] /\ call'[c].ids = {}
      /\ \A d \in Calls \ {c} : call'[d] = call[d]
  BY <1>1, <1>2, FreeType
<1>4. /\ tasks' \in TaskList /\ DOMAIN tasks' = DOMAIN tasks /\ InOrder(tasks)'
      /\ \A i \in DOMAIN tasks : tasks'[i].deps = tasks[i].deps
  BY <1>1, <1>2 DEF Restated, InOrder
<1>5. Agree(saved)'
  BY <1>1, <1>2, <1>4 DEF Agree
<1>6. TypeOK'
  <2>1. \A d \in Calls : call'[d].ids \subseteq DOMAIN tasks'
    BY <1>1, <1>3, <1>4
  <2>2. Typed'
    BY <1>1, <1>2, <1>3, <1>4, <1>5, <2>1 DEF Typed
  <2>. QED
    BY <2>2, TypeMade, PTL
<1>7. ASSUME NEW d \in Calls, call'[d].ids # {}
      PROVE  Agree(call[d].list)'
  <2>1. d # c /\ call'[d] = call[d]
    BY <1>3, <1>7
  <2>2. Agree(call[d].list)
    BY <1>7, <2>1 DEF TypeInv
  <2>. QED
    BY <1>4, <2>1, <2>2 DEF Agree
<1>. QED
  BY <1>2, <1>3, <1>5, <1>6, <1>7 DEF TypeInv

(* A step of an execution is a start or a return. *)
LEMMA ExecutionSplit ==
    ASSUME TypeInv, MarkInv, NEW c \in Calls, Execution(c)
    PROVE  \/ \E ids \in SUBSET DOMAIN tasks, parallel \in BOOLEAN : Start(c, ids, parallel)
           \/ Returns(c)
<1>1. ASSUME NEW i \in DOMAIN tasks, Execute(c, i)
      PROVE  \E ids \in SUBSET DOMAIN tasks, parallel \in BOOLEAN : Start(c, ids, parallel)
  BY <1>1 DEF Execute
<1>2. ASSUME NEW ids \in SUBSET DOMAIN tasks, ExecuteParallel(c, ids)
      PROVE  \E some \in SUBSET DOMAIN tasks, parallel \in BOOLEAN : Start(c, some, parallel)
  BY <1>2 DEF ExecuteParallel
<1>3. ASSUME NEW outcome \in [call[c].ids -> {"pending", "completed", "failed", "cancelled"}],
             ParallelReturns(c, outcome)
      PROVE  call[c].ids # {}
  BY <1>3 DEF ParallelReturns, MarkInv, Shape, CallShape
<1>. QED
  BY <1>1, <1>2, <1>3, ReturnShape DEF Execution

LEMMA TypeStep == TypeInv /\ MarkInv /\ [Next]_vars => TypeInv'
<1>. SUFFICES ASSUME TypeInv, MarkInv, [Next]_vars PROVE TypeInv'
  OBVIOUS
<1>1. ASSUME NEW c \in Calls, Execution(c)
      PROVE  TypeInv'
  BY <1>1, ExecutionSplit, StartType, ReturnType
<1>. QED
  BY <1>1, LoopType, EditTools DEF Next

LEMMA TypeInvariant == Spec => [](TypeInv /\ MarkInv)
  BY TypeInit, TypeStep, MarkInit, MarkStep, PTL DEF Spec

(* Every variable keeps its type; the session state has the tasks of the      *)
(* list, though a paused member puts an old copy in its place, and tasks      *)
(* depend on earlier ones, which one pass in their order relies on.          *)
THEOREM TypeCorrect == Spec => []TypeOK
<1>1. TypeInv => TypeOK
  BY DEF TypeInv
<1>. QED
  BY <1>1, TypeInvariant, PTL

-----------------------------------------------------------------------------
(* Tasks that may start.  A refresh makes a task pending only when all it     *)
(* depends on is completed; that this still holds when the task is given to a *)
(* member, after other executions have returned and through every copy of    *)
(* the list that comes back, is the invariant.                               *)

Open == {"pending", "in_progress"}

Excused(list, hand, i) == hand \cap ({i} \cup list[i].deps) # {}

(* What an open task, or one that a member is working on, depends on is       *)
(* completed, and no member is working on it again.                          *)
Ready(list, hand, active) ==
    \A i \in DOMAIN list :
        list[i].st \in Open \/ i \in active
            => \/ Excused(list, hand, i)
               \/ \A d \in list[i].deps :
                     d \in DOMAIN list /\ list[d].st = "completed" /\ d \notin active

Active == UNION {call[c].ids : c \in Calls}

ReadyInv ==
    /\ Ready(tasks, byHand, Active)
    /\ Ready(saved, byHand, {})
    /\ \A c \in Calls : call[c].ids # {} => Ready(call[c].list, byHand, {})

LEMMA ReadyLess ==
    ASSUME NEW list, NEW hand, NEW active, Ready(list, hand, active)
    PROVE  Ready(list, hand, {})
  BY DEF Ready

(* A refresh leaves tasks in progress as they are: only they have to be sound *)
(* before it.                                                                *)
LEMMA ReadyRefreshed ==
    ASSUME NEW list \in TaskList, InOrder(list), NEW hand,
           \A i \in DOMAIN list :
               list[i].st = "in_progress"
                   => \/ Excused(list, hand, i)
                      \/ \A d \in list[i].deps : d \in DOMAIN list /\ list[d].st = "completed"
    PROVE  Ready(Refreshed(list), hand, {})
<1>. DEFINE new == Refreshed(list)
<1>1. /\ DOMAIN new = DOMAIN list
      /\ \A i \in DOMAIN list : new[i] = [st |-> NewStatus(list[i].st, new, i), deps |-> list[i].deps]
  BY RefreshedRule
<1>. HIDE DEF new
<1>2. \A i \in DOMAIN list : /\ new[i].deps = list[i].deps
                             /\ new[i].st = NewStatus(list[i].st, new, i)
  BY <1>1
<1>3. \A i \in DOMAIN list : list[i].st = "completed" => new[i].st = "completed"
  BY <1>2 DEF NewStatus
<1>4. ASSUME NEW i \in DOMAIN list, new[i].st \in Open, ~Excused(new, hand, i), NEW d \in new[i].deps
      PROVE  d \in DOMAIN new /\ new[d].st = "completed"
  <2>1. CASE list[i].st = "in_progress"
    <3>1. ~Excused(list, hand, i) /\ d \in list[i].deps
      BY <1>2, <1>4 DEF Excused
    <3>. QED
      BY <1>1, <1>3, <2>1, <3>1
  <2>2. CASE list[i].st # "in_progress"
    <3>1. new[i].st = "pending" /\ ~Blocked(new, i)
      BY <1>2, <1>4, <2>2 DEF NewStatus, Open
    <3>. QED
      BY <1>4, <3>1 DEF Blocked
  <2>. QED
    BY <2>1, <2>2
<1>5. Ready(new, hand, {})
  BY <1>1, <1>4 DEF Ready
<1>. QED
  BY <1>5 DEF new

(* Executions change the status of open tasks, and of those they work on.     *)
LEMMA ReadyRestated ==
    ASSUME NEW list, NEW new, NEW hand, NEW before, NEW after, NEW ids,
           Ready(list, hand, before), DOMAIN new = DOMAIN list,
           \A i \in DOMAIN list : new[i].deps = list[i].deps /\ (i \notin ids => new[i] = list[i]),
           \A i \in ids : list[i].st \in Open \/ i \in before,
           after \subseteq before \cup ids,
           \A i \in ids \ before : list[i].st # "completed"
    PROVE  Ready(new, hand, after)
<1>. SUFFICES ASSUME NEW i \in DOMAIN new, new[i].st \in Open \/ i \in after,
                     ~Excused(new, hand, i), NEW d \in new[i].deps
              PROVE  d \in DOMAIN new /\ new[d].st = "completed" /\ d \notin after
  BY DEF Ready
<1>1. list[i].st \in Open \/ i \in before
  <2>1. CASE i \in ids
    BY <2>1
  <2>2. CASE i \notin ids
    BY <2>2
  <2>. QED
    BY <2>1, <2>2
<1>2. ~Excused(list, hand, i) /\ d \in list[i].deps
  BY DEF Excused
<1>3. d \in DOMAIN list /\ list[d].st = "completed" /\ d \notin before
  BY <1>1, <1>2 DEF Ready
<1>4. d \notin ids
  BY <1>3
<1>. QED
  BY <1>3, <1>4

LEMMA ReadyInit == Init => ReadyInv
<1>. SUFFICES ASSUME Init PROVE ReadyInv
  OBVIOUS
<1>1. tasks = <<>> /\ saved = <<>> /\ \A c \in Calls : call[c].ids = {}
  BY FreeType DEF Init
<1>2. \A hand, active : Ready(<<>>, hand, active)
  BY EmptyTaskList DEF Ready
<1>. QED
  BY <1>1, <1>2 DEF ReadyInv

(* Between executions nothing is worked on. *)
LEMMA IdleActive == Idle => Active = {}
  BY DEF Idle, Active

LEMMA ReadyEdit ==
    ASSUME TypeInv, ReadyInv,
           \/ \E deps \in (SUBSET DOMAIN tasks) \cup {{Unknown}} : Create(deps)
           \/ \E i \in DOMAIN tasks, st \in Statuses \ {"blocked"} : UpdateStatus(i, st)
    PROVE  Ready(tasks, byHand, {})' /\ tasks' = saved' /\ UNCHANGED call /\ Idle
<1>1. tasks \in TaskList /\ InOrder(tasks)
  BY TypeParts
<1>2. Ready(tasks, byHand, {})
  BY ReadyLess DEF ReadyInv
<1>3. ASSUME NEW deps \in (SUBSET DOMAIN tasks) \cup {{Unknown}}, Create(deps)
      PROVE  Ready(tasks, byHand, {})' /\ tasks' = saved' /\ UNCHANGED call /\ Idle
  <2>0. PICK base : base = Append(tasks, [st |-> "pending", deps |-> deps])
    OBVIOUS
  <2>1. /\ base \in TaskList /\ InOrder(base)
        /\ DOMAIN base = DOMAIN tasks \cup {Len(tasks) + 1}
        /\ \A i \in DOMAIN tasks : base[i] = tasks[i]
        /\ base[Len(tasks) + 1].st = "pending"
    <3>1. Len(tasks) < MaxTasks
      BY <1>3 DEF Create
    <3>2. base \in TaskList /\ InOrder(base)
      BY <2>0, <3>1, AppendTask
    <3>3. DOMAIN base = DOMAIN tasks \cup {Len(tasks) + 1}
      BY <2>0, <3>1, AppendTask
    <3>4. \A i \in DOMAIN tasks : base[i] = tasks[i]
      BY <2>0, <3>1, AppendTask
    <3>5. base[Len(tasks) + 1] = [st |-> "pending", deps |-> deps]
      BY <2>0, <3>1, AppendTask
    <3>. QED
      BY <3>2, <3>3, <3>4, <3>5
  <2>2. /\ tasks' = Refreshed(base) /\ saved' = tasks' /\ phase = "edit"
        /\ UNCHANGED <<call, byHand>>
    BY <1>3, <2>0 DEF Create, Save
  <2>3. ASSUME NEW i \in DOMAIN base, base[i].st = "in_progress", ~Excused(base, byHand, i),
               NEW d \in base[i].deps
        PROVE  d \in DOMAIN base /\ base[d].st = "completed"
    <3>1. i \in DOMAIN tasks
      BY <2>1, <2>3
    <3>2. base[i] = tasks[i]
      BY <2>1, <3>1
    <3>3. tasks[i].st \in Open /\ ~Excused(tasks, byHand, i) /\ d \in tasks[i].deps
      BY <2>3, <3>2 DEF Open, Excused
    <3>4. d \in DOMAIN tasks /\ tasks[d].st = "completed"
      BY <1>2, <3>1, <3>3 DEF Ready
    <3>. QED
      BY <2>1, <3>4
  <2>4. Ready(Refreshed(base), byHand, {})
    BY <2>1, <2>3, ReadyRefreshed
  <2>5. Idle
    BY <2>2 DEF TypeInv
  <2>. QED
    BY <2>2, <2>4, <2>5
<1>4. ASSUME NEW i \in DOMAIN tasks, NEW st \in Statuses, UpdateStatus(i, st)
      PROVE  Ready(tasks, byHand, {})' /\ tasks' = saved' /\ UNCHANGED call /\ Idle
  <2>. DEFINE base == With(i, st)
              hand == byHand \cup {i}
  <2>1. Restated(base, {i})
    BY RestatedOne
  <2>2. /\ base \in TaskList /\ InOrder(base) /\ DOMAIN base = DOMAIN tasks
        /\ \A k \in DOMAIN tasks : base[k].deps = tasks[k].deps
        /\ \A k \in DOMAIN tasks \ {i} : base[k] = tasks[k]
    BY <1>1, <2>1 DEF Restated, InOrder
  <2>3. /\ tasks' = Refreshed(base) /\ saved' = tasks' /\ phase = "edit"
        /\ UNCHANGED call /\ byHand' = hand
    BY <1>4 DEF UpdateStatus, Save, With
  <2>. HIDE DEF base, hand
  <2>4. ASSUME NEW k \in DOMAIN base, base[k].st = "in_progress", ~Excused(base, hand, k),
               NEW d \in base[k].deps
        PROVE  d \in DOMAIN base /\ base[d].st = "completed"
    <3>1. k \in DOMAIN tasks /\ k # i /\ d # i /\ d \in tasks[k].deps
      BY <2>2, <2>4 DEF Excused, hand
    <3>2. tasks[k].st \in Open /\ ~Excused(tasks, byHand, k)
      BY <2>2, <2>4, <3>1 DEF Open, Excused, hand
    <3>3. d \in DOMAIN tasks /\ tasks[d].st = "completed"
      BY <1>2, <3>1, <3>2 DEF Ready
    <3>. QED
      BY <2>2, <3>1, <3>3
  <2>5. Ready(Refreshed(base), hand, {})
    BY <2>2, <2>4, ReadyRefreshed
  <2>6. Idle
    BY <2>3 DEF TypeInv
  <2>. QED
    BY <2>3, <2>5, <2>6
<1>. QED
  BY <1>3, <1>4

LEMMA ReadyLoop ==
    ASSUME TypeInv, ReadyInv, Begin \/ Edit \/ Respond \/ Iterate \/ MarkAllComplete \/ UNCHANGED vars
    PROVE  ReadyInv'
<1>1. CASE Begin
  <2>1. tasks' = Refreshed(saved) /\ UNCHANGED <<saved, call, byHand>> /\ Idle
    BY <1>1 DEF Begin, TypeInv
  <2>2. saved \in TaskList /\ InOrder(saved)
    BY TypeParts
  <2>3. \A i \in DOMAIN saved :
            saved[i].st = "in_progress"
                => \/ Excused(saved, byHand, i)
                   \/ \A d \in saved[i].deps : d \in DOMAIN saved /\ saved[d].st = "completed"
    BY DEF ReadyInv, Ready, Open
  <2>4. Ready(Refreshed(saved), byHand, {})
    BY <2>2, <2>3, ReadyRefreshed
  <2>5. Active' = {}
    BY <2>1, IdleActive DEF Active
  <2>. QED
    BY <2>1, <2>4, <2>5 DEF ReadyInv
<1>2. CASE Edit \/ Respond \/ Iterate \/ MarkAllComplete \/ UNCHANGED vars
  <2>1. UNCHANGED <<tasks, call, byHand>> /\ saved' \in {saved, tasks}
    BY <1>2 DEF Edit, Respond, Iterate, MarkAllComplete, vars
  <2>2. Ready(tasks, byHand, {})
    BY ReadyLess DEF ReadyInv
  <2>3. Active' = Active
    BY <2>1 DEF Active
  <2>. QED
    BY <2>1, <2>2, <2>3 DEF ReadyInv
<1>. QED
  BY <1>1, <1>2

LEMMA ReadyStart ==
    ASSUME TypeInv, ReadyInv, NEW c \in Calls, NEW ids \in SUBSET DOMAIN tasks,
           NEW parallel \in BOOLEAN, Start(c, ids, parallel)
    PROVE  ReadyInv'
<1>1. /\ Restated(tasks', ids) /\ saved' = tasks'
      /\ call'[c].ids = ids /\ call'[c].list = tasks'
      /\ \A d \in Calls \ {c} : call'[d].ids = call[d].ids /\ call'[d].list = call[d].list
      /\ \A i \in ids : Executable(i)
      /\ UNCHANGED byHand
  BY StartType
<1>2. \A i \in ids : tasks[i].st \in Open /\ tasks[i].st # "completed"
  BY <1>1 DEF Executable, Open
<1>3. Active' \subseteq Active \cup ids
  BY <1>1 DEF Active
<1>4. Ready(tasks', byHand, Active')
  <2>1. /\ Ready(tasks, byHand, Active)
        /\ DOMAIN tasks' = DOMAIN tasks
        /\ \A i \in DOMAIN tasks : tasks'[i].deps = tasks[i].deps /\ (i \notin ids => tasks'[i] = tasks[i])
    BY <1>1 DEF ReadyInv, Restated
  <2>2. /\ \A i \in ids : tasks[i].st \in Open \/ i \in Active
        /\ \A i \in ids \ Active : tasks[i].st # "completed"
    BY <1>2
  <2>. QED
    BY <1>3, <2>1, <2>2, ReadyRestated
<1>5. Ready(tasks', byHand, {})
  BY <1>4, ReadyLess
<1>6. \A d \in Calls : call'[d].ids # {} => Ready(call'[d].list, byHand, {})
  BY <1>1, <1>5 DEF ReadyInv
<1>. QED
  BY <1>1, <1>4, <1>5, <1>6 DEF ReadyInv

LEMMA ReadyReturn ==
    ASSUME TypeInv, ReadyInv, NEW c \in Calls, Returns(c)
    PROVE  ReadyInv'
<1>1. /\ call'[c].ids = {} /\ \A d \in Calls \ {c} : call'[d] = call[d]
      /\ Restated(tasks', call[c].ids) /\ saved' \in {saved, tasks', call[c].list}
      /\ call[c].ids # {} /\ UNCHANGED byHand
  BY ReturnType DEF Returns
<1>2. call[c].ids \subseteq Active /\ Active' \subseteq Active
  BY <1>1 DEF Active
<1>3. Ready(tasks', byHand, Active')
  <2>1. /\ Ready(tasks, byHand, Active)
        /\ DOMAIN tasks' = DOMAIN tasks
        /\ \A i \in DOMAIN tasks : /\ tasks'[i].deps = tasks[i].deps
                                   /\ i \notin call[c].ids => tasks'[i] = tasks[i]
    BY <1>1 DEF ReadyInv, Restated
  <2>. QED
    BY <1>2, <2>1, ReadyRestated
<1>4. Ready(saved', byHand, {})
  <2>1. Ready(tasks', byHand, {})
    BY <1>3, ReadyLess
  <2>. QED
    BY <1>1, <2>1 DEF ReadyInv
<1>. QED
  BY <1>1, <1>3, <1>4 DEF ReadyInv

LEMMA ReadyStep == TypeInv /\ MarkInv /\ ReadyInv /\ [Next]_vars => ReadyInv'
<1>. SUFFICES ASSUME TypeInv, MarkInv, ReadyInv, [Next]_vars PROVE ReadyInv'
  OBVIOUS
<1>1. ASSUME NEW c \in Calls, Execution(c)
      PROVE  ReadyInv'
  BY <1>1, ExecutionSplit, ReadyStart, ReadyReturn
<1>2. ASSUME \/ \E deps \in (SUBSET DOMAIN tasks) \cup {{Unknown}} : Create(deps)
             \/ \E i \in DOMAIN tasks, st \in Statuses \ {"blocked"} : UpdateStatus(i, st)
      PROVE  ReadyInv'
  <2>1. Ready(tasks, byHand, {})' /\ tasks' = saved' /\ UNCHANGED call /\ Idle
    BY <1>2, ReadyEdit
  <2>2. Active' = {}
    BY <2>1, IdleActive DEF Active
  <2>. QED
    BY <2>1, <2>2 DEF ReadyInv, Idle
<1>. QED
  BY <1>1, <1>2, ReadyLoop DEF Next

LEMMA ReadyInvariant == Spec => [](TypeInv /\ MarkInv /\ ReadyInv)
  BY TypeInit, TypeStep, MarkInit, MarkStep, ReadyInit, ReadyStep, PTL DEF Spec

(* The list the loop reads is always one in which failures have spread as     *)
(* far as they reach: a task that the pass makes blocked was pending before,  *)
(* so what it depends on was completed, and has not failed.                  *)
THEOREM FailuresSpread == Spec => []FailureSpreads
<1>1. TypeInv /\ ReadyInv => FailureSpreads
  <2>. DEFINE list == Refreshed(saved)
  <2>. SUFFICES ASSUME TypeInv, ReadyInv, NEW i \in DOMAIN list,
                       list[i].st = "blocked", DependencyFailed(list, i)
                PROVE  byHand \cap ({i} \cup list[i].deps) # {}
    BY DEF FailureSpreads
  <2>1. saved \in TaskList /\ InOrder(saved)
    BY TypeParts
  <2>2. /\ DOMAIN list = DOMAIN saved
        /\ \A k \in DOMAIN saved : list[k] = [st |-> NewStatus(saved[k].st, list, k), deps |-> saved[k].deps]
    BY <2>1, RefreshedRule
  <2>. HIDE DEF list
  <2>3. \A k \in DOMAIN saved : list[k].st = NewStatus(saved[k].st, list, k) /\ list[k].deps = saved[k].deps
    BY <2>2
  <2>4. saved[i].st = "pending"
    BY <2>2, <2>3 DEF NewStatus
  <2>5. PICK d \in list[i].deps : d \in DOMAIN list /\ list[d].st = "failed"
    BY DEF DependencyFailed
  <2>6. saved[d].st # "completed"
    BY <2>2, <2>3, <2>5 DEF NewStatus
  <2>7. Ready(saved, byHand, {})
    BY DEF ReadyInv
  <2>8. Excused(saved, byHand, i)
    BY <2>2, <2>3, <2>4, <2>5, <2>6, <2>7 DEF Ready, Open
  <2>. QED
    BY <2>2, <2>3, <2>8 DEF Excused
<1>. QED
  BY <1>1, ReadyInvariant, PTL

(* Only a start gives a member a task. *)
LEMMA StartedTasks ==
    ASSUME TypeInv, MarkInv, [Next]_vars, NEW c \in Calls, NEW i \in call'[c].ids \ call[c].ids
    PROVE  i \in DOMAIN tasks /\ Executable(i)
<1>1. call' # call
  OBVIOUS
<1>2. Begin \/ Edit \/ Respond \/ Iterate \/ MarkAllComplete \/ UNCHANGED vars => call' = call
  BY DEF Begin, Edit, Respond, Iterate, MarkAllComplete, vars
<1>3. \A deps : Create(deps) => call' = call
  BY DEF Create
<1>4. \A k, st : UpdateStatus(k, st) => call' = call
  BY DEF UpdateStatus
<1>5. ASSUME NEW e \in Calls, NEW ids \in SUBSET DOMAIN tasks, NEW parallel \in BOOLEAN,
             Start(e, ids, parallel)
      PROVE  i \in DOMAIN tasks /\ Executable(i)
  <2>1. call'[e].ids = ids
    BY <1>5, StartType
  <2>2. \A d \in Calls \ {e} : call'[d].ids = call[d].ids
    BY <1>5, StartType
  <2>3. \A k \in ids : Executable(k)
    BY <1>5 DEF Start
  <2>. QED
    BY <2>1, <2>2, <2>3
<1>6. ASSUME NEW e \in Calls, Returns(e)
      PROVE  FALSE
  BY <1>6, ReturnType
<1>. QED
  BY <1>1, <1>2, <1>3, <1>4, <1>5, <1>6, ExecutionSplit DEF Next

(* A member gets a task only when everything the task depends on has been     *)
(* completed, unless the leader has set one of their statuses by hand:       *)
(* whatever copies of the list have been merged in, in whatever order.       *)
THEOREM StartsReady == Spec => StartsWhenReady
<1>. DEFINE Starts == \A c \in Calls : \A i \in call'[c].ids \ call[c].ids :
                         \/ tasks[i].deps \subseteq {d \in DOMAIN tasks : tasks[d].st = "completed"}
                         \/ byHand \cap ({i} \cup tasks[i].deps) # {}
<1>1. TypeInv /\ MarkInv /\ ReadyInv /\ [Next]_vars => Starts
  <2>. SUFFICES ASSUME TypeInv, MarkInv, ReadyInv, [Next]_vars,
                       NEW c \in Calls, NEW i \in call'[c].ids \ call[c].ids
                PROVE  \/ tasks[i].deps \subseteq {d \in DOMAIN tasks : tasks[d].st = "completed"}
                       \/ byHand \cap ({i} \cup tasks[i].deps) # {}
    OBVIOUS
  <2>1. i \in DOMAIN tasks /\ Executable(i)
    BY StartedTasks
  <2>2. Ready(tasks, byHand, Active) /\ tasks[i].st \in Open
    BY <2>1 DEF ReadyInv, Executable, Open
  <2>. QED
    BY <2>1, <2>2 DEF Ready, Excused
<1>2. TypeInv /\ MarkInv /\ ReadyInv /\ [Next]_vars => [Starts]_vars
  BY <1>1
<1>. QED
  BY <1>2, ReadyInvariant, PTL DEF Spec, StartsWhenReady
=============================================================================
