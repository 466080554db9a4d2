----------------------------- MODULE TeamTasks -----------------------------
(***************************************************************************)
(* A team in tasks mode.  The leader model decomposes the goal into tasks   *)
(* with dependencies and calls tools to create, execute and update them.    *)
(* The tools of a run share one task list in memory and save it into the    *)
(* session state after every change; members work on deep copies of that    *)
(* state, which are merged back.  Between iterations the loop reads the     *)
(* saved list, and the next run of the session starts from it.              *)
(*                                                                         *)
(* Of the tool calls of one response, those that execute tasks run          *)
(* concurrently, and when all have returned those that create and update    *)
(* tasks run one by one: the two phases "execute" and "edit".               *)
(***************************************************************************)
EXTENDS Naturals, Sequences

CONSTANTS
    Calls,          \* concurrent calls of the execution tools
    MaxTasks,       \* bound: tasks of the list
    MaxRuns         \* bound: runs of the session

ASSUME TeamTasksAssumption ==
    MaxTasks \in Nat /\ MaxRuns \in Nat

VARIABLES
    tasks,      \* the list of the tools: status and dependencies
    saved,      \* the list in the session state
    marks,      \* the rest of the session state: has the member of a task left its mark?
    call,       \* the executions under way
    phase, runs,
    goal,       \* goal_complete
    paused,     \* has the run requirements of a member to resolve?
    byHand,     \* history: tasks whose status the leader has set itself
    alone       \* history: tasks completed while no other call was under way

vars == <<tasks, saved, marks, call, phase, runs, goal, paused, byHand, alone>>

-----------------------------------------------------------------------------
Statuses == {"pending", "in_progress", "completed", "failed", "blocked"}

Ids == 1..MaxTasks

(* An id the leader made up. *)
Unknown == 0

TaskList == UNION {[1..n -> [st : Statuses, deps : SUBSET (Ids \cup {Unknown})]] : n \in 0..MaxTasks}

Free == [ids |-> {}, list |-> <<>>, marks |-> [i \in Ids |-> FALSE], parallel |-> FALSE, alone |-> TRUE]

TypeOK ==
    /\ tasks \in TaskList /\ saved \in TaskList
    /\ marks \in [Ids -> BOOLEAN]
    /\ call \in [Calls -> [ids : SUBSET Ids, list : TaskList, marks : [Ids -> BOOLEAN],
                           parallel : BOOLEAN, alone : BOOLEAN]]
    /\ phase \in {"execute", "edit", "over"}
    /\ runs \in 0..MaxRuns
    /\ goal \in BOOLEAN /\ paused \in BOOLEAN
    /\ byHand \subseteq DOMAIN tasks /\ alone \subseteq DOMAIN tasks
    /\ Len(saved) = Len(tasks)
    /\ \A i \in DOMAIN tasks : \A d \in tasks[i].deps : d < i
    /\ \A c \in Calls : call[c].ids \subseteq DOMAIN tasks

Init ==
    /\ tasks = <<>> /\ saved = <<>>
    /\ marks = [i \in Ids |-> FALSE]
    /\ call = [c \in Calls |-> Free]
    /\ phase = "over" /\ runs = 0
    /\ goal = FALSE /\ paused = FALSE
    /\ byHand = {} /\ alone = {}

-----------------------------------------------------------------------------
(* Dependencies. *)

(* Mutant of Blocked: a dependency nobody knows does not count. *)
BlockedIfKnown(list, i) ==
    \E d \in list[i].deps : d \in DOMAIN list /\ list[d].st # "completed"

Blocked(list, i) ==
    \E d \in list[i].deps : d \in DOMAIN list => list[d].st # "completed"

DependencyFailed(list, i) ==
    \E d \in list[i].deps : d \in DOMAIN list /\ list[d].st = "failed"

(* Mutant of Settled: a failure does not spread. *)
SettledUnspread(list, i) ==
    IF list[i].st \notin {"pending", "blocked"} THEN list
    ELSE [list EXCEPT ![i].st = IF Blocked(list, i) THEN "blocked" ELSE "pending"]

(* One task in the pass of _update_blocked_statuses. *)
Settled(list, i) ==
    IF list[i].st = "blocked" /\ DependencyFailed(list, i) THEN [list EXCEPT ![i].st = "failed"]
    ELSE IF list[i].st \in {"pending", "blocked"}
         THEN [list EXCEPT ![i].st = IF Blocked(list, i) THEN "blocked" ELSE "pending"]
    ELSE list

(* _update_blocked_statuses: one pass, in the order of creation. *)
Refreshed(list) ==
    LET upTo[n \in 0..Len(list)] == IF n = 0 THEN list ELSE Settled(upTo[n - 1], n)
    IN  [i \in DOMAIN list |-> upTo[Len(list)][i]]

Executable(i) == tasks[i].st \in {"pending", "in_progress"}

(* save_task_list *)
Save(list) == tasks' = list /\ saved' = list

-----------------------------------------------------------------------------
(* The tools that edit the list. *)

(* Mutant of Create: the new task is not saved. *)
CreateUnsaved(deps) ==
    /\ phase = "edit" /\ Len(tasks) < MaxTasks
    /\ tasks' = Refreshed(Append(tasks, [st |-> "pending", deps |-> deps]))
    /\ UNCHANGED <<saved, marks, call, phase, runs, goal, paused, byHand, alone>>

(* create_task *)
Create(deps) ==
    /\ phase = "edit" /\ Len(tasks) < MaxTasks
    /\ Save(Refreshed(Append(tasks, [st |-> "pending", deps |-> deps])))
    /\ UNCHANGED <<marks, call, phase, runs, goal, paused, byHand, alone>>

(* update_task_status *)
UpdateStatus(i, st) ==
    /\ phase = "edit"
    /\ Save(Refreshed([tasks EXCEPT ![i].st = st]))
    /\ byHand' = byHand \cup {i}
    /\ UNCHANGED <<marks, call, phase, runs, goal, paused, alone>>

Idle == \A c \in Calls : call[c].ids = {}

(* A plain function: it runs before the generators of the same response. *)
MarkAllComplete ==
    /\ phase = "execute" /\ Idle
    /\ goal' = TRUE /\ saved' = tasks
    /\ UNCHANGED <<tasks, marks, call, phase, runs, paused, byHand, alone>>

-----------------------------------------------------------------------------
(* execute_task and execute_tasks_parallel. *)

(* The tasks are in progress and saved before the state is copied. *)
Start(c, ids, parallel) ==
    /\ phase = "execute" /\ call[c].ids = {}
    /\ \A i \in ids : Executable(i)
    /\ LET list == [i \in DOMAIN tasks |-> IF i \in ids THEN [tasks[i] EXCEPT !.st = "in_progress"] ELSE tasks[i]]
       IN  /\ Save(list)
           /\ call' = [d \in Calls |->
                 IF d = c THEN [ids |-> ids, list |-> list, marks |-> marks,
                                parallel |-> parallel, alone |-> Idle]
                 ELSE [call[d] EXCEPT !.alone = @ /\ call[d].ids = {}]]
    /\ UNCHANGED <<marks, phase, runs, goal, paused, byHand, alone>>

Execute(c, i) == Start(c, {i}, FALSE)

ExecuteParallel(c, ids) == ids # {} /\ Start(c, ids, TRUE)

(* The copy of the session state a member has worked on. *)
Worked(copy, i) == [copy EXCEPT ![i] = TRUE]

With(i, st) == [tasks EXCEPT ![i].st = st]

Return(c) == call' = [call EXCEPT ![c] = Free]

Single(c, i) == call[c].ids = {i} /\ ~call[c].parallel

(* The member's run raises: the task failed, nothing is merged. *)
MemberRaises(c, i) ==
    /\ Single(c, i) /\ Return(c)
    /\ Save(With(i, "failed"))
    /\ UNCHANGED <<marks, phase, runs, goal, paused, byHand, alone>>

(* The member's run was cancelled: the exception leaves the task as it is. *)
MemberCancelled(c, i) ==
    /\ Single(c, i) /\ Return(c)
    /\ UNCHANGED <<tasks, saved, marks, phase, runs, goal, paused, byHand, alone>>

(* The member's run pauses: the task is reset and saved, and then the         *)
(* member's copy is merged, the list it holds included.                      *)
MemberPauses(c, i) ==
    /\ Single(c, i) /\ Return(c)
    /\ tasks' = With(i, "pending")
    /\ saved' = call[c].list
    /\ marks' = Worked(call[c].marks, i)
    /\ paused' = TRUE
    /\ UNCHANGED <<phase, runs, goal, byHand, alone>>

(* Mutant of MemberReturns: saved first, merged afterwards. *)
MemberReturnsSavedFirst(c, i, st) ==
    /\ Single(c, i) /\ Return(c)
    /\ tasks' = With(i, st)
    /\ saved' = call[c].list
    /\ marks' = Worked(call[c].marks, i)
    /\ alone' = IF call[c].alone /\ st = "completed" THEN alone \cup {i} ELSE alone
    /\ UNCHANGED <<phase, runs, goal, paused, byHand>>

(* The member's copy is merged, then the outcome saved. *)
MemberReturns(c, i, st) ==
    /\ Single(c, i) /\ Return(c)
    /\ marks' = Worked(call[c].marks, i)
    /\ Save(With(i, st))
    /\ alone' = IF call[c].alone /\ st = "completed" THEN alone \cup {i} ELSE alone
    /\ UNCHANGED <<phase, runs, goal, paused, byHand>>

(* The members of a parallel call whose copies are merged: a cancelled one     *)
(* leaves none.                                                              *)
Copied(c, outcome) == {i \in call[c].ids : outcome[i] # "cancelled"}

(* Mutant of Merged: the copy that is merged last wins. *)
MergedLast(c, ids) ==
    IF ids = {} THEN marks ELSE Worked(call[c].marks, CHOOSE i \in ids : TRUE)

(* merge_parallel_session_states: what differs from the state now. *)
Merged(c, ids) ==
    [k \in Ids |-> IF \E i \in ids : Worked(call[c].marks, i)[k] # marks[k] THEN ~marks[k] ELSE marks[k]]

After(outcome) == IF outcome = "cancelled" THEN "failed" ELSE outcome

ParallelReturns(c, outcome) ==
    /\ call[c].parallel /\ Return(c)
    /\ marks' = Merged(c, Copied(c, outcome))
    /\ Save([i \in DOMAIN tasks |->
            IF i \in call[c].ids THEN [tasks[i] EXCEPT !.st = After(outcome[i])] ELSE tasks[i]])
    /\ paused' = (paused \/ \E i \in call[c].ids : outcome[i] = "pending")
    /\ alone' = IF call[c].alone THEN alone \cup {i \in call[c].ids : outcome[i] = "completed"} ELSE alone
    /\ UNCHANGED <<phase, runs, goal, byHand>>

-----------------------------------------------------------------------------
(* The loop of the run. *)

Begin ==
    /\ phase = "over" /\ runs < MaxRuns
    /\ runs' = runs + 1 /\ phase' = "execute"
    /\ tasks' = Refreshed(saved)
    /\ paused' = FALSE
    /\ UNCHANGED <<saved, marks, call, goal, byHand, alone>>

(* All executions have returned. *)
Edit ==
    /\ phase = "execute" /\ Idle /\ phase' = "edit"
    /\ UNCHANGED <<tasks, saved, marks, call, runs, goal, paused, byHand, alone>>

(* The model answers the results with further tool calls. *)
Respond ==
    /\ phase = "edit" /\ phase' = "execute"
    /\ UNCHANGED <<tasks, saved, marks, call, runs, goal, paused, byHand, alone>>

Finished(list) == goal \/ (list # <<>> /\ \A i \in DOMAIN list : list[i].st = "completed")

(* The model has answered.  The run is over when it is paused or finished and *)
(* goes on otherwise, unless it is out of iterations: whether it is, that is, *)
(* what max_iterations was set to, is a choice.                              *)
Iterate ==
    /\ phase = "edit"
    /\ phase' \in IF paused \/ Finished(Refreshed(saved)) THEN {"over"} ELSE {"execute", "over"}
    /\ UNCHANGED <<tasks, saved, marks, call, runs, goal, paused, byHand, alone>>

-----------------------------------------------------------------------------
Execution(c) ==
    \/ \E i \in DOMAIN tasks : Execute(c, i)
    \/ \E ids \in SUBSET DOMAIN tasks : ExecuteParallel(c, ids)
    \/ \E i \in DOMAIN tasks :
          \/ MemberRaises(c, i) \/ MemberCancelled(c, i) \/ MemberPauses(c, i)
          \/ \E st \in {"completed", "failed"} : MemberReturns(c, i, st)
    \/ \E outcome \in [call[c].ids -> {"pending", "completed", "failed", "cancelled"}] : ParallelReturns(c, outcome)

Next ==
    \/ Begin \/ Edit \/ Respond \/ Iterate \/ MarkAllComplete
    \/ \E deps \in (SUBSET DOMAIN tasks) \cup {{Unknown}} : Create(deps)
    \/ \E i \in DOMAIN tasks, st \in Statuses \ {"blocked"} : UpdateStatus(i, st)
    \/ \E c \in Calls : Execution(c)

Spec == Init /\ [][Next]_vars

-----------------------------------------------------------------------------
(* A member gets a task only when everything the task depends on has been     *)
(* completed (_task_tools.py:153: "List of task IDs that must complete before *)
(* this task can start"), through refreshes, retries after a pause, and new   *)
(* runs: unless the leader has set the status of one of them by hand.        *)
StartsWhenReady ==
    [][\A c \in Calls : \A i \in call'[c].ids \ call[c].ids :
          \/ tasks[i].deps \subseteq {d \in DOMAIN tasks : tasks[d].st = "completed"}
          \/ byHand \cap ({i} \cup tasks[i].deps) # {}]_vars

(* In a refreshed list, as the loop looks at it and the next run starts from  *)
(* it, no task waits for one that has failed (task.py:210: "so that          *)
(* all_terminal() can detect completion and the loop does not deadlock"),     *)
(* unless the leader has set the status of one of the two by hand: one pass   *)
(* makes a pending task blocked, only the next failed.                       *)
FailureSpreads ==
    LET list == Refreshed(saved)
    IN  \A i \in DOMAIN list :
            list[i].st = "blocked" /\ DependencyFailed(list, i)
                => byHand \cap ({i} \cup list[i].deps) # {}

(* What the session state keeps is the list the tools work on, whatever was   *)
(* merged into it from the members' copies, until a member pauses.           *)
SavedAgrees == ~paused => tasks \in {saved, Refreshed(saved)}

(* What a member leaves in the session state is not undone by the stale copy  *)
(* of another, whether the other worked before, after or in parallel.        *)
MarksKept == \A i \in alone : marks[i]

(* tests/unit/team/test_task_model.py:168 (test_completing_dependency_-      *)
(* unblocks): a task is blocked no longer than its dependencies.             *)
DoneUnblocks == \A i \in DOMAIN tasks : tasks[i].st = "blocked" => Blocked(tasks, i)
=============================================================================
