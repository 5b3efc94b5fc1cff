------------------------------ MODULE TaskGraph ------------------------------
(***************************************************************************)
(* The graph of subtasks (orchestration/task_graph.py): tasks with their   *)
(* dependencies and, kept up to date by every operation, the reverse lists *)
(* of dependents; and the statuses that the agents who run the tasks set.  *)
(* Dependency lists hold no id twice; priorities, results and the random   *)
(* ids of add_task_auto_id are left out.                                   *)
(***************************************************************************)
EXTENDS Naturals, FiniteSets

CONSTANTS
    Tasks,    \* the task ids
    MaxEdits  \* bound: changes of the graph

ASSUME EditsAssumption == MaxEdits \in Nat

VARIABLES
    tasks,       \* the keys of TaskGraph.tasks
    deps,        \* TaskNode.dependencies
    dependents,  \* TaskNode.dependents
    status,      \* TaskNode.status
    edits

graphVars == <<tasks, deps, dependents, status, edits>>

TaskStatus == {"pending", "running", "blocked", "completed", "failed"}

GraphTypeOK ==
    /\ tasks \subseteq Tasks
    /\ deps \in [Tasks -> SUBSET Tasks]
    /\ dependents \in [Tasks -> SUBSET Tasks]
    /\ status \in [Tasks -> TaskStatus]
    /\ edits \in 0..MaxEdits

GraphInit ==
    /\ tasks = {}
    /\ deps = [t \in Tasks |-> {}]
    /\ dependents = [t \in Tasks |-> {}]
    /\ status = [t \in Tasks |-> "pending"]
    /\ edits = 0

Edit ==
    /\ edits < MaxEdits
    /\ edits' = edits + 1

-----------------------------------------------------------------------------
(* Wrong: the list of the new task itself starts empty. *)
ListsOfDependencies(t, D) ==
    [d \in Tasks |-> IF d \in D \cap tasks
                     THEN {u \in tasks' : d \in deps'[u]} ELSE dependents[d]]

(* _update_dependents of the new task and of the tasks it depends on. *)
UpdatedDependents(t, D) ==
    [d \in Tasks |->
        IF d = t \/ d \in D \cap tasks
        THEN {u \in tasks' : d \in deps'[u]} ELSE dependents[d]]

(* add_task: it may depend on tasks that are not there (yet), and raises
   when the id is taken. *)
AddTask(t, D) ==
    /\ Edit
    /\ t \notin tasks
    /\ tasks' = tasks \cup {t}
    /\ deps' = [deps EXCEPT ![t] = D]
    /\ dependents' = UpdatedDependents(t, D)
    /\ status' = [status EXCEPT ![t] = "pending"]

(* link, which raises for an unknown task. *)
Link(from, to) ==
    /\ Edit
    /\ {from, to} \subseteq tasks
    /\ deps' = [deps EXCEPT ![to] = @ \cup {from}]
    /\ dependents' = [dependents EXCEPT ![from] = @ \cup {to}]
    /\ UNCHANGED <<tasks, status>>

(* remove_task takes the task out of both kinds of lists. *)
RemoveTask(t) ==
    /\ Edit
    /\ t \in tasks
    /\ tasks' = tasks \ {t}
    /\ dependents' = [d \in Tasks |->
          IF d = t THEN {}
          ELSE IF d \in deps[t] THEN dependents[d] \ {t} ELSE dependents[d]]
    /\ deps' = [u \in Tasks |->
          IF u = t THEN {}
          ELSE IF u \in dependents[t] THEN deps[u] \ {t} ELSE deps[u]]
    /\ UNCHANGED status

-----------------------------------------------------------------------------
Completed == {t \in tasks : status[t] = "completed"}

(* can_run, and get_ready_tasks. *)
CanRun(t) == status[t] = "pending" /\ deps[t] \subseteq Completed

(* An agent takes a ready task ... *)
StartTask(t) ==
    /\ t \in tasks
    /\ CanRun(t)
    /\ status' = [status EXCEPT ![t] = "running"]
    /\ UNCHANGED <<tasks, deps, dependents, edits>>

(* ... and ends it. *)
EndTask(t) ==
    /\ t \in tasks
    /\ status[t] = "running"
    /\ \E s \in {"completed", "failed"} : status' = [status EXCEPT ![t] = s]
    /\ UNCHANGED <<tasks, deps, dependents, edits>>

(* get_blocked_tasks, a query that blocks the tasks it finds. *)
GetBlocked ==
    LET blocked == {t \in tasks : status[t] = "pending" /\
                      \E d \in deps[t] \cap tasks : status[d] = "failed"}
    IN  /\ blocked # {}
        /\ status' = [t \in Tasks |->
              IF t \in blocked THEN "blocked" ELSE status[t]]
        /\ UNCHANGED <<tasks, deps, dependents, edits>>

GraphNext ==
    \/ GetBlocked
    \/ \E t \in Tasks :
          \/ \E D \in SUBSET Tasks : AddTask(t, D)
          \/ \E u \in Tasks : Link(t, u)
          \/ RemoveTask(t) \/ StartTask(t) \/ EndTask(t)

GraphSpec == GraphInit /\ [][GraphNext]_graphVars

-----------------------------------------------------------------------------
(* Properties.                                                             *)

(* dependencies and dependents are the same edges seen from both ends, in
   whatever order tasks are added before the ones they depend on, linked,
   removed and added again: no list names a task that is gone. *)
EdgesAgree == \A d \in tasks : dependents[d] = {t \in tasks : d \in deps[t]}
=============================================================================
