------------------------------ MODULE TaskOrder ------------------------------
(***************************************************************************)
(* The algorithms of the task graph (orchestration/task_graph.py): the     *)
(* depth-first search of validate(), Kahn's topological sort, the critical *)
(* path and the parallel batches, as functions of the graph's state, with  *)
(* the reference definitions they are compared with.  Where the code takes *)
(* tasks in the order of a dict or a list, any order is chosen: the        *)
(* results compared do not depend on it.                                   *)
(***************************************************************************)
EXTENDS TaskGraph, SequencesExt

CONSTANTS Duration  \* estimated_duration of each task

ASSUME DurationAssumption == Duration \in [Tasks -> Nat] /\ IsFiniteSet(Tasks)

-----------------------------------------------------------------------------
(* The algorithms.                                                         *)

Pick(S) == CHOOSE x \in S : TRUE

(* _detect_cycles as its calls of dfs stand: path has the tasks that are grey,
   each called for the one before it, and those in left are black. *)
Unvisited == [path |-> <<>>, left |-> {}, raised |-> FALSE]

Grey(dfs) == ToSet(dfs.path)

(* What is looked at next: the tasks, in the outermost loop, or what the task
   visited depends on. *)
Ahead(dfs) == (IF dfs.path = <<>> THEN tasks ELSE deps[Last(dfs.path)]) \ dfs.left

(* dfs is called for a task that is white; a grey or an unknown one raises. *)
EnterTask(dfs, t) ==
    IF t \in tasks \ Grey(dfs) THEN [dfs EXCEPT !.path = Append(@, t)]
    ELSE [dfs EXCEPT !.raised = TRUE]

LeaveTask(dfs) == [dfs EXCEPT !.left = @ \cup {Last(dfs.path)}, !.path = Front(@)]

(* One step of the search. *)
Visit(dfs) ==
    IF dfs.raised THEN dfs
    ELSE IF Ahead(dfs) # {} THEN EnterTask(dfs, Pick(Ahead(dfs)))
    ELSE IF dfs.path # <<>> THEN LeaveTask(dfs) ELSE dfs

(* The search once it has ended: each task is called and left once at most. *)
DetectCycles ==
    LET Steps[n \in 0..(2 * Cardinality(tasks) + 1)] ==
            IF n = 0 THEN Unvisited ELSE Visit(Steps[n - 1])
    IN  Steps[2 * Cardinality(tasks) + 1]

(* validate: every task is visited, then the dependencies are looked up. *)
Validates == ~DetectCycles.raised /\ \A t \in tasks : deps[t] \subseteq tasks

InDegree(t) == Cardinality(deps[t])

(* One round of _topological_sort: the head of the queue is appended, and
   its dependents that wait for nothing more are queued. *)
Round(sort) ==
    IF sort.queue = {} THEN sort
    ELSE LET t == Pick(sort.queue)
             degree == [u \in Tasks |-> IF u \in dependents[t]
                           THEN sort.degree[u] - 1 ELSE sort.degree[u]]
         IN  [queue |-> (sort.queue \ {t})
                          \cup {u \in dependents[t] : degree[u] = 0},
              degree |-> degree,
              result |-> Append(sort.result, t)]

(* _topological_sort; it raises when some task has not been queued. *)
TopologicalSort ==
    LET Rounds[n \in 0..Cardinality(tasks)] ==
            IF n = 0
            THEN [queue |-> {t \in tasks : InDegree(t) = 0},
                  degree |-> [t \in Tasks |-> InDegree(t)],
                  result |-> <<>>]
            ELSE Round(Rounds[n - 1])
    IN  Rounds[Cardinality(tasks)].result

SortRaises == Len(TopologicalSort) # Cardinality(tasks)

(* Wrong: a task starts when its first dependency is done. *)
ShortestDist(topo) ==
    LET Dist[i \in 1..Len(topo)] ==
            LET before == {j \in 1..(i - 1) : topo[j] \in deps[topo[i]]}
            IN  Duration[topo[i]] +
                  (IF before = {} THEN 0 ELSE Min({Dist[j] : j \in before}))
    IN  Dist

(* dist of get_critical_path, along the sorted tasks. *)
DistAlong(topo) ==
    LET Dist[i \in 1..Len(topo)] ==
            LET before == {j \in 1..(i - 1) : topo[j] \in deps[topo[i]]}
            IN  Duration[topo[i]] +
                  (IF before = {} THEN 0 ELSE Max({Dist[j] : j \in before}))
    IN  Dist

CriticalLength ==
    LET dist == DistAlong(TopologicalSort)
    IN  Max({dist[i] : i \in DOMAIN dist})

(* get_parallel_batches, of pending tasks: the n-th batch. *)
Batches ==
    LET Before[n \in 0..Cardinality(tasks)] ==
            IF n = 0 THEN {}
            ELSE Before[n - 1] \cup
                 {t \in tasks : status[t] = "pending" /\ deps[t] \subseteq Before[n - 1]}
    IN  [n \in 1..Cardinality(tasks) |-> Before[n] \ Before[n - 1]]

-----------------------------------------------------------------------------
(* The references.                                                         *)

(* The dependency chains of the graph, each task at most once. *)
Chains ==
    {c \in UNION {[1..n -> tasks] : n \in 1..Cardinality(tasks)} :
        /\ \A i, j \in DOMAIN c : c[i] = c[j] => i = j
        /\ \A i \in 1..(Len(c) - 1) : c[i] \in deps[c[i + 1]]}

SumOfChain(c) ==
    LET Sum[n \in 0..Len(c)] == IF n = 0 THEN 0 ELSE Sum[n - 1] + Duration[c[n]]
    IN  Sum[Len(c)]

Valid ==
    /\ \A t \in tasks : deps[t] \subseteq tasks
    /\ ~\E c \in Chains : c[Len(c)] \in deps[c[1]]

-----------------------------------------------------------------------------
(* Properties.                                                             *)

(* validate() raises exactly for the graphs with a cycle or an unknown
   dependency, whatever operations built them, and the sort of a graph with
   known dependencies raises for the same ones; otherwise it orders every
   task after all the tasks it depends on. *)
OrdersAreSound ==
    /\ Validates <=> Valid
    /\ (\A t \in tasks : deps[t] \subseteq tasks) => (SortRaises <=> ~Valid)
    /\ Valid => \A i, j \in 1..Len(TopologicalSort) :
          TopologicalSort[i] \in deps[TopologicalSort[j]] => i < j

(* In a valid graph the critical path is as long as the longest chain of
   dependencies, and while nothing has run every task is in one batch, after
   the batches of its dependencies. *)
SchedulesAreSound == Valid /\ tasks # {} =>
    /\ CriticalLength = Max({SumOfChain(c) : c \in Chains})
    /\ (\A t \in tasks : status[t] = "pending") =>
          /\ UNION {Batches[n] : n \in DOMAIN Batches} = tasks
          /\ \A m, n \in DOMAIN Batches : \A t \in Batches[n] :
                deps[t] \cap Batches[m] # {} => m < n

(* Whatever plan is made from the graph is right: its validation, its order,
   its critical path and its batches. *)
PlansAreSound == OrdersAreSound /\ SchedulesAreSound
=============================================================================
