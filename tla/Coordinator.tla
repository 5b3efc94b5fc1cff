----------------------------- MODULE Coordinator -----------------------------
(***************************************************************************)
(* The two ways a coordinator runs tasks with sub-agents                   *)
(* (orchestration/coordinator.py), and the orchestrator that hands tasks   *)
(* to agents by their status (orchestration/multi_agent.py).  A task is a  *)
(* coroutine that waits for its dependencies by polling a set, runs its    *)
(* agent, and enters the set; a call is the gather() over them.  Goals,    *)
(* results' texts, capabilities' names, counters and success rates (which  *)
(* never change) are left out.                                             *)
(***************************************************************************)
EXTENDS Naturals, FiniteSets

CONSTANTS
    GraphTasks,     \* task_0, task_1, ... as the numbers 1, 2, ...
    UnknownTask,    \* a dependency that names no task
    MaxConcurrent,  \* max_concurrent_agents
    CrewAgents,     \* the orchestrator's agents
    CrewTasks,      \* its tasks
    MaxCalls        \* bound: execute_task calls of one task at a time

ASSUME CoordinatorAssumption ==
    /\ IsFiniteSet(GraphTasks) /\ GraphTasks = 1..Cardinality(GraphTasks)
    /\ UnknownTask \notin GraphTasks
    /\ MaxConcurrent \in Nat /\ MaxCalls \in Nat

VARIABLES
    mode,       \* which call is made, "parallel" or "graph"
    needs,      \* the dependencies of each task
    depth,      \* current_depth < max_depth: agents can be spawned
    gather,     \* the call: "open", "returned" or "raised"
    place,      \* where each task's coroutine is
    completed   \* the set the waiting coroutines poll

coordinatorVars == <<mode, needs, depth, gather, place, completed>>

Places == {"absent", "waiting", "running", "done", "raised"}

CoordinatorTypeOK ==
    /\ mode \in {"parallel", "graph"}
    /\ needs \in [GraphTasks -> SUBSET (GraphTasks \cup {UnknownTask})]
    /\ depth \in BOOLEAN
    /\ gather \in {"open", "returned", "raised"}
    /\ place \in [GraphTasks -> Places]
    /\ completed \subseteq GraphTasks

(* The wrapped call has just been made.  execute_parallel cuts the list off at
   max_concurrent, spawns, and looks at no dependencies; execute_graph starts
   one coroutine per task. *)
Chosen == IF mode = "graph" THEN GraphTasks
          ELSE {t \in GraphTasks : t <= MaxConcurrent}

CoordinatorInit ==
    /\ mode \in {"parallel", "graph"}
    /\ needs \in [GraphTasks -> SUBSET (GraphTasks \cup {UnknownTask})]
    /\ depth \in BOOLEAN
    /\ completed = {}
    /\ IF mode = "parallel" /\ ~depth /\ Chosen # {}
       THEN /\ gather = "raised"
            /\ place = [t \in GraphTasks |-> "absent"]
       ELSE /\ gather = "open"
            /\ place = [t \in GraphTasks |->
                  IF t \notin Chosen THEN "absent"
                  ELSE IF mode = "graph" THEN "waiting" ELSE "running"]

(* Wrong: a task waits for the first of its dependencies only. *)
SomeCompleted(t) == needs[t] = {} \/ needs[t] \cap completed # {}

(* Wrong: a task waits until more has completed than it needs. *)
MoreCompleted(t) == needs[t] # completed /\ needs[t] \subseteq completed

(* wait_for_completion of every dependency has seen it in the set. *)
AllCompleted(t) == needs[t] \subseteq completed

(* An exception leaves gather() at once and the other coroutines go on. *)
RaisedIn(t) ==
    /\ place' = [place EXCEPT ![t] = "raised"]
    /\ gather' = IF gather = "open" /\ mode = "graph" THEN "raised" ELSE gather

(* _spawn_agent when the waits are over. *)
StartGraphTask(t) ==
    /\ place[t] = "waiting"
    /\ AllCompleted(t)
    /\ IF depth
       THEN place' = [place EXCEPT ![t] = "running"] /\ UNCHANGED gather
       ELSE RaisedIn(t)
    /\ UNCHANGED <<mode, needs, depth, completed>>

(* agent.execute returns, and the coroutine with it, or raises. *)
AgentReturns(t) ==
    /\ place[t] = "running"
    /\ place' = [place EXCEPT ![t] = "done"]
    /\ completed' = IF mode = "graph" THEN completed \cup {t} ELSE completed
    /\ UNCHANGED <<mode, needs, depth, gather>>

AgentRaises(t) ==
    /\ place[t] = "running"
    /\ RaisedIn(t)
    /\ UNCHANGED <<mode, needs, depth, completed>>

(* gather() has all results; exceptions count in execute_parallel only. *)
GatherReturns ==
    /\ gather = "open"
    /\ \A t \in Chosen : place[t] = "done" \/ (mode = "parallel" /\ place[t] = "raised")
    /\ gather' = "returned"
    /\ UNCHANGED <<mode, needs, depth, place, completed>>

CoordinatorStep ==
    \/ GatherReturns
    \/ \E t \in GraphTasks : StartGraphTask(t) \/ AgentReturns(t) \/ AgentRaises(t)

(* The event loop runs every coroutine, and a sub-agent's run ends. *)
CoordinatorFairness ==
    /\ WF_coordinatorVars(GatherReturns)
    /\ \A t \in GraphTasks :
          /\ WF_coordinatorVars(StartGraphTask(t))
          /\ WF_coordinatorVars(AgentReturns(t) \/ AgentRaises(t))

CoordinatorSpec ==
    CoordinatorInit /\ [][CoordinatorStep]_coordinatorVars /\ CoordinatorFairness

-----------------------------------------------------------------------------
(* AgentOrchestrator.                                                      *)

VARIABLES
    crew,       \* status of each agent, "none" before spawn_agent
    assigned,   \* the agent of each task, or the task itself before it exists
    crewTask,   \* status of each task
    crewCalls,  \* execute_task calls of each task that wait in _run_task
    deserted    \* history: agents one of whose calls was cancelled

crewVars == <<crew, assigned, crewTask, crewCalls, deserted>>

CrewTypeOK ==
    /\ crew \in [CrewAgents -> {"none", "idle", "running"}]
    /\ assigned \in [CrewTasks -> CrewAgents \cup CrewTasks]
    /\ crewTask \in [CrewTasks -> {"idle", "running", "completed"}]
    /\ crewCalls \in [CrewTasks -> 0..MaxCalls]
    /\ deserted \subseteq CrewAgents

CrewInit ==
    /\ crew = [a \in CrewAgents |-> "none"]
    /\ assigned = [t \in CrewTasks |-> t]
    /\ crewTask = [t \in CrewTasks |-> "idle"]
    /\ crewCalls = [t \in CrewTasks |-> 0]
    /\ deserted = {}

SpawnAgent(a) ==
    /\ crew[a] = "none"
    /\ crew' = [crew EXCEPT ![a] = "idle"]
    /\ UNCHANGED <<assigned, crewTask, crewCalls, deserted>>

(* assign_task to any agent; delegate to one that is idle, which it stays. *)
AssignTask(t, a) ==
    /\ assigned[t] = t
    /\ crew[a] # "none"
    /\ assigned' = [assigned EXCEPT ![t] = a]
    /\ UNCHANGED <<crew, crewTask, crewCalls, deserted>>

DelegateTask(t) == \E a \in CrewAgents : crew[a] = "idle" /\ AssignTask(t, a)

(* execute_task up to its await; neither status is looked at. *)
BeginCrewTask(t) ==
    /\ assigned[t] # t
    /\ crewCalls[t] < MaxCalls
    /\ crewCalls' = [crewCalls EXCEPT ![t] = @ + 1]
    /\ crewTask' = [crewTask EXCEPT ![t] = "running"]
    /\ crew' = [crew EXCEPT ![assigned[t]] = "running"]
    /\ UNCHANGED <<assigned, deserted>>

(* _run_task has slept: the agent is idle, even if it has another call. *)
EndCrewTask(t) ==
    /\ crewCalls[t] > 0
    /\ crewCalls' = [crewCalls EXCEPT ![t] = @ - 1]
    /\ crewTask' = [crewTask EXCEPT ![t] = "completed"]
    /\ crew' = [crew EXCEPT ![assigned[t]] = "idle"]
    /\ UNCHANGED <<assigned, deserted>>

(* CancelledError is not caught: the statuses stay as they are. *)
CancelCrewTask(t) ==
    /\ crewCalls[t] > 0
    /\ crewCalls' = [crewCalls EXCEPT ![t] = @ - 1]
    /\ deserted' = deserted \cup {assigned[t]}
    /\ UNCHANGED <<crew, assigned, crewTask>>

CrewStep ==
    \/ \E a \in CrewAgents : SpawnAgent(a)
    \/ \E t \in CrewTasks :
          \/ \E a \in CrewAgents : AssignTask(t, a)
          \/ DelegateTask(t) \/ BeginCrewTask(t) \/ EndCrewTask(t) \/ CancelCrewTask(t)

(* The two side by side: a step of one leaves the other alone. *)
DelegationSpec ==
    /\ CoordinatorInit /\ CrewInit
    /\ [][\/ CoordinatorStep /\ UNCHANGED crewVars
          \/ CrewStep /\ UNCHANGED coordinatorVars]_<<coordinatorVars, crewVars>>

-----------------------------------------------------------------------------
(* Properties.                                                             *)

(* Whichever tasks fail, and however their dependencies are entangled: no task
   runs before everything it depends on has completed, and a call that returns
   has an outcome of every task it was given, but for the tasks of
   execute_parallel beyond max_concurrent: these were never started, and the
   list that is returned is shorter by exactly them. *)
TasksRespectNeeds ==
    /\ mode = "graph" => \A t \in GraphTasks :
          place[t] \in {"running", "done"} => needs[t] \subseteq completed
    /\ gather = "returned" => \A t \in GraphTasks :
          IF mode = "parallel" /\ t > MaxConcurrent THEN place[t] = "absent"
          ELSE place[t] = "done" \/ (mode = "parallel" /\ place[t] = "raised")

(* An agent whose status is RUNNING works on something, unless a call of it was
   cancelled: only then is it lost to delegate() for ever. *)
AgentsAreFreed == \A a \in CrewAgents \ deserted :
    crew[a] = "running" => \E t \in CrewTasks : assigned[t] = a /\ crewCalls[t] > 0

(* The ways of handing out work: no task runs ahead of what it needs, a result
   leaves out the tasks beyond the limit of execute_parallel and no other, and
   no agent stays RUNNING with nothing to do (coordinator.py execute_parallel
   and execute_graph, multi_agent.py execute_task). *)
DelegationIsSound == TasksRespectNeeds /\ AgentsAreFreed

(* The tasks that can never run: they depend, over any number of steps, on one
   that failed, on an unknown one, or on themselves. *)
Upstream(t) ==
    LET Reach[n \in Nat] ==
            IF n = 0 THEN needs[t]
            ELSE Reach[n - 1] \cup
                 UNION {needs[d] : d \in Reach[n - 1] \cap GraphTasks}
    IN  Reach[Cardinality(GraphTasks)]

Doomed(t) ==
    \/ UnknownTask \in Upstream(t)
    \/ \E d \in Upstream(t) \cap GraphTasks :
          place[d] = "raised" \/ d \in Upstream(d)

(* In the end every task that still waits is doomed: one that is not gets to
   run, and what polls for ever is only what can never run. *)
WaitersGetOn ==
    mode = "graph" ~> \A t \in GraphTasks : place[t] = "waiting" => Doomed(t)
=============================================================================
