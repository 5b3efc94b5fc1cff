--------------------------- MODULE MCOrchestration ---------------------------
(***************************************************************************)
(* The parts of the orchestration package in one run.  They share no       *)
(* state, so a behaviour follows one of them: part says which, and the     *)
(* others keep their initial state.                                        *)
(***************************************************************************)
EXTENDS MessageBus, AgentRegistry, TaskOrder, SharedContext, Coordinator

VARIABLE part

vars == <<part, busVars, registryVars, graphVars, contextVars, coordinatorVars, crewVars>>

(* One task takes no time; the others differ by their number of letters. *)
MCDuration == [t \in Tasks |-> IF t = "a" THEN 2 ELSE IF t = "b" THEN 1 ELSE 0]

Init ==
    /\ part \in {"bus", "registry", "graph", "context", "coordinator", "crew"}
    /\ BusInit
    /\ RegistryInit
    /\ GraphInit
    /\ ContextInit
    /\ CrewInit
    /\ CoordinatorInit
    /\ part # "coordinator" =>
          mode = "parallel" /\ depth /\ needs = [t \in GraphTasks |-> {}]

Next ==
    \/ /\ part = "bus"
       /\ BusNext
       /\ UNCHANGED <<part, registryVars, graphVars, contextVars, coordinatorVars, crewVars>>
    \/ /\ part = "registry"
       /\ RegistryNext
       /\ UNCHANGED <<part, busVars, graphVars, contextVars, coordinatorVars, crewVars>>
    \/ /\ part = "graph"
       /\ GraphNext
       /\ UNCHANGED <<part, busVars, registryVars, contextVars, coordinatorVars, crewVars>>
    \/ /\ part = "context"
       /\ ContextNext
       /\ UNCHANGED <<part, busVars, registryVars, graphVars, coordinatorVars, crewVars>>
    \/ /\ part = "coordinator"
       /\ CoordinatorStep
       /\ UNCHANGED <<part, busVars, registryVars, graphVars, contextVars, crewVars>>
    \/ /\ part = "crew"
       /\ CrewStep
       /\ UNCHANGED <<part, busVars, registryVars, graphVars, contextVars, coordinatorVars>>

(* BusFairness and CoordinatorFairness, each in its own part: what is fair is
   disabled, hence not asked for, in the others. *)
Fairness ==
    /\ \A r \in Requesters :
          /\ WF_busVars(part = "bus" /\ Expire(r))
          /\ WF_busVars(part = "bus" /\ Resume(r))
    /\ \A t \in GraphTasks :
          /\ WF_coordinatorVars(part = "coordinator" /\ StartGraphTask(t))
          /\ WF_coordinatorVars(part = "coordinator" /\ (AgentReturns(t) \/ AgentRaises(t)))

Spec == Init /\ [][Next]_vars /\ Fairness

TypeOK ==
    /\ BusTypeOK
    /\ RegistryTypeOK
    /\ GraphTypeOK
    /\ ContextTypeOK
    /\ CoordinatorTypeOK
    /\ CrewTypeOK
=============================================================================
