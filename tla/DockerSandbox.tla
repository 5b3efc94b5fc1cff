---------------------------- MODULE DockerSandbox ----------------------------
(***************************************************************************)
(* The sandboxes of projects (execution/docker_sandbox.py): a table of     *)
(* sandboxes beside the containers the Docker daemon has.  The SDK blocks, *)
(* so each method is one step.  The daemon, which may refuse any request,  *)
(* is external, and so is the client, which may lose any answer.  Limits,  *)
(* paths, files and texts are left out.  execute and stream_execute change *)
(* nothing: they give exec_run a timeout, which it does not take, so the   *)
(* one raises and the other reports a failure before the daemon is asked.  *)
(***************************************************************************)
EXTENDS Naturals, FiniteSets

CONSTANTS
    Projects,
    MaxContainers   \* bound: containers ever created

ASSUME SandboxAssumption == MaxContainers \in Nat

VARIABLES
    sandboxes,      \* _sandboxes: status and container of each project's entry
    containers,     \* the daemon's containers
    born,           \* containers created so far; they are numbered
    workspaces,     \* projects whose workspace directory exists
    failedRequests  \* history: containers a request about which was refused, or
                    \* its answer lost

sandboxVars == <<sandboxes, containers, born, workspaces, failedRequests>>

ContainerIds == 1..MaxContainers
NoContainer == 0
NoSandbox == [status |-> "none", container |-> NoContainer]
SandboxStatus == {"create_pending", "created", "running", "stopping", "stopped",
                  "destroy_pending", "crashed"}
ContainerStates == {"absent", "running", "exited"}

SandboxTypeOK ==
    /\ sandboxes \in [Projects -> {NoSandbox} \cup
          [status : SandboxStatus, container : ContainerIds \cup {NoContainer}]]
    /\ containers \in [ContainerIds -> ContainerStates]
    /\ born \in 0..MaxContainers
    /\ workspaces \subseteq Projects
    /\ failedRequests \subseteq ContainerIds

SandboxInit ==
    /\ sandboxes = [p \in Projects |-> NoSandbox]
    /\ containers = [c \in ContainerIds |-> "absent"]
    /\ born = 0
    /\ workspaces = {}
    /\ failedRequests = {}

Known(p) == sandboxes[p] # NoSandbox
ContainerOf(p) == sandboxes[p].container
Present(p) == ContainerOf(p) # NoContainer /\ containers[ContainerOf(p)] # "absent"
SetSandbox(p, status) == sandboxes' = [sandboxes EXCEPT ![p].status = status]
SetContainer(c, state) == containers' = [containers EXCEPT ![c] = state]

-----------------------------------------------------------------------------
(* A request about the container of p is done; or the daemon refuses it, an   *)
(* APIError; or the client fails, a time-out or a lost connection, and the    *)
(* daemon may have done it all the same.                                      *)

Done(p, state) ==
    /\ Present(p)
    /\ SetContainer(ContainerOf(p), state)
    /\ UNCHANGED failedRequests

Fails(p) == failedRequests' = IF Present(p) THEN failedRequests \cup {ContainerOf(p)}
                              ELSE failedRequests
Refused(p) == Fails(p) /\ UNCHANGED containers
Killable(p) == Present(p) /\ containers[ContainerOf(p)] = "running"
AnswerLost(p, states) ==
    /\ Fails(p)
    /\ \/ UNCHANGED containers
       \/ Present(p) /\ \E state \in states : SetContainer(ContainerOf(p), state)

(* The next container is there, in this state, and the entry names it or not. *)
Born(state) ==
    /\ born < MaxContainers /\ born' = born + 1
    /\ SetContainer(born + 1, state)
SetEntry(p, status, container) ==
    sandboxes' = [sandboxes EXCEPT ![p] = [status |-> status, container |-> container]]

(* create: run creates and starts.  An APIError, before the start or at it, marks
   the entry, which stays; an error of the client leaves it pending, whatever the
   daemon has done. *)
CreateSandbox(p) ==
    /\ ~Known(p)
    /\ workspaces' = workspaces \cup {p}
    /\ \/ Born("running") /\ SetEntry(p, "created", born + 1) /\ UNCHANGED failedRequests
       \/ /\ Born("exited") \/ UNCHANGED <<containers, born>>
          /\ SetEntry(p, "crashed", NoContainer) /\ UNCHANGED failedRequests
       \/ /\ SetEntry(p, "create_pending", NoContainer)
          /\ \/ UNCHANGED <<containers, born, failedRequests>>
             \/ /\ Born("exited") \/ Born("running")
                /\ failedRequests' = failedRequests \cup {born + 1}

(* start: without a container id get() raises an error that is no APIError. *)
StartSandbox(p) ==
    /\ Known(p) /\ ContainerOf(p) # NoContainer
    /\ \/ Done(p, "running") /\ SetSandbox(p, "running")
       \/ Refused(p) /\ SetSandbox(p, "crashed")
       \/ AnswerLost(p, {"running"}) /\ UNCHANGED sandboxes
    /\ UNCHANGED <<born, workspaces>>

(* stop: the status shows it before the request, and keeps it on an error other
   than NotFound; restart is stop and start. *)
StopSandbox(p) ==
    /\ Known(p)
    /\ \/ Done(p, "exited") /\ SetSandbox(p, "stopped")
       \/ /\ ContainerOf(p) # NoContainer /\ ~Present(p)
          /\ SetSandbox(p, "crashed") /\ UNCHANGED <<containers, failedRequests>>
       \/ AnswerLost(p, {"exited"}) /\ SetSandbox(p, "stopping")
    /\ UNCHANGED <<born, workspaces>>

(* destroy: kill, then remove; the daemon refuses to kill what does not run, and
   then the container is not removed.  The workspace and the entry go whatever the
   daemon refused; an error of the client, and the one get() raises without a
   container id, leaves both. *)
DestroySandbox(p) ==
    /\ Known(p)
    /\ \/ /\ ContainerOf(p) # NoContainer
          /\ \/ Killable(p) /\ (Done(p, "absent") \/ Done(p, "exited"))
             \/ Refused(p)
          /\ workspaces' = workspaces \ {p}
          /\ sandboxes' = [sandboxes EXCEPT ![p] = NoSandbox]
       \/ /\ AnswerLost(p, IF Killable(p) THEN {"exited", "absent"} ELSE {})
          /\ SetSandbox(p, "destroy_pending") /\ UNCHANGED workspaces
    /\ UNCHANGED born

(* write_file makes the workspace again, after a destroy too. *)
WriteSandboxFile(p) ==
    /\ workspaces' = workspaces \cup {p}
    /\ UNCHANGED <<sandboxes, containers, born, failedRequests>>

ContainerDies(c) ==
    /\ containers[c] = "running"
    /\ SetContainer(c, "exited")
    /\ UNCHANGED <<sandboxes, born, workspaces, failedRequests>>

SandboxNext ==
    \/ \E p \in Projects :
          \/ CreateSandbox(p) \/ StartSandbox(p) \/ StopSandbox(p) \/ DestroySandbox(p)
          \/ WriteSandboxFile(p)
    \/ \E c \in ContainerIds : ContainerDies(c)

-----------------------------------------------------------------------------
(* Properties.                                                             *)

(* However the methods alternate, and whatever dies meanwhile: a container that
   runs is the container of one project's entry, unless a request about it failed:
   the daemon refused to stop it, or the client lost an answer, as when create
   leaves a container behind that no entry names. *)
NoRunawayContainers ==
    /\ \A c \in ContainerIds \ failedRequests : containers[c] = "running" =>
          \E p \in Projects : ContainerOf(p) = c
    /\ \A p, q \in Projects : p # q /\ ContainerOf(p) # NoContainer =>
          ContainerOf(p) # ContainerOf(q)
=============================================================================
