-------------------------- MODULE ExecutionBackend --------------------------
(***************************************************************************)
(* The execution backends (execution/__init__.py, fake_container.py): a    *)
(* job is submitted, an asyncio task starts its process, waits for it      *)
(* under a timeout and writes the result, while cancel() may run at any    *)
(* await of that task and writes the same job object.  The backend is      *)
(* chosen once (get_execution_backend): "local" and "fake" run a child     *)
(* process, "container" runs the docker CLI, whose container starts and    *)
(* ends on its own and is stopped by a separate `docker kill` process that *)
(* nobody waits for.  Job ids are distinct and each is cancelled at most   *)
(* once; output text, environment and docker flags are left out.           *)
(***************************************************************************)
EXTENDS Naturals

CONSTANTS
    Jobs,      \* the job ids
    Backends   \* the backends get_execution_backend may have chosen

ASSUME BackendsAssumption == Backends \subseteq {"local", "fake", "container"}

VARIABLES
    backend,    \* the backend in use
    status,     \* ExecutionJob.status
    killed,     \* ExecutionJob.killed
    exitCode,   \* ExecutionJob.exit_code
    completed,  \* ExecutionJob.completed_at is set
    task,       \* where _execute_job / _execute_in_container stands
    proc,       \* the child process: "none", "alive" or how it ended
    known,      \* the process is in _processes, or container_id is set
    workspace,  \* the job's temporary directory exists
    container,  \* the docker container behind the CLI process
    kills,      \* `docker kill` processes that have not run yet
    canceller   \* the call of cancel(job_id)

result == <<status, killed, exitCode, completed>>
docker == <<container, kills>>
vars == <<backend, result, task, proc, known, workspace, docker, canceller>>

(* How a process ends: by itself with 0 or another code, by SIGKILL (-9),
   or, seen through the docker CLI, by SIGKILL in the container (137). *)
Codes == {"zero", "nonzero", "sigkill", "oom"}

Terminal == {"completed", "failed", "timeout", "cancelled"}

TypeOK ==
    /\ backend \in Backends
    /\ status \in [Jobs -> {"queued", "running"} \cup Terminal]
    /\ killed \in [Jobs -> BOOLEAN]
    /\ exitCode \in [Jobs -> Codes \cup {"none", "minus_one"}]
    /\ completed \in [Jobs -> BOOLEAN]
    /\ task \in [Jobs -> {"none", "created", "spawn", "wait", "reap",
                          "killing", "erring", "done", "abandoned"}]
    /\ proc \in [Jobs -> Codes \cup {"none", "alive"}]
    /\ known \in [Jobs -> BOOLEAN]
    /\ workspace \in [Jobs -> BOOLEAN]
    /\ container \in [Jobs -> {"none", "starting", "running", "gone"}]
    /\ kills \in [Jobs -> 0..2]
    /\ canceller \in [Jobs -> {"idle", "waiting", "done"}]

Init ==
    /\ backend \in Backends
    /\ status = [j \in Jobs |-> "queued"]
    /\ killed = [j \in Jobs |-> FALSE]
    /\ exitCode = [j \in Jobs |-> "none"]
    /\ completed = [j \in Jobs |-> FALSE]
    /\ task = [j \in Jobs |-> "none"]
    /\ proc = [j \in Jobs |-> "none"]
    /\ known = [j \in Jobs |-> FALSE]
    /\ workspace = [j \in Jobs |-> FALSE]
    /\ container = [j \in Jobs |-> "none"]
    /\ kills = [j \in Jobs |-> 0]
    /\ canceller = [j \in Jobs |-> "idle"]

-----------------------------------------------------------------------------
(* Writing the result.                                                     *)

(* The end of the task: the status it found, completed_at, and the finally
   blocks, which forget the process and remove the workspace. *)
Finish(j, s, code, kill) ==
    /\ status' = [status EXCEPT ![j] = s]
    /\ killed' = [killed EXCEPT ![j] = @ \/ kill]
    /\ exitCode' = [exitCode EXCEPT ![j] = code]
    /\ completed' = [completed EXCEPT ![j] = TRUE]
    /\ workspace' = [workspace EXCEPT ![j] = FALSE]
    /\ known' = [known EXCEPT ![j] = backend = "container" /\ @]
    /\ task' = [task EXCEPT ![j] = "done"]

(* Wrong: the return code is never looked at. *)
AlwaysCompleted(code) == "completed"

(* The status of a job whose process ended: LocalExecutionBackend does not
   look at the return code. *)
StatusOf(code) ==
    CASE backend = "local" -> "completed"
      [] backend = "fake" -> IF code = "zero" THEN "completed" ELSE "failed"
      [] OTHER -> IF code = "zero" THEN "completed"
                  ELSE IF code = "sigkill" THEN "timeout" ELSE "failed"

-----------------------------------------------------------------------------
(* The task.                                                               *)

(* submit(): the process backends leave the work to a task; the container
   backend runs it, up to its first await, in the caller. *)
Submit(j) ==
    /\ task[j] = "none"
    /\ status' = [status EXCEPT ![j] = "running"]
    /\ IF backend = "container"
       THEN /\ task' = [task EXCEPT ![j] = "spawn"]
            /\ workspace' = [workspace EXCEPT ![j] = TRUE]
       ELSE /\ task' = [task EXCEPT ![j] = "created"]
            /\ UNCHANGED workspace
    /\ UNCHANGED <<backend, killed, exitCode, completed, proc, known, docker,
                   canceller>>

(* The task's first step: the workspace is made and the process asked for. *)
Begin(j) ==
    /\ task[j] = "created"
    /\ task' = [task EXCEPT ![j] = "spawn"]
    /\ workspace' = [workspace EXCEPT ![j] = TRUE]
    /\ UNCHANGED <<backend, result, proc, known, docker, canceller>>

(* FakeContainerBackend refuses a command with a forbidden pattern. *)
Blocked(j) ==
    /\ backend = "fake"
    /\ task[j] = "created"
    /\ Finish(j, "failed", "nonzero", FALSE)
    /\ UNCHANGED <<backend, proc, docker, canceller>>

(* create_subprocess_exec returns: the process can be found by cancel(). *)
Spawned(j) ==
    /\ task[j] = "spawn"
    /\ task' = [task EXCEPT ![j] = "wait"]
    /\ proc' = [proc EXCEPT ![j] = "alive"]
    /\ known' = [known EXCEPT ![j] = TRUE]
    /\ container' = [container EXCEPT ![j] =
                        IF backend = "container" THEN "starting" ELSE @]
    /\ UNCHANGED <<backend, result, workspace, kills, canceller>>

(* create_subprocess_exec raises: no such program. *)
SpawnFails(j) ==
    /\ task[j] = "spawn"
    /\ Finish(j, "failed",
              IF backend = "container" THEN exitCode[j] ELSE "nonzero", FALSE)
    /\ UNCHANGED <<backend, proc, docker, canceller>>

(* communicate() returns and the result is read from the process. *)
Collect(j) ==
    /\ task[j] = "wait"
    /\ proc[j] \in Codes
    /\ Finish(j, StatusOf(proc[j]), proc[j],
              backend = "container" /\ proc[j] = "sigkill")
    /\ UNCHANGED <<backend, proc, docker, canceller>>

(* The output is not UTF-8: decode() raises (the fake backend replaces the
   bytes).  The container backend kills the container before it writes. *)
CollectFails(j) ==
    /\ task[j] = "wait"
    /\ proc[j] \in Codes
    /\ \/ /\ backend = "local"
          /\ Finish(j, "failed", "nonzero", FALSE)
       \/ /\ backend = "container"
          /\ task' = [task EXCEPT ![j] = "erring"]
          /\ UNCHANGED <<result, known, workspace>>
    /\ UNCHANGED <<backend, proc, docker, canceller>>

Kill(j) == [proc EXCEPT ![j] = IF @ = "alive" THEN "sigkill" ELSE @]

(* Wrong: the timeout gives the process up without killing it. *)
TimeoutOnly(j) ==
    /\ task[j] = "wait"
    /\ Finish(j, "timeout", "minus_one", TRUE)
    /\ UNCHANGED <<backend, proc, docker, canceller>>

(* Wrong: only child processes are waited for under a timeout. *)
TimeoutOfChild(j) ==
    /\ backend # "container"
    /\ task[j] = "wait"
    /\ task' = [task EXCEPT ![j] = "reap"]
    /\ proc' = Kill(j)
    /\ UNCHANGED <<backend, result, known, workspace, docker, canceller>>

(* wait_for times out: a child process is killed and waited for, a
   container is left to `docker kill`. *)
Timeout(j) ==
    /\ task[j] = "wait"
    /\ IF backend = "container"
       THEN /\ task' = [task EXCEPT ![j] = "killing"]
            /\ UNCHANGED proc
       ELSE /\ task' = [task EXCEPT ![j] = "reap"]
            /\ proc' = Kill(j)
    /\ UNCHANGED <<backend, result, known, workspace, docker, canceller>>

(* proc.wait() returns after the kill. *)
Reaped(j) ==
    /\ task[j] = "reap"
    /\ proc[j] \in Codes
    /\ Finish(j, "timeout", "minus_one", TRUE)
    /\ UNCHANGED <<backend, proc, docker, canceller>>

(* Wrong: a kill is asked for twice, for good measure. *)
KillRequestedTwice(j) ==
    /\ \E sent \in {0, 2} : kills' = [kills EXCEPT ![j] = @ + sent]
    /\ UNCHANGED container

(* _kill_container: `docker kill` is started, or cannot be (swallowed). *)
KillRequested(j) ==
    /\ \E sent \in 0..1 : kills' = [kills EXCEPT ![j] = @ + sent]
    /\ UNCHANGED container

(* _kill_container returns to the task. *)
KillSent(j) ==
    /\ \/ task[j] = "killing" /\ Finish(j, "timeout", "minus_one", TRUE)
       \/ task[j] = "erring" /\ Finish(j, "failed", "nonzero", FALSE)
    /\ KillRequested(j)
    /\ UNCHANGED <<backend, proc, canceller>>

(* The tool that awaits submit() runs out of its own time (tools/executor.py):
   the cancellation passes every handler but finally, the job is left as it
   is, and so are its CLI and its container; a CLI that is just being started
   is killed, with or without having asked for the container. *)
Abandoned(j) ==
    /\ backend = "container"
    /\ task[j] \in {"spawn", "wait", "killing", "erring"}
    /\ task' = [task EXCEPT ![j] = "abandoned"]
    /\ workspace' = [workspace EXCEPT ![j] = FALSE]
    /\ \/ /\ task[j] = "spawn"
          /\ proc' = [proc EXCEPT ![j] = "sigkill"]
          /\ \E asked \in {"none", "starting"} : container' = [container EXCEPT ![j] = asked]
          /\ UNCHANGED kills
       \/ task[j] = "wait" /\ UNCHANGED <<proc, docker>>
       \/ task[j] \in {"killing", "erring"} /\ KillRequested(j) /\ UNCHANGED proc
    /\ UNCHANGED <<backend, result, known, canceller>>

-----------------------------------------------------------------------------
(* cancel().                                                               *)

(* Wrong: a cancel also writes the exit code. *)
MarkKilled(j) ==
    /\ status' = [status EXCEPT ![j] = "cancelled"]
    /\ killed' = [killed EXCEPT ![j] = TRUE]
    /\ completed' = [completed EXCEPT ![j] = TRUE]
    /\ canceller' = [canceller EXCEPT ![j] = "done"]
    /\ exitCode' = [exitCode EXCEPT ![j] = "minus_one"]

MarkCancelled(j) ==
    /\ status' = [status EXCEPT ![j] = "cancelled"]
    /\ killed' = [killed EXCEPT ![j] = TRUE]
    /\ completed' = [completed EXCEPT ![j] = TRUE]
    /\ canceller' = [canceller EXCEPT ![j] = "done"]
    /\ UNCHANGED exitCode

(* cancel() of a submitted job with a process: kill it, then await. *)
CancelProcess(j) ==
    /\ canceller[j] = "idle"
    /\ known[j]
    /\ canceller' = [canceller EXCEPT ![j] = "waiting"]
    /\ proc' = IF backend = "container" THEN proc ELSE Kill(j)
    /\ UNCHANGED <<backend, result, task, known, workspace, docker>>

(* cancel() of a submitted job without one, before or after it ran. *)
CancelRecord(j) ==
    /\ canceller[j] = "idle"
    /\ task[j] # "none"
    /\ ~known[j]
    /\ MarkCancelled(j)
    /\ UNCHANGED <<backend, task, proc, known, workspace, docker>>

(* The await of cancel() returns and the job is marked. *)
CancelEnds(j) ==
    /\ canceller[j] = "waiting"
    /\ MarkCancelled(j)
    /\ IF backend = "container"
       THEN KillRequested(j)
       ELSE proc[j] \in Codes /\ UNCHANGED docker
    /\ UNCHANGED <<backend, task, proc, known, workspace>>

-----------------------------------------------------------------------------
(* The operating system and the docker daemon.                             *)

ProcessExits(j) ==
    /\ backend # "container"
    /\ proc[j] = "alive"
    /\ \E code \in {"zero", "nonzero"} : proc' = [proc EXCEPT ![j] = code]
    /\ UNCHANGED <<backend, result, task, known, workspace, docker, canceller>>

ContainerStarts(j) ==
    /\ container[j] = "starting"
    /\ container' = [container EXCEPT ![j] = "running"]
    /\ UNCHANGED <<backend, result, task, proc, known, workspace, kills,
                   canceller>>

(* The container ends, or could not be started, and the CLI with it. *)
ContainerExits(j) ==
    /\ container[j] \in {"starting", "running"}
    /\ container' = [container EXCEPT ![j] = "gone"]
    /\ \E code \in {"zero", "nonzero", "oom"} :
          /\ container[j] = "starting" => code = "nonzero"
          /\ proc' = [proc EXCEPT ![j] = code]
    /\ UNCHANGED <<backend, result, task, known, workspace, kills, canceller>>

(* `docker kill` runs: it stops a running container and no other. *)
DockerKill(j) ==
    /\ kills[j] > 0
    /\ kills' = [kills EXCEPT ![j] = @ - 1]
    /\ IF container[j] = "running"
       THEN /\ container' = [container EXCEPT ![j] = "gone"]
            /\ proc' = [proc EXCEPT ![j] = "oom"]
       ELSE UNCHANGED <<container, proc>>
    /\ UNCHANGED <<backend, result, task, known, workspace, canceller>>

-----------------------------------------------------------------------------
TaskStep(j) ==
    \/ Begin(j) \/ Blocked(j) \/ Spawned(j) \/ SpawnFails(j)
    \/ Collect(j) \/ CollectFails(j) \/ Timeout(j) \/ Reaped(j) \/ KillSent(j)

Environment(j) ==
    \/ ProcessExits(j) \/ ContainerStarts(j) \/ ContainerExits(j)
    \/ DockerKill(j)

Next == \E j \in Jobs :
    \/ Submit(j) \/ TaskStep(j) \/ Abandoned(j)
    \/ CancelProcess(j) \/ CancelRecord(j) \/ CancelEnds(j)
    \/ Environment(j)

(* The event loop runs every task that is ready, wait_for ends at the
   timeout at the latest, and an await of cancel() returns once the process
   is dead or `docker kill` is started. *)
Fairness == \A j \in Jobs : WF_vars(TaskStep(j)) /\ WF_vars(CancelEnds(j))

Spec == Init /\ [][Next]_vars /\ Fairness

-----------------------------------------------------------------------------
(* Properties.                                                             *)

(* A job's process never outlives its task: whatever ends the task (exit,
   timeout, blocked command, exception, a cancel in the middle), the child
   process of the local and fake backends is dead by then. *)
NoOrphanProcess == \A j \in Jobs :
    backend # "container" /\ task[j] = "done" => proc[j] # "alive"

(* Every path that ends the task removes the job's workspace and, in the
   process backends, its entry in _processes, on which cancel() relies. *)
NothingLeftBehind == \A j \in Jobs :
    task[j] \in {"none", "done", "abandoned"} =>
        ~workspace[j] /\ (backend # "container" => ~known[j])

(* Whatever cancel, exit, timeout or error ended it, a task that is done has
   left nothing behind: no process, no workspace, no table entry. *)
EverythingReleased == NoOrphanProcess /\ NothingLeftBehind

(* The fake and container backends report COMPLETED (get_result's success)
   only with the exit code 0 the process really ended with, whatever
   cancels, timeouts and docker kills raced the collection. *)
SuccessIsReal == \A j \in Jobs :
    backend # "local" /\ status[j] = "completed" =>
        exitCode[j] = "zero" /\ proc[j] = "zero"

(* Once the task has written a result, only a cancel() that found the job
   replaces the status, and nothing replaces the exit code. *)
ResultIsFinal == [][\A j \in Jobs : task[j] = "done" =>
    /\ exitCode'[j] = exitCode[j]
    /\ status'[j] # status[j] =>
           status'[j] = "cancelled" /\ canceller'[j] = "done"]_vars

(* Every submitted job ends, even one whose process never exits or whose
   container is never stopped, unless the tool that waits for it in submit()
   is cancelled first, and no call of cancel() waits for ever. *)
NothingHangs == \A j \in Jobs :
    /\ task[j] # "none" ~> task[j] \in {"done", "abandoned"}
    /\ canceller[j] = "waiting" ~> canceller[j] = "done"

(* Claim of the repository (test_fake_container.py): after cancel() has
   returned True, get_result reports CANCELLED. *)
CancelledStays == \A j \in Jobs :
    canceller[j] = "done" => status[j] = "cancelled"

=============================================================================
