----------------------- MODULE ExecutionBackendProofs -----------------------
(***************************************************************************)
(* The safety of the execution backends for any number of jobs, however    *)
(* exits, timeouts, errors, cancels and docker kills are interleaved.      *)
(***************************************************************************)
EXTENDS ExecutionBackend, TLAPS

\* Where a job's task, its process and its container stand together.  A
\* process is reaped only when it is dead, a container that has not ended has
\* a docker CLI that waits for it unless its job was abandoned, and only a
\* task that is done has succeeded.
JobInv(j) ==
    /\ task[j] \in {"none", "created", "spawn"} =>
          proc[j] = "none" /\ container[j] = "none" /\ ~known[j]
    /\ task[j] = "created" => ~workspace[j]
    /\ task[j] = "wait" => proc[j] # "none"
    /\ task[j] = "reap" => proc[j] \in Codes
    /\ task[j] \in {"killing", "erring"} => backend = "container"
    /\ task[j] = "abandoned" => backend = "container"
    /\ task[j] \in {"none", "done", "abandoned"} => ~workspace[j]
    /\ backend # "container" =>
          /\ container[j] = "none"
          /\ task[j] = "done" => ~known[j] /\ proc[j] # "alive"
    /\ container[j] \in {"starting", "running"} /\ task[j] # "abandoned" => proc[j] = "alive"
    /\ status[j] = "completed" => task[j] = "done"
    /\ status[j] = "completed" /\ backend # "local" =>
          exitCode[j] = "zero" /\ proc[j] = "zero"

BackendInv == \A j \in Jobs : JobInv(j)

\* What an action on one job leaves alone of another one.
SameJob(j) ==
    /\ backend' = backend /\ status'[j] = status[j] /\ exitCode'[j] = exitCode[j]
    /\ task'[j] = task[j] /\ proc'[j] = proc[j] /\ known'[j] = known[j]
    /\ workspace'[j] = workspace[j] /\ container'[j] = container[j]

JobAction(j) ==
    \/ Submit(j) \/ TaskStep(j) \/ Abandoned(j)
    \/ CancelProcess(j) \/ CancelRecord(j) \/ CancelEnds(j)
    \/ Environment(j)

-----------------------------------------------------------------------------
\* All variables keep their types, but for the number of pending kills, which
\* only the properties of the jobs bound.
Types ==
    /\ backend \in {"local", "fake", "container"}
    /\ status \in [Jobs -> {"queued", "running"} \cup Terminal]
    /\ killed \in [Jobs -> BOOLEAN]
    /\ exitCode \in [Jobs -> Codes \cup {"none", "minus_one"}]
    /\ completed \in [Jobs -> BOOLEAN]
    /\ task \in [Jobs -> {"none", "created", "spawn", "wait", "reap",
                          "killing", "erring", "done", "abandoned"}]
    /\ proc \in [Jobs -> Codes \cup {"none", "alive"}]
    /\ known \in [Jobs -> BOOLEAN]
    /\ workspace \in [Jobs -> BOOLEAN]
    /\ container \in [Jobs -> {"none", "starting", "running", "gone"}]
    /\ kills \in [Jobs -> Nat]
    /\ canceller \in [Jobs -> {"idle", "waiting", "done"}]

\* The end of a task keeps the types.
LEMMA FinishTypes ==
  ASSUME Types, NEW j \in Jobs, NEW s \in Terminal,
         NEW code \in Codes \cup {"none", "minus_one"}, NEW kill \in BOOLEAN,
         Finish(j, s, code, kill)
  PROVE  /\ status' \in [Jobs -> {"queued", "running"} \cup Terminal]
         /\ killed' \in [Jobs -> BOOLEAN]
         /\ exitCode' \in [Jobs -> Codes \cup {"none", "minus_one"}]
         /\ completed' \in [Jobs -> BOOLEAN]
         /\ workspace' \in [Jobs -> BOOLEAN]
         /\ known' \in [Jobs -> BOOLEAN]
         /\ task' \in [Jobs -> {"none", "created", "spawn", "wait", "reap",
                                "killing", "erring", "done", "abandoned"}]
BY DEF Finish, Types

\* The status of a process that ended is a final one.
LEMMA StatusIsFinal == \A code \in Codes : StatusOf(code) \in Terminal
BY DEF StatusOf, Codes, Terminal

\* Every action keeps the types.
LEMMA TypesKept ==
  ASSUME Types, NEW j \in Jobs, JobAction(j)
  PROVE  Types'
<1>1. CASE Submit(j)
  <2>1. /\ status' = [status EXCEPT ![j] = "running"]
        /\ task' = [task EXCEPT ![j] = "spawn"] \/ task' = [task EXCEPT ![j] = "created"]
        /\ workspace' = [workspace EXCEPT ![j] = TRUE] \/ workspace' = workspace
        /\ UNCHANGED <<backend, killed, exitCode, completed, proc, known, container, kills,
                       canceller>>
    BY <1>1 DEF Submit, docker
  <2>2. /\ backend' \in {"local", "fake", "container"}
        /\ status' \in [Jobs -> {"queued", "running"} \cup Terminal]
        /\ killed' \in [Jobs -> BOOLEAN]
        /\ exitCode' \in [Jobs -> Codes \cup {"none", "minus_one"}]
        /\ completed' \in [Jobs -> BOOLEAN]
        /\ workspace' \in [Jobs -> BOOLEAN]
    BY <2>1 DEF Types
  <2>3. task' \in [Jobs -> {"none", "created", "spawn", "wait", "reap", "killing", "erring", "done", "abandoned"}]
    BY <2>1 DEF Types
  <2> QED
    BY <2>1, <2>2, <2>3 DEF Types
<1>2. CASE Begin(j)
  BY <1>2 DEF Begin, Types, docker, result
<1>3. CASE Blocked(j)
  BY <1>3, FinishTypes DEF Blocked, Types, docker, Terminal, Codes
<1>4. CASE Spawned(j)
  BY <1>4 DEF Spawned, Types, result
<1>5. CASE SpawnFails(j)
  BY <1>5, FinishTypes DEF SpawnFails, Types, docker, Terminal, Codes
<1>6. CASE Collect(j)
  BY <1>6, FinishTypes, StatusIsFinal DEF Collect, Types, docker
<1>7. CASE CollectFails(j)
  <2>1. CASE backend = "local" /\ Finish(j, "failed", "nonzero", FALSE)
    BY <1>7, <2>1, FinishTypes DEF CollectFails, Types, docker, Terminal, Codes
  <2>2. CASE task' = [task EXCEPT ![j] = "erring"] /\ UNCHANGED <<result, known, workspace>>
    BY <1>7, <2>2 DEF CollectFails, Types, docker, result
  <2> QED BY <1>7, <2>1, <2>2 DEF CollectFails
<1>8. CASE Timeout(j)
  BY <1>8 DEF Timeout, Types, docker, result, Kill, Codes
<1>9. CASE Reaped(j)
  BY <1>9, FinishTypes DEF Reaped, Types, docker, Terminal
<1>10. CASE KillSent(j)
  <2>1. PICK s \in Terminal, code \in Codes \cup {"minus_one"}, kill \in BOOLEAN :
           Finish(j, s, code, kill)
    BY <1>10 DEF KillSent, Terminal, Codes
  <2>2. PICK n \in 0..1 : kills' = [kills EXCEPT ![j] = @ + n]
    BY <1>10 DEF KillSent, KillRequested
  <2>3. kills' \in [Jobs -> Nat] /\ UNCHANGED <<backend, proc, container, canceller>>
    BY <1>10, <2>2 DEF KillSent, KillRequested, Types
  <2>4. code \in Codes \cup {"none", "minus_one"}
    OBVIOUS
  <2>5. /\ status' \in [Jobs -> {"queued", "running"} \cup Terminal]
        /\ killed' \in [Jobs -> BOOLEAN]
        /\ exitCode' \in [Jobs -> Codes \cup {"none", "minus_one"}]
        /\ completed' \in [Jobs -> BOOLEAN]
        /\ workspace' \in [Jobs -> BOOLEAN]
        /\ known' \in [Jobs -> BOOLEAN]
        /\ task' \in [Jobs -> {"none", "created", "spawn", "wait", "reap",
                               "killing", "erring", "done", "abandoned"}]
    BY <2>1, <2>4, FinishTypes
  <2> QED BY <2>3, <2>5 DEF Types
<1>11. CASE CancelProcess(j)
  BY <1>11 DEF CancelProcess, Types, docker, result, Kill, Codes
<1>12. CASE CancelRecord(j)
  BY <1>12 DEF CancelRecord, MarkCancelled, Types, docker, Terminal
<1>13. CASE CancelEnds(j)
  BY <1>13 DEF CancelEnds, MarkCancelled, KillRequested, Types, docker, Terminal
<1>14. CASE ProcessExits(j) \/ ContainerStarts(j)
  BY <1>14 DEF ProcessExits, ContainerStarts, Types, docker, result, Codes
<1>15. CASE ContainerExits(j)
  BY <1>15 DEF ContainerExits, Types, result, Codes
<1>16. CASE DockerKill(j)
  BY <1>16 DEF DockerKill, Types, result, Codes
<1>17. CASE Abandoned(j)
  <2>1. /\ task' = [task EXCEPT ![j] = "abandoned"] /\ workspace' = [workspace EXCEPT ![j] = FALSE]
        /\ proc' = proc \/ proc' = [proc EXCEPT ![j] = "sigkill"]
        /\ container' = container \/ \E asked \in {"none", "starting"} :
                                          container' = [container EXCEPT ![j] = asked]
        /\ kills' = kills \/ \E sent \in 0..1 : kills' = [kills EXCEPT ![j] = @ + sent]
        /\ UNCHANGED <<backend, status, killed, exitCode, completed, known, canceller>>
    BY <1>17 DEF Abandoned, KillRequested, docker, result
  <2> QED
    BY <2>1 DEF Types, Codes
<1> QED
  BY <1>1, <1>2, <1>3, <1>4, <1>5, <1>6, <1>7, <1>8, <1>9, <1>10, <1>11,
     <1>12, <1>13, <1>14, <1>15, <1>16, <1>17
     DEF JobAction, TaskStep, Environment

-----------------------------------------------------------------------------
\* An action on one job leaves the others alone.
LEMMA OtherJobs ==
  ASSUME Types, NEW j \in Jobs, JobAction(j), NEW k \in Jobs \ {j}
  PROVE  SameJob(k)
<1> USE DEF Types, SameJob
<1>1. CASE TaskStep(j)
  BY <1>1 DEF TaskStep, Begin, Blocked, Spawned, SpawnFails, Collect, CollectFails,
     Timeout, Reaped, KillSent, KillRequested, Kill, Finish, result, docker
<1>2. CASE Submit(j) \/ CancelProcess(j) \/ CancelRecord(j) \/ CancelEnds(j)
  BY <1>2 DEF Submit, CancelProcess, CancelRecord, CancelEnds, MarkCancelled,
     KillRequested, Kill, result, docker
<1>3. CASE Environment(j)
  BY <1>3 DEF Environment, ProcessExits, ContainerStarts, ContainerExits, DockerKill,
     result, docker
<1>4. CASE Abandoned(j)
  BY <1>4 DEF Abandoned, KillRequested, result, docker
<1> QED BY <1>1, <1>2, <1>3, <1>4 DEF JobAction

\* Every action keeps the invariant of its own job.
LEMMA OwnJob ==
  ASSUME Types, NEW j \in Jobs, JobAction(j), JobInv(j)
  PROVE  JobInv(j)'
<1> USE DEF Types, JobInv
<1>1. CASE Submit(j)
  BY <1>1 DEF Submit, docker
<1>2. CASE Begin(j)
  BY <1>2 DEF Begin, docker, result
<1>3. CASE Blocked(j)
  BY <1>3 DEF Blocked, Finish, docker, Codes
<1>4. CASE Spawned(j)
  BY <1>4 DEF Spawned, result
<1>5. CASE SpawnFails(j)
  BY <1>5 DEF SpawnFails, Finish, docker
<1>6. CASE Collect(j)
  BY <1>6 DEF Collect, Finish, StatusOf, docker, Codes
<1>7. CASE CollectFails(j)
  BY <1>7 DEF CollectFails, Finish, docker, result, Codes
<1>8. CASE Timeout(j)
  BY <1>8 DEF Timeout, Kill, docker, result, Codes
<1>9. CASE Reaped(j)
  BY <1>9 DEF Reaped, Finish, docker, Codes
<1>10. CASE KillSent(j)
  BY <1>10 DEF KillSent, KillRequested, Finish
<1>11. CASE CancelProcess(j)
  BY <1>11 DEF CancelProcess, Kill, docker, result, Codes
<1>12. CASE CancelRecord(j)
  BY <1>12 DEF CancelRecord, MarkCancelled, docker
<1>13. CASE CancelEnds(j)
  BY <1>13 DEF CancelEnds, MarkCancelled, KillRequested, docker
<1>14. CASE ProcessExits(j) \/ ContainerStarts(j)
  BY <1>14 DEF ProcessExits, ContainerStarts, docker, result, Codes
<1>15. CASE ContainerExits(j)
  BY <1>15 DEF ContainerExits, result, Codes
<1>16. CASE DockerKill(j)
  BY <1>16 DEF DockerKill, result, Codes
<1>17. CASE Abandoned(j)
  BY <1>17 DEF Abandoned, KillRequested, docker, result
<1> QED
  BY <1>1, <1>2, <1>3, <1>4, <1>5, <1>6, <1>7, <1>8, <1>9, <1>10, <1>11,
     <1>12, <1>13, <1>14, <1>15, <1>16, <1>17
     DEF JobAction, TaskStep, Environment

\* The invariant holds in every reachable state.
LEMMA BackendInvariant == Spec => [](Types /\ BackendInv)
<1>1. Init => Types /\ BackendInv
  BY BackendsAssumption DEF Init, Types, BackendInv, JobInv, Terminal, Codes
<1>2. Types /\ BackendInv /\ [Next]_vars => (Types /\ BackendInv)'
  <2> SUFFICES ASSUME Types, BackendInv, [Next]_vars
               PROVE  Types' /\ BackendInv'
    OBVIOUS
  <2>1. ASSUME NEW j \in Jobs, JobAction(j)
        PROVE  Types' /\ BackendInv'
    <3>1. JobInv(j)'
      BY <2>1, OwnJob DEF BackendInv
    <3>2. ASSUME NEW k \in Jobs \ {j}
          PROVE  JobInv(k)'
      BY <2>1, <3>2, OtherJobs DEF BackendInv, JobInv, SameJob
    <3> QED BY <2>1, <3>1, <3>2, TypesKept DEF BackendInv
  <2>2. CASE UNCHANGED vars
    BY <2>2 DEF vars, result, docker, Types, BackendInv, JobInv
  <2> QED BY <2>1, <2>2 DEF Next, JobAction
<1> QED BY <1>1, <1>2, PTL DEF Spec

-----------------------------------------------------------------------------
\* No process outlives the task of its job.
THEOREM ProcessesEnd == Spec => []NoOrphanProcess
<1>1. BackendInv => NoOrphanProcess
  BY DEF BackendInv, JobInv, NoOrphanProcess
<1> QED BY <1>1, BackendInvariant, PTL

\* Whatever ends a task, its workspace and its table entry are gone.
THEOREM TasksCleanUp == Spec => []NothingLeftBehind
<1>1. BackendInv => NothingLeftBehind
  BY DEF BackendInv, JobInv, NothingLeftBehind
<1> QED BY <1>1, BackendInvariant, PTL

\* A task that is done has released its process, workspace and table entry.
THEOREM AllReleased == Spec => []EverythingReleased
<1>1. NoOrphanProcess /\ NothingLeftBehind => EverythingReleased
  BY DEF EverythingReleased
<1> QED BY <1>1, ProcessesEnd, TasksCleanUp, PTL

\* A reported success is the exit code 0 of the process.
THEOREM SuccessAlwaysReal == Spec => []SuccessIsReal
<1>1. BackendInv => SuccessIsReal
  BY DEF BackendInv, JobInv, SuccessIsReal
<1> QED BY <1>1, BackendInvariant, PTL

\* After its task, only a cancel changes the result of a job.
THEOREM ResultsAreFinal == Spec => ResultIsFinal
<1> DEFINE Final == \A j \in Jobs : task[j] = "done" =>
              /\ exitCode'[j] = exitCode[j]
              /\ status'[j] # status[j] =>
                     status'[j] = "cancelled" /\ canceller'[j] = "done"
<1>1. Types /\ [Next]_vars => [Final]_vars
  <2> SUFFICES ASSUME Types, NEW j \in Jobs, JobAction(j),
                      NEW k \in Jobs, task[k] = "done"
               PROVE  /\ exitCode'[k] = exitCode[k]
                      /\ status'[k] # status[k] =>
                             status'[k] = "cancelled" /\ canceller'[k] = "done"
    BY DEF Next, JobAction
  <2>1. CASE k # j
    BY <2>1, OtherJobs DEF SameJob
  <2>2. CASE k = j /\ TaskStep(j)
    BY <2>2 DEF TaskStep, Begin, Blocked, Spawned, SpawnFails, Collect, CollectFails,
       Timeout, Reaped, KillSent
  <2>3. CASE k = j /\ ~TaskStep(j)
    BY <2>3 DEF JobAction, Submit, Abandoned, CancelProcess, CancelRecord, CancelEnds,
       MarkCancelled, Environment, ProcessExits, ContainerStarts, ContainerExits,
       DockerKill, result, Types
  <2> QED BY <2>1, <2>2, <2>3
<1> QED BY <1>1, BackendInvariant, PTL DEF Spec, ResultIsFinal

-----------------------------------------------------------------------------
\* `docker kill` was asked for at most once by the task, as its last step, and
\* at most once by cancel().
KillsOnce(j) ==
    kills[j] <= (IF task[j] \in {"done", "abandoned"} THEN 1 ELSE 0)
                  + (IF canceller[j] = "done" THEN 1 ELSE 0)

KillsInv ==
    /\ backend \in Backends
    /\ \A j \in Jobs : KillsOnce(j)

\* An action on one job leaves the kills of the others alone.
LEMMA OtherKills ==
  ASSUME Types, NEW j \in Jobs, JobAction(j), NEW k \in Jobs \ {j}
  PROVE  kills'[k] = kills[k] /\ canceller'[k] = canceller[k]
<1> USE DEF Types
<1>1. CASE TaskStep(j)
  BY <1>1 DEF TaskStep, Begin, Blocked, Spawned, SpawnFails, Collect, CollectFails,
     Timeout, Reaped, KillSent, KillRequested, docker
<1>2. CASE Submit(j) \/ CancelProcess(j) \/ CancelRecord(j) \/ CancelEnds(j)
  BY <1>2 DEF Submit, CancelProcess, CancelRecord, CancelEnds, MarkCancelled,
     KillRequested, docker
<1>3. CASE Environment(j)
  BY <1>3 DEF Environment, ProcessExits, ContainerStarts, ContainerExits, DockerKill,
     docker
<1>4. CASE Abandoned(j)
  BY <1>4 DEF Abandoned, KillRequested, docker
<1> QED BY <1>1, <1>2, <1>3, <1>4 DEF JobAction

LEMMA OwnKills ==
  ASSUME Types, NEW j \in Jobs, JobAction(j), KillsOnce(j)
  PROVE  KillsOnce(j)'
<1>1. kills \in [Jobs -> Nat] /\ kills[j] \in Nat
  BY DEF Types
<1>2. ASSUME kills'[j] <= kills[j],
             task[j] \in {"done", "abandoned"} => task'[j] \in {"done", "abandoned"},
             canceller[j] = "done" => canceller'[j] = "done",
             kills'[j] \in Nat
      PROVE  KillsOnce(j)'
  BY <1>1, <1>2 DEF KillsOnce
<1>3. CASE KillSent(j)
  <2>1. task[j] \notin {"done", "abandoned"} /\ task'[j] = "done" /\ canceller' = canceller
    BY <1>3 DEF KillSent, Finish, Types
  <2>2. PICK n \in 0..1 : kills' = [kills EXCEPT ![j] = @ + n]
    BY <1>3 DEF KillSent, KillRequested
  <2>3. kills'[j] = kills[j] + n
    BY <1>1, <2>2
  <2> QED BY <1>1, <2>1, <2>3 DEF KillsOnce
<1>4. CASE CancelEnds(j)
  <2>1. canceller[j] # "done" /\ canceller'[j] = "done" /\ task' = task
    BY <1>4 DEF CancelEnds, MarkCancelled, Types
  <2>2. \E n \in 0..1 : kills'[j] = kills[j] + n
    <3>1. CASE UNCHANGED docker
      BY <1>1, <3>1 DEF docker
    <3>2. CASE KillRequested(j)
      BY <1>1, <3>2 DEF KillRequested
    <3> QED BY <1>4, <3>1, <3>2 DEF CancelEnds
  <2> QED BY <1>1, <2>1, <2>2 DEF KillsOnce
<1>5. CASE DockerKill(j)
  <2>1. kills'[j] = kills[j] - 1 /\ kills[j] > 0 /\ UNCHANGED <<task, canceller>>
    BY <1>1, <1>5 DEF DockerKill
  <2> QED BY <1>1, <1>2, <2>1
<1>6. CASE TaskStep(j) /\ ~KillSent(j)
  <2>1. UNCHANGED <<kills, canceller>>
    BY <1>6 DEF TaskStep, Begin, Blocked, Spawned, SpawnFails, Collect, CollectFails,
       Timeout, Reaped, docker
  <2>2. task[j] \notin {"done", "abandoned"}
    BY <1>6 DEF TaskStep, Begin, Blocked, Spawned, SpawnFails, Collect, CollectFails,
       Timeout, Reaped
  <2> QED BY <1>1, <1>2, <2>1, <2>2
<1>7. CASE Submit(j) \/ CancelProcess(j) \/ CancelRecord(j)
  BY <1>1, <1>2, <1>7 DEF Submit, CancelProcess, CancelRecord, MarkCancelled, docker, Types
<1>8. CASE Environment(j) /\ ~DockerKill(j)
  BY <1>1, <1>2, <1>8 DEF Environment, ProcessExits, ContainerStarts, ContainerExits, docker
<1>9. CASE Abandoned(j)
  <2>1. task[j] \notin {"done", "abandoned"} /\ task'[j] = "abandoned" /\ canceller' = canceller
    BY <1>9 DEF Abandoned, Types
  <2>2. \E n \in 0..1 : kills'[j] = kills[j] + n
    <3>1. CASE kills' = kills
      BY <1>1, <3>1
    <3>2. CASE KillRequested(j)
      BY <1>1, <3>2 DEF KillRequested
    <3> QED BY <1>9, <3>1, <3>2 DEF Abandoned, docker
  <2> QED BY <1>1, <2>1, <2>2 DEF KillsOnce
<1> QED BY <1>3, <1>4, <1>5, <1>6, <1>7, <1>8, <1>9 DEF JobAction

LEMMA KillsInvariant == Spec => []KillsInv
<1>1. Init => KillsInv
  BY DEF Init, KillsInv, KillsOnce
<1>2. Types /\ KillsInv /\ [Next]_vars => KillsInv'
  <2> SUFFICES ASSUME Types, KillsInv, [Next]_vars PROVE KillsInv'
    OBVIOUS
  <2>1. ASSUME NEW j \in Jobs, JobAction(j) PROVE KillsInv'
    <3>1. KillsOnce(j)'
      BY <2>1, OwnKills DEF KillsInv
    <3>2. ASSUME NEW k \in Jobs \ {j} PROVE KillsOnce(k)'
      BY <2>1, <3>2, OtherKills, OtherJobs DEF KillsInv, KillsOnce, SameJob
    <3>3. backend' = backend
      BY <2>1 DEF JobAction, Submit, Abandoned, TaskStep, Begin, Blocked, Spawned, SpawnFails,
         Collect, CollectFails, Timeout, Reaped, KillSent, CancelProcess, CancelRecord,
         CancelEnds, Environment, ProcessExits, ContainerStarts, ContainerExits, DockerKill
    <3> QED BY <3>1, <3>2, <3>3 DEF KillsInv
  <2>2. CASE UNCHANGED vars
    BY <2>2 DEF vars, docker, KillsInv, KillsOnce
  <2> QED BY <2>1, <2>2 DEF Next, JobAction
<1> QED BY <1>1, <1>2, BackendInvariant, PTL DEF Spec

\* All variables keep their types: no job is ever waited on by more than two
\* `docker kill` processes, that of its task and that of its cancel().
THEOREM TypesHold == Spec => []TypeOK
<1>1. Types /\ KillsInv => TypeOK
  <2> SUFFICES ASSUME Types, KillsInv PROVE TypeOK
    OBVIOUS
  <2>1. ASSUME NEW j \in Jobs PROVE kills[j] \in 0..2
    BY DEF Types, KillsInv, KillsOnce
  <2> QED BY <2>1 DEF Types, KillsInv, TypeOK
<1> QED BY <1>1, BackendInvariant, KillsInvariant, PTL
=============================================================================
