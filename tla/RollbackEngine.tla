--------------------------- MODULE RollbackEngine ---------------------------
(***************************************************************************)
(* The rollback engine (core/rollback_engine.py): changes are recorded as  *)
(* steps of the current procedure, execute_rollback runs the steps that    *)
(* are not done yet in the order they were recorded, and the procedure is  *)
(* written to disk when it has run, so that it can be loaded and retried.  *)
(* The file system is shared with everybody else, a step may fail at any   *)
(* time, and a crash may come between two steps.  A file's content is a    *)
(* version number, Absent when there is no file.  The step types that have *)
(* no record_* method (database, git, environment) are left out.           *)
(***************************************************************************)
EXTENDS Naturals, Sequences, FiniteSets

CONSTANTS
    Files,       \* the paths
    Dir,         \* the files below the directory that may be cleaned up
    Versions,    \* the contents a file may have
    Unreadable,  \* the contents read_text cannot decode
    MaxSteps,    \* bound: steps of a procedure
    MaxWrites,   \* bound: writes of the files by the agent and by others
    MaxRuns,     \* bound: calls of execute_rollback
    MaxCrashes   \* bound: crashes of the process

ASSUME RollbackAssumption ==
    /\ Dir \subseteq Files
    /\ Versions \subseteq Nat \ {0}
    /\ Unreadable \subseteq Versions
    /\ {MaxSteps, MaxWrites, MaxRuns, MaxCrashes} \subseteq Nat

Absent == 0
Contents == Versions \cup {Absent}

VARIABLES
    fs,       \* the file system
    proc,     \* _current_procedure, or NoProcedure
    disk,     \* the procedure's file in rollback_dir, or NoProcedure
    at,       \* the step execute_rollback is at, 0 when it is not running
    stopping, \* its stop_on_failure argument
    base,     \* history: the file system when the procedure began
    touched,  \* history: files others wrote once the rollback had begun
    done,     \* history: how often each step succeeded
    writes, runs, crashes

history == <<base, touched, done>>
counters == <<writes, runs, crashes>>
rollbackVars == <<fs, proc, disk, at, stopping, history, counters>>

StepStatus == {"pending", "failed", "completed", "skipped"}
ProcedureStatus == {"pending", "failed", "completed"}

(* A step: "file" restores the snapshot snap of its file (record_file_
   modification) or recreates it (record_file_deletion), "command" runs the
   reverse command if there is one, "cleanup" removes the directory,
   "deployment" is not implemented. *)
Steps ==
    [type : {"restore", "recreate"}, file : Files, snap : Contents]
    \cup [type : {"command"}, reversible : BOOLEAN]
    \cup [type : {"cleanup", "deployment"}]

NoProcedure == [steps |-> <<>>, status |-> <<>>, overall |-> "none",
                completed |-> 0]

IsProcedure(p) ==
    \/ p = NoProcedure
    \/ /\ p.steps \in Seq(Steps)
       /\ Len(p.steps) <= MaxSteps
       /\ p.status \in [1..Len(p.steps) -> StepStatus]
       /\ p.overall \in ProcedureStatus
       /\ p.completed \in 0..MaxSteps

RollbackTypeOK ==
    /\ fs \in [Files -> Contents]
    /\ IsProcedure(proc)
    /\ IsProcedure(disk)
    /\ at \in 0..MaxSteps + 1
    /\ stopping \in BOOLEAN
    /\ base \in [Files -> Contents]
    /\ touched \subseteq Files
    /\ done \in [1..MaxSteps -> Nat]
    /\ writes \in 0..MaxWrites
    /\ runs \in 0..MaxRuns
    /\ crashes \in 0..MaxCrashes

RollbackInit ==
    /\ fs \in [Files -> Contents]
    /\ proc = NoProcedure
    /\ disk = NoProcedure
    /\ at = 0
    /\ stopping = FALSE
    /\ base = fs
    /\ touched = {}
    /\ done = [i \in 1..MaxSteps |-> 0]
    /\ writes = 0
    /\ runs = 0
    /\ crashes = 0

HasProcedure == proc # NoProcedure

-----------------------------------------------------------------------------
(* Recording.                                                              *)

(* begin_procedure; one procedure is followed. *)
BeginProcedure ==
    /\ ~HasProcedure
    /\ disk = NoProcedure
    /\ proc' = [steps |-> <<>>, status |-> <<>>, overall |-> "pending",
                completed |-> 0]
    /\ base' = fs
    /\ UNCHANGED <<fs, disk, at, stopping, touched, done, counters>>

(* add_step: without a current procedure the step is returned and lost.
   Recording ends when the rollback starts, as in the class's usage. *)
AddStep(step) ==
    /\ HasProcedure
    /\ runs = 0
    /\ Len(proc.steps) < MaxSteps
    /\ proc' = [proc EXCEPT !.steps = Append(@, step),
                            !.status = Append(@, "pending")]
    /\ UNCHANGED <<fs, disk, at, stopping, history, counters>>

(* snapshot_file: a file that cannot be read is recorded like one that is
   not there. *)
Snapshot(f) == IF fs[f] \in Unreadable THEN Absent ELSE fs[f]

RecordModification(f) ==
    AddStep([type |-> "restore", file |-> f, snap |-> Snapshot(f)])

(* The caller hands over the content it deleted. *)
RecordDeletion(f) ==
    /\ fs[f] \notin Unreadable \cup {Absent}
    /\ AddStep([type |-> "recreate", file |-> f, snap |-> fs[f]])

RecordOther ==
    \/ \E r \in BOOLEAN : AddStep([type |-> "command", reversible |-> r])
    \/ \E t \in {"cleanup", "deployment"} : AddStep([type |-> t])

(* The agent, or anybody else, writes or removes a file. *)
Write(f) ==
    /\ writes < MaxWrites
    /\ writes' = writes + 1
    /\ \E v \in Contents \ {fs[f]} : fs' = [fs EXCEPT ![f] = v]
    /\ touched' = IF runs > 0 THEN touched \cup {f} ELSE touched
    /\ UNCHANGED <<proc, disk, at, stopping, base, done, runs, crashes>>

-----------------------------------------------------------------------------
(* execute_rollback.                                                       *)

StartRollback(stop) ==
    /\ HasProcedure
    /\ at = 0
    /\ proc.steps # <<>>
    /\ runs < MaxRuns
    /\ runs' = runs + 1
    /\ at' = 1
    /\ stopping' = stop
    /\ UNCHANGED <<fs, proc, disk, history, writes, crashes>>

IsDone(p, i) == p.status[i] \in {"completed", "skipped"}

(* Wrong: RollbackType.FILE_DELETE read as "delete the file again". *)
EffectByName(step) ==
    CASE step.type = "restore" -> [fs EXCEPT ![step.file] = step.snap]
      [] step.type = "recreate" -> [fs EXCEPT ![step.file] = Absent]
      [] step.type = "cleanup" ->
            [f \in Files |-> IF f \in Dir THEN Absent ELSE fs[f]]
      [] OTHER -> fs

(* The file system after the step, and the status a step that works gets:
   a stub or a step with nothing to do is skipped. *)
Effect(step) ==
    CASE step.type \in {"restore", "recreate"} ->
            [fs EXCEPT ![step.file] = step.snap]
      [] step.type = "cleanup" ->
            [f \in Files |-> IF f \in Dir THEN Absent ELSE fs[f]]
      [] OTHER -> fs

(* What a step may leave that fails part way: a write stops in the middle, a
   directory is removed in part. *)
Spoiled(step) ==
    CASE step.type \in {"restore", "recreate"} /\ step.snap # Absent ->
            {fs} \cup {[fs EXCEPT ![step.file] = v] : v \in Versions}
      [] step.type = "cleanup" ->
            {[f \in Files |-> IF f \in gone THEN Absent ELSE fs[f]] : gone \in SUBSET Dir}
      [] OTHER -> {fs}

Outcome(step) ==
    CASE step.type = "deployment" -> "skipped"
      [] step.type = "command" ->
            IF step.reversible THEN "completed" ELSE "skipped"
      [] OTHER -> "completed"

Advance(ok) == IF ~ok /\ stopping THEN Len(proc.steps) + 1 ELSE at + 1

(* A step that is already done is passed over. *)
SkipDone ==
    /\ at \in 1..Len(proc.steps)
    /\ IsDone(proc, at)
    /\ at' = at + 1
    /\ UNCHANGED <<fs, proc, disk, stopping, history, counters>>

(* Wrong: a step that fails is counted too. *)
CountAll(ok) == 1

Counted(ok) == IF ok THEN 1 ELSE 0

(* _execute_step: it works, or fails and may have done a part of it. *)
ExecuteStep ==
    /\ at \in 1..Len(proc.steps)
    /\ ~IsDone(proc, at)
    /\ LET step == proc.steps[at]
       IN \E ok \in (IF Outcome(step) = "skipped" THEN {TRUE} ELSE BOOLEAN) :
          /\ fs' \in IF ok THEN {Effect(step)} ELSE Spoiled(step)
          /\ proc' = [proc EXCEPT
                !.status[at] = IF ok THEN Outcome(step) ELSE "failed",
                !.completed = @ + Counted(ok)]
          /\ done' = [done EXCEPT ![at] = @ + (IF ok THEN 1 ELSE 0)]
          /\ at' = Advance(ok)
    /\ UNCHANGED <<disk, stopping, base, touched, counters>>

(* Wrong: only steps that did not run keep the procedure from being completed. *)
OverallByPending(status) ==
    IF \E i \in DOMAIN status : status[i] = "pending" THEN "failed"
    ELSE "completed"

OverallStatus(status) ==
    IF \E i \in DOMAIN status : status[i] \in {"failed", "pending"}
    THEN "failed" ELSE "completed"

(* The overall status, and the procedure persisted unless that fails. *)
EndRollback ==
    /\ at > Len(proc.steps)
    /\ proc' = [proc EXCEPT !.overall = OverallStatus(proc.status)]
    /\ disk' \in {disk, proc'}
    /\ at' = 0
    /\ UNCHANGED <<fs, stopping, history, counters>>

Crash ==
    /\ HasProcedure
    /\ crashes < MaxCrashes
    /\ crashes' = crashes + 1
    /\ proc' = NoProcedure
    /\ at' = 0
    /\ UNCHANGED <<fs, disk, stopping, history, writes, runs>>

(* load_procedure, whose result is handed to execute_rollback. *)
LoadProcedure ==
    /\ ~HasProcedure
    /\ disk # NoProcedure
    /\ proc' = disk
    /\ UNCHANGED <<fs, disk, at, stopping, history, counters>>

RollbackNext ==
    \/ BeginProcedure
    \/ RecordOther
    \/ \E f \in Files : RecordModification(f) \/ RecordDeletion(f) \/ Write(f)
    \/ \E stop \in BOOLEAN : StartRollback(stop)
    \/ SkipDone \/ ExecuteStep \/ EndRollback
    \/ Crash \/ LoadProcedure

RollbackSpec == RollbackInit /\ [][RollbackNext]_rollbackVars

-----------------------------------------------------------------------------
(* Properties.                                                             *)

(* The steps that write file f. *)
Touching(f) == {i \in 1..Len(proc.steps) :
    \/ /\ proc.steps[i].type \in {"restore", "recreate"}
       /\ proc.steps[i].file = f
    \/ proc.steps[i].type = "cleanup" /\ f \in Dir}

AllDone(p) == \A i \in 1..Len(p.steps) : IsDone(p, i)

(* A step that is done has restored its file for good, however often the
   rollback failed, was stopped, retried or loaded after a crash: if it is
   the only step that covers the file, was recorded when the file was as the
   procedure found it, and nobody else wrote it since the rollback began. *)
RecordedOnceIsRestored == HasProcedure =>
    \A f \in Files \ touched : \A i \in 1..Len(proc.steps) :
        /\ Touching(f) = {i}
        /\ proc.steps[i].type # "cleanup"
        /\ proc.steps[i].snap = base[f]
        /\ IsDone(proc, i)
        => fs[f] = base[f]

(* The report of a rollback is right when it ends: "completed" if and only if
   every step was completed or skipped, in this run or an earlier one, and
   completed_steps counts exactly those steps. *)
ReportIsRight == [][at # 0 /\ at' = 0 /\ proc' # NoProcedure =>
    /\ proc'.overall = "completed" <=> AllDone(proc')
    /\ proc'.completed =
           Cardinality({i \in 1..Len(proc'.steps) : IsDone(proc', i)})
    ]_rollbackVars

(* A step that is done is done for good: its file stays restored, and no retry
   repeats it; only a crash, which loses what was done since the procedure was
   last saved, makes a step run again. *)
DoneForGood ==
    /\ RecordedOnceIsRestored
    /\ \A i \in 1..MaxSteps : done[i] <= 1 + crashes

(* Claim of the repository ("deterministic undo for file operations"): when
   the rollback is completed, every recorded file that nobody else wrote
   since it started is as it was when the procedure began, provided that its
   first record was made before its first change. *)
UndoIsComplete ==
    HasProcedure /\ proc.overall = "completed" /\ AllDone(proc) =>
    \A f \in Files \ (touched \cup Dir) : \A i \in 1..Len(proc.steps) :
        /\ i \in Touching(f)
        /\ \A k \in Touching(f) : i <= k
        /\ proc.steps[i].snap = base[f]
        => fs[f] = base[f]
=============================================================================
