---------------------------- MODULE CronScheduler ----------------------------
(***************************************************************************)
(* The scheduler of recurring jobs (automation/cron_scheduler.py): a loop  *)
(* that looks at the table of jobs every 30 seconds and starts a task for  *)
(* each one that is due, while jobs are added, replaced, paused, resumed   *)
(* and deleted, and their callbacks run for as long as they like.  A time  *)
(* is only ever compared with now, so next_run is due or not due.          *)
(***************************************************************************)
EXTENDS Naturals, FiniteSets

CONSTANTS
    CronIds,        \* job_ids
    MaxLoops,       \* bound: scheduler loops at a time, one per start()
    MaxObjects,     \* bound: CronJob objects ever made
    MaxJobRuns      \* bound: runs of one object

ASSUME CronAssumption ==
    MaxLoops \in Nat \ {0} /\ MaxObjects \in Nat /\ MaxJobRuns \in Nat

VARIABLES
    cronTable,  \* the object of each job_id, 0 for none
    cronJobs,   \* the objects made so far
    cronTasks,  \* run_job tasks created for a job_id and not begun
    inFlight,   \* runs of each object that await their callback
    cronOn,     \* running
    loops,      \* each loop: absent, awake or asleep
    latest      \* the loop _task refers to, 0 for none

cronVars == <<cronTable, cronJobs, cronTasks, inFlight, cronOn, loops, latest>>

CronJob == [enabled : BOOLEAN, due : BOOLEAN,
            status : {"none", "scheduled", "running", "completed", "failed", "paused"},
            runs : 0..MaxJobRuns, success : 0..MaxJobRuns, fail : 0..MaxJobRuns]

Objects == 1..MaxObjects
Loops == 1..MaxLoops
NewJob == [enabled |-> TRUE, status |-> "scheduled", due |-> FALSE,
           runs |-> 0, success |-> 0, fail |-> 0]
NoCronJob == [NewJob EXCEPT !.status = "none"]

CronTypeOK ==
    /\ cronTable \in [CronIds -> Objects \cup {0}]
    /\ cronJobs \in [Objects -> CronJob]
    /\ cronTasks \in [CronIds -> 0..MaxJobRuns]
    /\ inFlight \in [Objects -> 0..MaxJobRuns]
    /\ cronOn \in BOOLEAN
    /\ loops \in [Loops -> {"absent", "awake", "asleep"}]
    /\ latest \in Loops \cup {0}

CronInit ==
    /\ cronTable = [i \in CronIds |-> 0]
    /\ cronJobs = [o \in Objects |-> NoCronJob]
    /\ cronTasks = [i \in CronIds |-> 0]
    /\ inFlight = [o \in Objects |-> 0]
    /\ cronOn = FALSE
    /\ loops = [l \in Loops |-> "absent"]
    /\ latest = 0

Listed(i) == cronTable[i] # 0
JobOf(i) == cronJobs[cronTable[i]]

(* add_job: an object of that job_id that runs is replaced, not stopped. *)
AddJob(i) == \E o \in Objects :
    /\ cronJobs[o] = NoCronJob /\ \A q \in 1..(o - 1) : cronJobs[q] # NoCronJob
    /\ cronJobs' = [cronJobs EXCEPT ![o] = NewJob]
    /\ cronTable' = [cronTable EXCEPT ![i] = o]
    /\ UNCHANGED <<cronTasks, inFlight, cronOn, loops, latest>>

PauseJob(i) ==
    /\ Listed(i)
    /\ cronJobs' = [cronJobs EXCEPT ![cronTable[i]].enabled = FALSE,
                                    ![cronTable[i]].status = "paused"]
    /\ UNCHANGED <<cronTable, cronTasks, inFlight, cronOn, loops, latest>>

ResumeJob(i) ==
    /\ Listed(i)
    /\ cronJobs' = [cronJobs EXCEPT ![cronTable[i]].enabled = TRUE,
                                    ![cronTable[i]].status = "scheduled"]
    /\ UNCHANGED <<cronTable, cronTasks, inFlight, cronOn, loops, latest>>

DeleteJob(i) ==
    /\ Listed(i)
    /\ cronTable' = [cronTable EXCEPT ![i] = 0]
    /\ UNCHANGED <<cronJobs, cronTasks, inFlight, cronOn, loops, latest>>

(* next_run passes. *)
JobFallsDue(i) ==
    /\ Listed(i) /\ ~JobOf(i).due
    /\ cronJobs' = [cronJobs EXCEPT ![cronTable[i]].due = TRUE]
    /\ UNCHANGED <<cronTable, cronTasks, inFlight, cronOn, loops, latest>>

(* start: another loop, even if one is there. *)
StartScheduler == \E l \in Loops :
    /\ loops[l] = "absent"
    /\ loops' = [loops EXCEPT ![l] = "awake"]
    /\ cronOn' = TRUE
    /\ latest' = l
    /\ UNCHANGED <<cronTable, cronJobs, cronTasks, inFlight>>

(* stop cancels the latest loop; an older one ends when it wakes. *)
StopScheduler ==
    /\ cronOn' = FALSE
    /\ loops' = [l \in Loops |-> IF l = latest THEN "absent" ELSE loops[l]]
    /\ UNCHANGED <<cronTable, cronJobs, cronTasks, inFlight, latest>>

(* Wrong: a paused job is skipped for good. *)
DueAndFresh(i) == Listed(i) /\ JobOf(i).enabled /\ JobOf(i).due /\ JobOf(i).status = "scheduled"

(* What the loop starts: the job's status is not looked at. *)
Due(i) == Listed(i) /\ JobOf(i).enabled /\ JobOf(i).due

(* The bound on runs leaves out the jobs that have reached it. *)
WithinBound(i) == Listed(i) /\ JobOf(i).runs + cronTasks[i] < MaxJobRuns

(* One round of the loop, which has no await before its sleep. *)
Tick(l) ==
    /\ loops[l] = "awake" /\ cronOn
    /\ cronTasks' = [i \in CronIds |->
          IF Due(i) /\ WithinBound(i) THEN cronTasks[i] + 1 ELSE cronTasks[i]]
    /\ loops' = [loops EXCEPT ![l] = "asleep"]
    /\ UNCHANGED <<cronTable, cronJobs, inFlight, cronOn, latest>>

WakeLoop(l) ==
    /\ loops[l] = "asleep" \/ (loops[l] = "awake" /\ ~cronOn)
    /\ loops' = [loops EXCEPT ![l] = IF cronOn THEN "awake" ELSE "absent"]
    /\ UNCHANGED <<cronTable, cronJobs, cronTasks, inFlight, cronOn, latest>>

(* run_job looks the job_id up again: the job may be gone, paused, or another. *)
BeginRun(i) ==
    /\ cronTasks[i] > 0
    /\ cronTasks' = [cronTasks EXCEPT ![i] = @ - 1]
    /\ IF Listed(i) /\ JobOf(i).runs < MaxJobRuns
       THEN /\ inFlight' = [inFlight EXCEPT ![cronTable[i]] = @ + 1]
            /\ cronJobs' = [cronJobs EXCEPT ![cronTable[i]].status = "running",
                                            ![cronTable[i]].runs = @ + 1]
       ELSE UNCHANGED <<inFlight, cronJobs>>
    /\ UNCHANGED <<cronTable, cronOn, loops, latest>>

(* Wrong: the end of a run is noted in the job its name stands for by then. *)
EndsByName(o) ==
    /\ inFlight[o] > 0
    /\ inFlight' = [inFlight EXCEPT ![o] = @ - 1]
    /\ \E i \in CronIds :
          /\ Listed(i)
          /\ cronJobs' = [cronJobs EXCEPT ![cronTable[i]].success = @ + 1]
    /\ UNCHANGED <<cronTable, cronTasks, cronOn, loops, latest>>

(* The callback returns and next_run is set; or it raises, and next_run stays
   where it is, in the past. *)
RunSucceeds(o) ==
    /\ inFlight[o] > 0
    /\ inFlight' = [inFlight EXCEPT ![o] = @ - 1]
    /\ cronJobs' = [cronJobs EXCEPT ![o].status = "completed", ![o].success = @ + 1,
                                    ![o].due = FALSE]
    /\ UNCHANGED <<cronTable, cronTasks, cronOn, loops, latest>>

RunFails(o) ==
    /\ inFlight[o] > 0
    /\ inFlight' = [inFlight EXCEPT ![o] = @ - 1]
    /\ cronJobs' = [cronJobs EXCEPT ![o].status = "failed", ![o].fail = @ + 1]
    /\ UNCHANGED <<cronTable, cronTasks, cronOn, loops, latest>>

CronNext ==
    \/ StartScheduler \/ StopScheduler
    \/ \E l \in Loops : Tick(l) \/ WakeLoop(l)
    \/ \E i \in CronIds :
          \/ AddJob(i) \/ PauseJob(i) \/ ResumeJob(i) \/ DeleteJob(i)
          \/ JobFallsDue(i) \/ BeginRun(i)
    \/ \E o \in Objects : RunSucceeds(o) \/ RunFails(o)

CronSpec == CronInit /\ [][CronNext]_cronVars

(* The event loop resumes the scheduler loops and begins the tasks; callbacks
   need not return. *)
CronFairness ==
    /\ \A l \in Loops : WF_cronVars(Tick(l)) /\ WF_cronVars(WakeLoop(l))
    /\ \A i \in CronIds : WF_cronVars(BeginRun(i))

-----------------------------------------------------------------------------
(* Properties.                                                             *)

(* Runs that overlap, outlive their job's deletion or end in any order are each
   counted once, as what they were, by the object they began with. *)
RunsAddUp == \A o \in Objects :
    /\ cronJobs[o].runs = cronJobs[o].success + cronJobs[o].fail + inFlight[o]
    /\ cronJobs[o].status = "running" => inFlight[o] > 0

(* While the scheduler is on, a job that stays due and enabled is run again,
   whatever its earlier runs do: failed, hanging and paused ones included. *)
DueJobsRun == \A i \in CronIds :
    LET wants == /\ cronOn /\ Listed(i) /\ WithinBound(i)
                 /\ JobOf(i).enabled /\ JobOf(i).due
    IN  wants ~> (~wants \/ cronTasks[i] > 0)
=============================================================================
