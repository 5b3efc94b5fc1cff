------------------------------ MODULE MCQueue ------------------------------
(***************************************************************************)
(* The two ways work is started later: the durable queue with two jobs and *)
(* two workers, whose claims race, lapse, are reset and are taken over, and *)
(* the cron scheduler.  They share nothing: part says whose behaviour this  *)
(* is.                                                                      *)
(***************************************************************************)
EXTENDS DurableQueue, CronScheduler

VARIABLE part

MCInit == Init /\ CronInit /\ part \in {"queue", "cron"}

MCNext ==
    \/ part = "queue" /\ Next /\ UNCHANGED <<part, cronVars>>
    \/ part = "cron" /\ CronNext /\ UNCHANGED <<part, vars>>

(* The fairness of both modules, each for its own steps. *)
MCFairness ==
    /\ \A w \in Workers : WF_vars(part = "queue" /\ Work(w))
    /\ \A j \in Jobs : WF_vars(part = "queue" /\ Lapse(j))
    /\ WF_vars(part = "queue" /\ CleanupStale)
    /\ \A l \in Loops : WF_cronVars(part = "cron" /\ (Tick(l) \/ WakeLoop(l)))
    /\ \A i \in CronIds : WF_cronVars(part = "cron" /\ BeginRun(i))

MCSpec == MCInit /\ [][MCNext]_<<part, vars, cronVars>> /\ MCFairness

(* Work that waits gets done: jobs of the queue finish, although workers die
   and claims lapse, and jobs of the scheduler that are due run again,
   although earlier runs hang or fail (queue.py, cron_scheduler.py). *)
WorkGetsDone == EveryJobFinishes /\ DueJobsRun
=============================================================================
