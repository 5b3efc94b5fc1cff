---------------------------- MODULE DurableQueue ----------------------------
(***************************************************************************)
(* storage/queue.py: the SQLite job table and the worker processes that    *)
(* share it.  Every method opens a connection of its own; a statement that *)
(* writes is a transaction by itself, and the SELECT of dequeue is not in  *)
(* the transaction of the UPDATE that follows it.                          *)
(*                                                                         *)
(* Workers are outside src/: each works on one job at a time through the   *)
(* queue's methods, may be slower than stale_seconds, and may die and come *)
(* back under the same worker id.                                          *)
(***************************************************************************)
EXTENDS Integers, FiniteSets

CONSTANTS
    Jobs,           \* job ids
    Workers,        \* worker ids
    None,           \* SQL NULL
    Priorities,     \* values of priority
    MaxRetries,     \* bound: fail(.., retry=True) per job
    MaxLapses,      \* bound: times a heartbeat of a job gets stale
    MaxCrashes      \* bound: worker crashes

ASSUME QueueAssumption ==
    /\ None \notin Workers /\ None \notin Jobs
    /\ IsFiniteSet(Jobs) /\ IsFiniteSet(Workers)
    /\ Priorities \subseteq Nat
    /\ MaxRetries \in Nat /\ MaxLapses \in Nat /\ MaxCrashes \in Nat

VARIABLES
    status,     \* jobs.status, "absent" before the row exists
    owner,      \* jobs.worker_id
    stale,      \* jobs.heartbeat_at < now - stale_seconds
    retries,    \* jobs.retry_count
    priority,   \* jobs.priority
    created,    \* the rank of jobs.created_at
    found,      \* worker -> the row dequeue has selected but not yet claimed
    held,       \* worker -> the Job dequeue gave it, and the claim behind it
    claims,     \* job -> number of UPDATEs that claimed it
    finisher,   \* job -> the claim of the Job that completed or failed it
    lapses,     \* job -> heartbeats that got stale
    crashes     \* worker crashes

rows == <<status, owner, stale, retries, priority, created>>
workers == <<found, held>>
ghosts == <<claims, finisher, lapses, crashes>>
vars == <<rows, workers, ghosts>>

JobStatus == {"pending", "running", "completed", "failed", "cancelled"}
Finished == {"completed", "failed", "cancelled"}

\* A Job a worker works on: claim is the number of the UPDATE that claimed it
\* for this worker, 0 when that UPDATE matched no row.
NoJob == [job |-> None, claim |-> 0]
HeldJob == [job : Jobs \cup {None}, claim : Nat]

Init ==
    /\ status = [j \in Jobs |-> "absent"]
    /\ owner = [j \in Jobs |-> None]
    /\ stale = [j \in Jobs |-> FALSE]
    /\ retries = [j \in Jobs |-> 0]
    /\ priority = [j \in Jobs |-> 0]
    /\ created = [j \in Jobs |-> 0]
    /\ found = [w \in Workers |-> None]
    /\ held = [w \in Workers |-> NoJob]
    /\ claims = [j \in Jobs |-> 0]
    /\ finisher = [j \in Jobs |-> 0]
    /\ lapses = [j \in Jobs |-> 0]
    /\ crashes = 0

\* enqueue(task, priority)
Enqueue(j, p) ==
    /\ status[j] = "absent"
    /\ status' = [status EXCEPT ![j] = "pending"]
    /\ priority' = [priority EXCEPT ![j] = p]
    /\ created' = [created EXCEPT ![j] = Cardinality({k \in Jobs : status[k] # "absent"}) + 1]
    /\ UNCHANGED <<owner, stale, retries, workers, ghosts>>

\* ORDER BY priority DESC, created_at ASC
Before(j, k) ==
    \/ priority[j] > priority[k]
    \/ priority[j] = priority[k] /\ created[j] < created[k]

Pending == {j \in Jobs : status[j] = "pending"}

Idle(w) == found[w] = None /\ held[w] = NoJob

\* dequeue, first half: the row the SELECT returns.
Select(w, j) ==
    /\ Idle(w)
    /\ j \in Pending
    /\ \A k \in Pending \ {j} : Before(j, k)
    /\ found' = [found EXCEPT ![w] = j]
    /\ UNCHANGED <<rows, held, ghosts>>

\* dequeue, second half: the guarded UPDATE.  Whether it matched the row is
\* not looked at: the worker gets the Job as RUNNING in either case.
Claim(w) ==
    /\ found[w] # None
    /\ LET j == found[w]
       IN  IF status[j] = "pending"
           THEN /\ status' = [status EXCEPT ![j] = "running"]
                /\ owner' = [owner EXCEPT ![j] = w]
                /\ stale' = [stale EXCEPT ![j] = FALSE]
                /\ claims' = [claims EXCEPT ![j] = @ + 1]
                /\ held' = [held EXCEPT ![w] = [job |-> j, claim |-> claims[j] + 1]]
           ELSE /\ held' = [held EXCEPT ![w] = [job |-> j, claim |-> 0]]
                /\ UNCHANGED <<status, owner, stale, claims>>
    /\ found' = [found EXCEPT ![w] = None]
    /\ UNCHANGED <<retries, priority, created, finisher, lapses, crashes>>

\* Wrong: one of the two conditions of the WHERE clause is missing.
AnyWorkerOwns(w, j) == status[j] = "running"

EvenFinished(w, j) == owner[j] = w

\* WHERE job_id = ? AND worker_id = ? AND status = 'running'
Owns(w, j) == status[j] = "running" /\ owner[j] = w

\* heartbeat: false tells the worker that the job is no longer its own; it
\* then drops the job.
Heartbeat(w) ==
    /\ held[w] # NoJob
    /\ LET j == held[w].job
       IN  IF Owns(w, j)
           THEN stale' = [stale EXCEPT ![j] = FALSE] /\ UNCHANGED held
           ELSE held' = [held EXCEPT ![w] = NoJob] /\ UNCHANGED stale
    /\ UNCHANGED <<status, owner, retries, priority, created, found, ghosts>>

\* complete and fail without retry: the row is closed if the worker still owns it.
Finish(w, outcome) ==
    /\ held[w] # NoJob
    /\ LET j == held[w].job
       IN  IF Owns(w, j)
           THEN /\ status' = [status EXCEPT ![j] = outcome]
                /\ finisher' = [finisher EXCEPT ![j] = held[w].claim]
           ELSE UNCHANGED <<status, finisher>>
    /\ held' = [held EXCEPT ![w] = NoJob]
    /\ UNCHANGED <<owner, stale, retries, priority, created, found, claims, lapses, crashes>>

\* Wrong: retry_count counts the retries left.
RetryCountsDown(w) ==
    /\ held[w] # NoJob
    /\ LET j == held[w].job
       IN  /\ Owns(w, j)
           /\ status' = [status EXCEPT ![j] = "pending"]
           /\ owner' = [owner EXCEPT ![j] = None]
           /\ retries' = [retries EXCEPT ![j] = @ - 1]
    /\ held' = [held EXCEPT ![w] = NoJob]
    /\ UNCHANGED <<stale, priority, created, found, ghosts>>

\* fail(.., retry=True): the job goes back to the queue, without limit in the code.
Retry(w) ==
    /\ held[w] # NoJob
    /\ LET j == held[w].job
       IN  /\ retries[j] < MaxRetries
           /\ IF Owns(w, j)
              THEN /\ status' = [status EXCEPT ![j] = "pending"]
                   /\ owner' = [owner EXCEPT ![j] = None]
                   /\ retries' = [retries EXCEPT ![j] = @ + 1]
              ELSE UNCHANGED <<status, owner, retries>>
    /\ held' = [held EXCEPT ![w] = NoJob]
    /\ UNCHANGED <<stale, priority, created, found, ghosts>>

\* cancel(job_id), by anyone.
Cancel(j) ==
    /\ status[j] \in {"pending", "running"}
    /\ status' = [status EXCEPT ![j] = "cancelled"]
    /\ UNCHANGED <<owner, stale, retries, priority, created, workers, ghosts>>

\* stale_seconds pass without a heartbeat of the job.
Lapse(j) ==
    /\ status[j] = "running" /\ ~stale[j]
    /\ \/ lapses[j] < MaxLapses
       \/ \A w \in Workers : ~(held[w].job = j /\ owner[j] = w)
    /\ stale' = [stale EXCEPT ![j] = TRUE]
    /\ lapses' = [lapses EXCEPT ![j] = IF @ < MaxLapses THEN @ + 1 ELSE @]
    /\ UNCHANGED <<status, owner, retries, priority, created, workers, claims, finisher, crashes>>

StaleJobs == {j \in Jobs : status[j] = "running" /\ stale[j]}

\* Wrong: the stale job loses its worker and stays running.
CleanupOwnerOnly ==
    /\ StaleJobs # {}
    /\ owner' = [j \in Jobs |-> IF j \in StaleJobs THEN None ELSE owner[j]]
    /\ UNCHANGED <<status, stale, retries, priority, created, workers, ghosts>>

\* cleanup_stale: one UPDATE resets every stale running job.
CleanupStale ==
    /\ StaleJobs # {}
    /\ status' = [j \in Jobs |-> IF j \in StaleJobs THEN "pending" ELSE status[j]]
    /\ owner' = [j \in Jobs |-> IF j \in StaleJobs THEN None ELSE owner[j]]
    /\ UNCHANGED <<stale, retries, priority, created, workers, ghosts>>

\* The worker process dies and comes back; what it worked on is gone.
Crash(w) ==
    /\ crashes < MaxCrashes
    /\ ~Idle(w)
    /\ crashes' = crashes + 1
    /\ found' = [found EXCEPT ![w] = None]
    /\ held' = [held EXCEPT ![w] = NoJob]
    /\ UNCHANGED <<rows, claims, finisher, lapses>>

\* The steps a live worker takes until it has closed its job.
Work(w) ==
    \/ \E j \in Jobs : Select(w, j)
    \/ Claim(w)
    \/ \E outcome \in {"completed", "failed"} : Finish(w, outcome)

Next ==
    \/ \E j \in Jobs, p \in Priorities : Enqueue(j, p)
    \/ \E w \in Workers : Work(w) \/ Heartbeat(w) \/ Retry(w) \/ Crash(w)
    \/ \E j \in Jobs : Cancel(j) \/ Lapse(j)
    \/ CleanupStale

\* Workers go on working, time passes, and somebody calls cleanup_stale.
Fairness ==
    /\ \A w \in Workers : WF_vars(Work(w))
    /\ \A j \in Jobs : WF_vars(Lapse(j))
    /\ WF_vars(CleanupStale)

Spec == Init /\ [][Next]_vars /\ Fairness

-----------------------------------------------------------------------------
TypeOK ==
    /\ status \in [Jobs -> JobStatus \cup {"absent"}]
    /\ owner \in [Jobs -> Workers \cup {None}]
    /\ stale \in [Jobs -> BOOLEAN]
    /\ retries \in [Jobs -> Nat]
    /\ priority \in [Jobs -> Nat]
    /\ created \in [Jobs -> Nat]
    /\ found \in [Workers -> Jobs \cup {None}]
    /\ held \in [Workers -> HeldJob]
    /\ claims \in [Jobs -> Nat]
    /\ finisher \in [Jobs -> Nat]
    /\ lapses \in [Jobs -> Nat]
    /\ crashes \in Nat

\* Only the worker whose UPDATE claimed the job last can close it: neither a
\* worker that got the Job of a claim it lost, nor one whose claim was reset
\* as stale and given to another, ever decides the outcome.
LatestClaimFinishes ==
    \A j \in Jobs : status[j] \in {"completed", "failed"} =>
        finisher[j] = claims[j] /\ claims[j] > 0

\* The worker the row names is the one that made the latest claim, or it has
\* lost the Job; a row that names nobody is not running.
OwnerMadeLatestClaim ==
    \A j \in Jobs :
        /\ status[j] = "running" => owner[j] # None
        /\ status[j] = "pending" => owner[j] = None
        /\ \A w \in Workers :
              Owns(w, j) /\ held[w].job = j => held[w].claim = claims[j]

\* The table and its workers implement a store in which a job is taken, put
\* back, and closed once, by its latest taker: claims lost to another worker,
\* late calls, resets of stale jobs and crashes are invisible in it.
Store == INSTANCE JobStore WITH
             state <- status, takes <- claims, closer <- finisher

ImplementsJobStore == Store!Spec

\* No job is lost: with workers that keep working and stale claims reset,
\* every job is finished in the end, though workers die and claims lapse.
EveryJobFinishes == \A j \in Jobs : status[j] = "pending" ~> status[j] \in Finished

\* "Claim a pending job. Returns Job or None.": a Job that dequeue returns
\* has been claimed for the worker.
ReturnedJobIsClaimed == \A w \in Workers : held[w] # NoJob => held[w].claim > 0

=============================================================================
