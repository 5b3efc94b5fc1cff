----------------------------- MODULE QueueProofs -----------------------------
(***************************************************************************)
(* The two ways work is started later.  First the durable queue: the       *)
(* safety of the job table for any number of jobs, workers, retries,       *)
(* lapses and crashes, and its refinement of JobStore.  Then the cron      *)
(* scheduler: the counts of its jobs add up, for any number of jobs,       *)
(* objects, loops and runs; its invariant is inductive with the types,     *)
(* since a step leaves the objects alone or changes one, and what it makes *)
(* of that one satisfies its own equation.                                 *)
(***************************************************************************)
EXTENDS DurableQueue, CronScheduler, FiniteSetTheorems, TLAPS

\* What makes OwnerMadeLatestClaim and LatestClaimFinishes inductive: a row
\* that has not been claimed yet names nobody, one that runs was claimed, and
\* between SELECT and UPDATE the row never names the worker that selected it:
\* its UPDATE cannot fail on a claim of its own.
ClaimInv ==
    /\ \A j \in Jobs :
          /\ status[j] = "running" => owner[j] # None /\ claims[j] > 0
          /\ status[j] \in {"absent", "pending"} => owner[j] = None
          /\ status[j] \in {"completed", "failed"} => finisher[j] = claims[j] /\ claims[j] > 0
    /\ \A j \in Jobs, w \in Workers : Owns(w, j) /\ held[w].job = j => held[w].claim = claims[j]
    /\ \A j \in Jobs, w \in Workers : found[w] = j => owner[j] # w

QueueInv == TypeOK /\ ClaimInv

LEMMA InitHolds == Init => QueueInv
<1> SUFFICES ASSUME Init
             PROVE  QueueInv
  OBVIOUS
<1> USE QueueAssumption DEF Init, NoJob, HeldJob
<1>1. TypeOK
  <2>1. held \in [Workers -> HeldJob] /\ found \in [Workers -> Jobs \cup {None}]
    OBVIOUS
  <2>2. status \in [Jobs -> JobStatus \cup {"absent"}]
    OBVIOUS
  <2> QED BY <2>1, <2>2 DEF TypeOK
<1>2. ClaimInv
  BY DEF ClaimInv, Owns
<1> QED BY <1>1, <1>2 DEF QueueInv

\* The two outcomes of the UPDATE of dequeue.
ClaimEffect(w) ==
    \/ /\ status[found[w]] = "pending"
       /\ status' = [status EXCEPT ![found[w]] = "running"]
       /\ owner' = [owner EXCEPT ![found[w]] = w]
       /\ stale' = [stale EXCEPT ![found[w]] = FALSE]
       /\ claims' = [claims EXCEPT ![found[w]] = claims[found[w]] + 1]
       /\ held' = [held EXCEPT ![w] = [job |-> found[w], claim |-> claims[found[w]] + 1]]
    \/ /\ status[found[w]] # "pending"
       /\ held' = [held EXCEPT ![w] = [job |-> found[w], claim |-> 0]]
       /\ UNCHANGED <<status, owner, stale, claims>>

LEMMA ClaimHasEffect ==
  ASSUME TypeOK, NEW w \in Workers, Claim(w)
  PROVE  /\ found[w] \in Jobs
         /\ ClaimEffect(w)
         /\ found' = [found EXCEPT ![w] = None]
         /\ UNCHANGED <<retries, priority, created, finisher, lapses, crashes>>
<1>1. found[w] \in Jobs
  BY DEF Claim, TypeOK
<1>2. CASE status[found[w]] = "pending"
  BY <1>1, <1>2 DEF Claim, ClaimEffect
<1>3. CASE status[found[w]] # "pending"
  BY <1>1, <1>3 DEF Claim, ClaimEffect
<1> QED BY <1>1, <1>2, <1>3 DEF Claim

LEMMA ClaimType ==
  ASSUME TypeOK, NEW w \in Workers, Claim(w)
  PROVE  TypeOK'
<1> DEFINE j == found[w]
<1>1. /\ j \in Jobs /\ ClaimEffect(w) /\ found' = [found EXCEPT ![w] = None]
      /\ UNCHANGED <<retries, priority, created, finisher, lapses, crashes>>
  BY ClaimHasEffect
<1>2. claims[j] \in Nat /\ 0 \in Nat
  BY <1>1 DEF TypeOK
<1>3. \A n \in Nat : [job |-> j, claim |-> n] \in HeldJob
  BY <1>1 DEF HeldJob
<1> HIDE DEF j
<1>4. held' \in [Workers -> HeldJob]
  BY <1>1, <1>2, <1>3 DEF ClaimEffect, TypeOK, j
<1>5. /\ status' \in [Jobs -> JobStatus \cup {"absent"}]
      /\ found' \in [Workers -> Jobs \cup {None}]
  BY <1>1 DEF ClaimEffect, TypeOK, JobStatus, j
<1>6. claims' \in [Jobs -> Nat]
  <2>1. claims[j] + 1 \in Nat
    BY <1>2
  <2> QED BY <1>1, <2>1 DEF ClaimEffect, TypeOK, j
<1>7. owner' \in [Jobs -> Workers \cup {None}]
  BY <1>1 DEF ClaimEffect, TypeOK, j
<1>8. stale' \in [Jobs -> BOOLEAN]
  <2>1. stale' = [stale EXCEPT ![j] = FALSE] \/ stale' = stale
    BY <1>1 DEF ClaimEffect, j
  <2> QED BY <2>1 DEF TypeOK
<1> QED BY <1>1, <1>4, <1>5, <1>6, <1>7, <1>8 DEF TypeOK

\* Every step keeps the types.
LEMMA TypeStep == TypeOK /\ [Next]_vars => TypeOK'
<1> SUFFICES ASSUME TypeOK, [Next]_vars
             PROVE  TypeOK'
  OBVIOUS
<1> USE QueueAssumption DEF TypeOK, rows, workers, ghosts
<1>0. NoJob \in HeldJob
  BY DEF NoJob, HeldJob
<1>1. ASSUME NEW j \in Jobs, NEW p \in Priorities, Enqueue(j, p)
      PROVE  TypeOK'
  <2>1. Cardinality({k \in Jobs : status[k] # "absent"}) + 1 \in Nat
    <3>1. IsFiniteSet({k \in Jobs : status[k] # "absent"})
      BY FS_Subset
    <3>2. Cardinality({k \in Jobs : status[k] # "absent"}) \in Nat
      BY <3>1, FS_CardinalityType
    <3> QED BY <3>2
  <2>2. p \in Nat
    OBVIOUS
  <2> QED BY <1>1, <2>1, <2>2 DEF Enqueue, JobStatus
<1>2. ASSUME NEW w \in Workers, NEW j \in Jobs, Select(w, j)
      PROVE  TypeOK'
  BY <1>2 DEF Select
<1>3. ASSUME NEW w \in Workers, Claim(w)
      PROVE  TypeOK'
  BY <1>3, ClaimType
<1>4. ASSUME NEW w \in Workers, Heartbeat(w)
      PROVE  TypeOK'
  <2>1. CASE Owns(w, held[w].job)
    BY <1>4, <2>1 DEF Heartbeat
  <2>2. CASE ~Owns(w, held[w].job)
    BY <1>0, <1>4, <2>2 DEF Heartbeat
  <2> QED BY <2>1, <2>2
<1>5. ASSUME NEW w \in Workers, NEW outcome \in {"completed", "failed"}, Finish(w, outcome)
      PROVE  TypeOK'
  <2>1. held[w].claim \in Nat
    BY DEF HeldJob
  <2>2. /\ status' \in [Jobs -> JobStatus \cup {"absent"}]
        /\ finisher' \in [Jobs -> Nat]
    BY <1>5, <2>1 DEF Finish, JobStatus
  <2>3. held' \in [Workers -> HeldJob]
    BY <1>0, <1>5 DEF Finish
  <2> QED BY <1>5, <2>2, <2>3 DEF Finish
<1>6. ASSUME NEW w \in Workers, Retry(w)
      PROVE  TypeOK'
  <2>1. held' \in [Workers -> HeldJob]
    BY <1>0, <1>6 DEF Retry
  <2>2. /\ status' \in [Jobs -> JobStatus \cup {"absent"}]
        /\ owner' \in [Jobs -> Workers \cup {None}]
        /\ retries' \in [Jobs -> Nat]
    BY <1>6 DEF Retry, JobStatus
  <2> QED BY <1>6, <2>1, <2>2 DEF Retry
<1>7. ASSUME NEW j \in Jobs, Cancel(j)
      PROVE  TypeOK'
  BY <1>7 DEF Cancel, JobStatus
<1>8. ASSUME NEW j \in Jobs, Lapse(j)
      PROVE  TypeOK'
  BY <1>8 DEF Lapse
<1>9. CASE CleanupStale
  BY <1>9 DEF CleanupStale, JobStatus
<1>10. ASSUME NEW w \in Workers, Crash(w)
       PROVE  TypeOK'
  BY <1>0, <1>10 DEF Crash
<1>11. CASE UNCHANGED vars
  BY <1>11 DEF vars
<1> QED BY <1>1, <1>2, <1>3, <1>4, <1>5, <1>6, <1>7, <1>8, <1>9, <1>10, <1>11 DEF Next, Work

\* Every step keeps the claims.
LEMMA ClaimStep == QueueInv /\ [Next]_vars => ClaimInv'
<1> SUFFICES ASSUME TypeOK, ClaimInv, [Next]_vars
             PROVE  ClaimInv'
  BY DEF QueueInv
<1> USE QueueAssumption DEF TypeOK, ClaimInv, Owns, rows, workers, ghosts
<1>1. ASSUME NEW j \in Jobs, NEW p \in Priorities, Enqueue(j, p)
      PROVE  ClaimInv'
  BY <1>1 DEF Enqueue
<1>2. ASSUME NEW w \in Workers, NEW j \in Jobs, Select(w, j)
      PROVE  ClaimInv'
  BY <1>2 DEF Select, Pending
<1>3. ASSUME NEW w \in Workers, Claim(w)
      PROVE  ClaimInv'
  <2>1. /\ found[w] \in Jobs /\ ClaimEffect(w) /\ found' = [found EXCEPT ![w] = None]
        /\ UNCHANGED finisher
    BY <1>3, ClaimHasEffect
  <2>2. CASE status[found[w]] = "pending"
    BY <2>1, <2>2 DEF ClaimEffect
  <2>3. CASE status[found[w]] # "pending"
    BY <2>1, <2>3 DEF ClaimEffect
  <2> QED BY <2>2, <2>3
<1>4. ASSUME NEW w \in Workers, Heartbeat(w)
      PROVE  ClaimInv'
  BY <1>4 DEF Heartbeat, NoJob
<1>5. ASSUME NEW w \in Workers, NEW outcome \in {"completed", "failed"}, Finish(w, outcome)
      PROVE  ClaimInv'
  BY <1>5 DEF Finish, NoJob, HeldJob
<1>6. ASSUME NEW w \in Workers, Retry(w)
      PROVE  ClaimInv'
  BY <1>6 DEF Retry, NoJob
<1>7. ASSUME NEW j \in Jobs, Cancel(j)
      PROVE  ClaimInv'
  BY <1>7 DEF Cancel
<1>8. ASSUME NEW j \in Jobs, Lapse(j)
      PROVE  ClaimInv'
  BY <1>8 DEF Lapse
<1>9. CASE CleanupStale
  BY <1>9 DEF CleanupStale
<1>10. ASSUME NEW w \in Workers, Crash(w)
       PROVE  ClaimInv'
  BY <1>10 DEF Crash, NoJob
<1>11. CASE UNCHANGED vars
  BY <1>11 DEF vars
<1> QED BY <1>1, <1>2, <1>3, <1>4, <1>5, <1>6, <1>7, <1>8, <1>9, <1>10, <1>11 DEF Next, Work

THEOREM QueueInvariant == Spec => []QueueInv
<1>1. QueueInv /\ [Next]_vars => QueueInv'
  BY TypeStep, ClaimStep DEF QueueInv
<1> QED BY <1>1, InitHolds, PTL DEF Spec

-----------------------------------------------------------------------------
\* Every row and every Job keep their types.
THEOREM TypeCorrect == Spec => []TypeOK
<1>1. QueueInv => TypeOK
  BY DEF QueueInv
<1> QED BY <1>1, QueueInvariant, PTL

\* Only the worker whose UPDATE claimed the job last decides its outcome.
THEOREM OnlyLatestClaimFinishes == Spec => []LatestClaimFinishes
<1>1. QueueInv => LatestClaimFinishes
  BY DEF QueueInv, ClaimInv, LatestClaimFinishes
<1> QED BY <1>1, QueueInvariant, PTL

\* The worker a running row names made the latest claim on it.
THEOREM OwnerAlwaysLatest == Spec => []OwnerMadeLatestClaim
<1>1. QueueInv => OwnerMadeLatestClaim
  BY DEF QueueInv, ClaimInv, OwnerMadeLatestClaim
<1> QED BY <1>1, QueueInvariant, PTL

\* The table and its workers implement the store in which a job is closed once,
\* by its latest taker.  Each writing call is one step of the store, or none:
\* the UPDATE of a lost claim, a call of a worker that no longer owns the row,
\* selections, heartbeats, lapses and crashes.
THEOREM ImplementsStore == Spec => ImplementsJobStore
<1>1. Init => Store!Init
  BY DEF Init, Store!Init
<1>2. QueueInv /\ [Next]_vars => [Store!Next]_(Store!store)
  <2> SUFFICES ASSUME TypeOK, ClaimInv, [Next]_vars
               PROVE  Store!Next \/ UNCHANGED <<status, claims, finisher>>
    BY DEF QueueInv, Store!store
  <2> USE DEF TypeOK, rows, workers, ghosts, Owns
  <2>1. ASSUME NEW j \in Jobs, NEW p \in Priorities, Enqueue(j, p)
        PROVE  Store!Next
    <3>1. Store!Put(j)
      BY <2>1 DEF Enqueue, Store!Put
    <3> QED BY <3>1 DEF Store!Next
  <2>2. ASSUME NEW w \in Workers, Claim(w)
        PROVE  Store!Next \/ UNCHANGED <<status, claims, finisher>>
    <3>1. found[w] \in Jobs /\ ClaimEffect(w) /\ finisher' = finisher
      BY <2>2, ClaimHasEffect
    <3>2. Store!Take(found[w]) \/ UNCHANGED <<status, claims, finisher>>
      BY <3>1 DEF ClaimEffect, Store!Take
    <3> QED BY <3>1, <3>2 DEF Store!Next
  <2>3. ASSUME NEW w \in Workers, NEW outcome \in {"completed", "failed"}, Finish(w, outcome)
        PROVE  Store!Next \/ UNCHANGED <<status, claims, finisher>>
    <3>1. CASE ~Owns(w, held[w].job)
      BY <2>3, <3>1 DEF Finish
    <3>2. CASE Owns(w, held[w].job) /\ held[w].job \in Jobs
      <4>1. held[w].claim = claims[held[w].job]
        BY <3>2 DEF ClaimInv
      <4>2. Store!Close(held[w].job, outcome)
        BY <2>3, <3>2, <4>1 DEF Finish, Store!Close
      <4> QED BY <3>2, <4>2 DEF Store!Next
    <3>3. CASE held[w].job = None
      BY <2>3, <3>3, QueueAssumption DEF Finish
    <3> QED BY <3>1, <3>2, <3>3 DEF HeldJob
  <2>4. ASSUME NEW w \in Workers, Retry(w)
        PROVE  Store!Next \/ UNCHANGED <<status, claims, finisher>>
    <3>1. CASE ~Owns(w, held[w].job)
      BY <2>4, <3>1 DEF Retry
    <3>2. CASE Owns(w, held[w].job)
      <4>1. Store!PutBack({held[w].job} \cap Jobs)
        BY <2>4, <3>2 DEF Retry, Store!PutBack
      <4> QED BY <4>1 DEF Store!Next
    <3> QED BY <3>1, <3>2
  <2>5. ASSUME NEW j \in Jobs, Cancel(j)
        PROVE  Store!Next
    <3>1. Store!Withdraw(j)
      BY <2>5 DEF Cancel, Store!Withdraw
    <3> QED BY <3>1 DEF Store!Next
  <2>6. CASE CleanupStale
    <3>1. Store!PutBack(StaleJobs)
      BY <2>6 DEF CleanupStale, StaleJobs, Store!PutBack
    <3>2. StaleJobs \in SUBSET Jobs
      BY DEF StaleJobs
    <3> QED BY <3>1, <3>2 DEF Store!Next
  <2>7. ASSUME NEW w \in Workers, NEW j \in Jobs, Select(w, j)
        PROVE  UNCHANGED <<status, claims, finisher>>
    BY <2>7 DEF Select
  <2>8. ASSUME NEW w \in Workers, Heartbeat(w) \/ Crash(w)
        PROVE  UNCHANGED <<status, claims, finisher>>
    BY <2>8 DEF Heartbeat, Crash
  <2>9. ASSUME NEW j \in Jobs, Lapse(j)
        PROVE  UNCHANGED <<status, claims, finisher>>
    BY <2>9 DEF Lapse
  <2>10. CASE UNCHANGED vars
    BY <2>10 DEF vars
  <2> QED BY <2>1, <2>2, <2>3, <2>4, <2>5, <2>6, <2>7, <2>8, <2>9, <2>10 DEF Next, Work
<1> QED BY <1>1, <1>2, QueueInvariant, PTL DEF Spec, ImplementsJobStore, Store!Spec

-----------------------------------------------------------------------------
CronInv == CronTypeOK /\ RunsAddUp

(* The equation for one object: its record and its runs in flight. *)
AddsUp(job, flying) ==
    /\ job.runs = job.success + job.fail + flying
    /\ job.status = "running" => flying > 0

LEMMA JobsAreTyped ==
    /\ NewJob \in CronJob /\ AddsUp(NewJob, 0)
    /\ NoCronJob \in CronJob /\ AddsUp(NoCronJob, 0)
<1>1. NewJob \in CronJob
  BY CronAssumption DEF NewJob, CronJob
<1>2. NoCronJob \in CronJob
  BY <1>1 DEF NoCronJob, CronJob
<1> QED
  BY <1>1, <1>2 DEF AddsUp, NewJob, NoCronJob

LEMMA CronStarts == CronInit => CronInv
<1> SUFFICES ASSUME CronInit PROVE CronInv
  OBVIOUS
<1>1. cronJobs \in [Objects -> CronJob]
  BY JobsAreTyped DEF CronInit
<1>3. 0 \in 0..MaxJobRuns
  BY CronAssumption
<1>4. cronTasks \in [CronIds -> 0..MaxJobRuns] /\ inFlight \in [Objects -> 0..MaxJobRuns]
  BY <1>3 DEF CronInit
<1>5. CronTypeOK
  BY <1>1, <1>4 DEF CronInit, CronTypeOK
<1>2. RunsAddUp
  BY JobsAreTyped DEF CronInit, RunsAddUp, AddsUp
<1> QED
  BY <1>2, <1>5 DEF CronInv

(* A step that gives one object a record and a number of runs that add up. *)
LEMMA OneObject ==
    ASSUME CronInv, NEW o \in Objects, NEW job \in CronJob, NEW flying \in 0..MaxJobRuns,
           AddsUp(job, flying),
           cronJobs' = [cronJobs EXCEPT ![o] = job],
           inFlight' = [inFlight EXCEPT ![o] = flying],
           cronTable' \in [CronIds -> Objects \cup {0}],
           cronTasks' \in [CronIds -> 0..MaxJobRuns],
           UNCHANGED <<cronOn, loops, latest>>
    PROVE  CronInv'
<1>1. CronTypeOK'
  BY DEF CronInv, CronTypeOK
<1>2. RunsAddUp'
  BY DEF CronInv, CronTypeOK, RunsAddUp, AddsUp
<1> QED
  BY <1>1, <1>2 DEF CronInv

(* What the invariant says of one object. *)
LEMMA ObjectFacts ==
    ASSUME CronInv, NEW o \in Objects
    PROVE  /\ cronJobs[o] \in CronJob
           /\ inFlight[o] \in 0..MaxJobRuns
           /\ AddsUp(cronJobs[o], inFlight[o])
           /\ inFlight = [inFlight EXCEPT ![o] = inFlight[o]]
BY DEF CronInv, CronTypeOK, RunsAddUp, AddsUp

LEMMA CronSteps == CronInv /\ [CronNext]_cronVars => CronInv'
<1> SUFFICES ASSUME CronInv, [CronNext]_cronVars PROVE CronInv'
  OBVIOUS
<1> USE CronAssumption
<1>1. ASSUME StartScheduler PROVE CronInv'
  BY <1>1 DEF StartScheduler, CronInv, CronTypeOK, RunsAddUp
<1>2. ASSUME StopScheduler PROVE CronInv'
  BY <1>2 DEF StopScheduler, CronInv, CronTypeOK, RunsAddUp
<1>3. ASSUME NEW l \in Loops, Tick(l) PROVE CronInv'
  <2>1. \A i \in CronIds : WithinBound(i) => cronTasks[i] + 1 \in 0..MaxJobRuns
    <3> SUFFICES ASSUME NEW i \in CronIds, WithinBound(i)
                 PROVE  cronTasks[i] + 1 \in 0..MaxJobRuns
      OBVIOUS
    <3>1. cronTable[i] \in Objects /\ cronTasks[i] \in 0..MaxJobRuns
      BY DEF WithinBound, Listed, CronInv, CronTypeOK
    <3>2. JobOf(i).runs \in 0..MaxJobRuns
      BY <3>1, ObjectFacts DEF JobOf, CronJob
    <3> QED
      BY <3>1, <3>2 DEF WithinBound
  <2>2. cronTasks' \in [CronIds -> 0..MaxJobRuns]
    BY <1>3, <2>1 DEF Tick, CronInv, CronTypeOK
  <2> QED
    BY <1>3, <2>2 DEF Tick, CronInv, CronTypeOK, RunsAddUp
<1>4. ASSUME NEW l \in Loops, WakeLoop(l) PROVE CronInv'
  BY <1>4 DEF WakeLoop, CronInv, CronTypeOK, RunsAddUp
<1>5. ASSUME NEW i \in CronIds, AddJob(i) PROVE CronInv'
  <2> PICK o \in Objects : /\ cronJobs[o] = NoCronJob
                           /\ cronJobs' = [cronJobs EXCEPT ![o] = NewJob]
                           /\ cronTable' = [cronTable EXCEPT ![i] = o]
                           /\ UNCHANGED <<cronTasks, inFlight, cronOn, loops, latest>>
    BY <1>5 DEF AddJob
  <2>1. inFlight[o] = 0
    <3>1. cronJobs[o].runs = 0 /\ cronJobs[o].success = 0 /\ cronJobs[o].fail = 0
      BY DEF NoCronJob, NewJob
    <3> QED
      BY <3>1, ObjectFacts DEF AddsUp
  <2>2. cronTable' \in [CronIds -> Objects \cup {0}] /\ cronTasks' \in [CronIds -> 0..MaxJobRuns]
    BY DEF CronInv, CronTypeOK
  <2>3. 0 \in 0..MaxJobRuns /\ inFlight' = [inFlight EXCEPT ![o] = 0]
    BY <2>1, ObjectFacts
  <2> QED
    BY <2>2, <2>3, OneObject, JobsAreTyped
<1>6. ASSUME NEW i \in CronIds, PauseJob(i) \/ ResumeJob(i) \/ JobFallsDue(i) PROVE CronInv'
  <2> DEFINE o == cronTable[i]
  <2>1. o \in Objects
    BY <1>6 DEF PauseJob, ResumeJob, JobFallsDue, Listed, CronInv, CronTypeOK
  <2>2. PICK job : /\ job \in {[cronJobs[o] EXCEPT !.enabled = FALSE, !.status = "paused"],
                              [cronJobs[o] EXCEPT !.enabled = TRUE, !.status = "scheduled"],
                              [cronJobs[o] EXCEPT !.due = TRUE]}
                   /\ cronJobs' = [cronJobs EXCEPT ![o] = job]
    BY <1>6, <2>1 DEF PauseJob, ResumeJob, JobFallsDue
  <2>3. job \in CronJob /\ AddsUp(job, inFlight[o])
    BY <2>1, <2>2, ObjectFacts DEF CronJob, AddsUp
  <2>4. UNCHANGED <<cronTable, cronTasks, inFlight, cronOn, loops, latest>>
    BY <1>6 DEF PauseJob, ResumeJob, JobFallsDue
  <2>5. cronTable' \in [CronIds -> Objects \cup {0}] /\ cronTasks' \in [CronIds -> 0..MaxJobRuns]
    BY <2>4 DEF CronInv, CronTypeOK
  <2>6. inFlight[o] \in 0..MaxJobRuns /\ inFlight' = [inFlight EXCEPT ![o] = inFlight[o]]
    BY <2>1, <2>4, ObjectFacts
  <2> QED
    BY <2>1, <2>2, <2>3, <2>4, <2>5, <2>6, OneObject
<1>7. ASSUME NEW i \in CronIds, DeleteJob(i) PROVE CronInv'
  BY <1>7 DEF DeleteJob, CronInv, CronTypeOK, RunsAddUp
<1>8. ASSUME NEW i \in CronIds, BeginRun(i) PROVE CronInv'
  <2>1. /\ cronTasks' \in [CronIds -> 0..MaxJobRuns]
        /\ UNCHANGED <<cronTable, cronOn, loops, latest>>
        /\ cronTable' \in [CronIds -> Objects \cup {0}]
    BY <1>8 DEF BeginRun, CronInv, CronTypeOK
  <2>2. CASE Listed(i) /\ JobOf(i).runs < MaxJobRuns
    <3> DEFINE o == cronTable[i]
               job == [cronJobs[o] EXCEPT !.status = "running", !.runs = @ + 1]
    <3>1. o \in Objects
      BY <2>2 DEF Listed, CronInv, CronTypeOK
    <3>2. cronJobs' = [cronJobs EXCEPT ![o] = job]
      BY <1>8, <2>2 DEF BeginRun
    <3>3. inFlight' = [inFlight EXCEPT ![o] = inFlight[o] + 1]
      BY <1>8, <2>2 DEF BeginRun
    <3>4. cronJobs[o].runs < MaxJobRuns
      BY <2>2 DEF JobOf
    <3>5. cronJobs[o] \in CronJob /\ inFlight[o] \in 0..MaxJobRuns /\ AddsUp(cronJobs[o], inFlight[o])
      BY <3>1, ObjectFacts
    <3> HIDE DEF o
    <3>6. job \in CronJob
      <4>1. cronJobs[o].runs + 1 \in 0..MaxJobRuns
        BY <3>4, <3>5 DEF CronJob
      <4> QED
        BY <3>5, <4>1 DEF CronJob
    <3>7. AddsUp(job, inFlight[o] + 1)
      BY <3>5 DEF CronJob, AddsUp
    <3>8. inFlight[o] + 1 \in 0..MaxJobRuns
      BY <3>4, <3>5 DEF CronJob, AddsUp
    <3> HIDE DEF job
    <3> QED
      BY <2>1, <3>1, <3>2, <3>3, <3>6, <3>7, <3>8, OneObject
  <2>3. CASE ~(Listed(i) /\ JobOf(i).runs < MaxJobRuns)
    <3>1. UNCHANGED <<inFlight, cronJobs>>
      BY <1>8, <2>3 DEF BeginRun
    <3> QED
      BY <2>1, <3>1 DEF CronInv, CronTypeOK, RunsAddUp
  <2> QED
    BY <2>2, <2>3
<1>9. ASSUME NEW o \in Objects, RunSucceeds(o) \/ RunFails(o) PROVE CronInv'
  <2> DEFINE won == [cronJobs[o] EXCEPT !.status = "completed", !.success = @ + 1, !.due = FALSE]
             missed == [cronJobs[o] EXCEPT !.status = "failed", !.fail = @ + 1]
  <2>1. \/ cronJobs' = [cronJobs EXCEPT ![o] = won]
        \/ cronJobs' = [cronJobs EXCEPT ![o] = missed]
    BY <1>9 DEF RunSucceeds, RunFails
  <2>2. /\ inFlight[o] > 0
        /\ inFlight' = [inFlight EXCEPT ![o] = inFlight[o] - 1]
        /\ UNCHANGED <<cronTable, cronTasks, cronOn, loops, latest>>
    BY <1>9 DEF RunSucceeds, RunFails
  <2>3. cronJobs[o] \in CronJob /\ inFlight[o] \in 0..MaxJobRuns /\ AddsUp(cronJobs[o], inFlight[o])
    BY ObjectFacts
  <2>4. inFlight[o] - 1 \in 0..MaxJobRuns
    BY <2>2, <2>3
  <2>5. won \in CronJob /\ missed \in CronJob
    <3>1. cronJobs[o].success + 1 \in 0..MaxJobRuns /\ cronJobs[o].fail + 1 \in 0..MaxJobRuns
      BY <2>2, <2>3 DEF CronJob, AddsUp
    <3> QED
      BY <2>3, <3>1 DEF CronJob
  <2>6. AddsUp(won, inFlight[o] - 1) /\ AddsUp(missed, inFlight[o] - 1)
    BY <2>2, <2>3 DEF CronJob, AddsUp
  <2>7. cronTable' \in [CronIds -> Objects \cup {0}] /\ cronTasks' \in [CronIds -> 0..MaxJobRuns]
    BY <2>2 DEF CronInv, CronTypeOK
  <2> HIDE DEF won, missed
  <2> QED
    BY <2>1, <2>2, <2>4, <2>5, <2>6, <2>7, OneObject
<1>10. ASSUME UNCHANGED cronVars PROVE CronInv'
  BY <1>10 DEF cronVars, CronInv, CronTypeOK, RunsAddUp
<1> QED
  BY <1>1, <1>2, <1>3, <1>4, <1>5, <1>6, <1>7, <1>8, <1>9, <1>10 DEF CronNext

(* Runs are counted once each, as what they were, by the object they began
   with (run_job of automation/cron_scheduler.py). *)
THEOREM RunsAlwaysAddUp == CronSpec => []RunsAddUp
<1>1. CronSpec => []CronInv
  BY CronStarts, CronSteps, PTL DEF CronSpec
<1> QED
  BY <1>1, PTL DEF CronInv
=============================================================================
