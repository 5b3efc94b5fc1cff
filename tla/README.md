# rann-agent: specification and verification

TLA+ modules that model the state machines, stores and protocols of `rann_agent`, the TLC
configurations that check them on small instances, and theorems proved with TLAPS for every
value of the constants. Source paths below are relative to `src/rann_agent/`.

    tlc -workers 2 -config MCQueue.cfg MCQueue      # check one run
    tlapm QueueProofs.tla                           # check one module's proofs

`PROJECT.json` lists the components, the runs with their properties, a mutated definition
that breaks each property, the source lines behind every definition (`map`), the findings,
the hazards and the theorems. Operators whose comment begins with "Wrong:" are those
mutated forms; no specification uses them.


## 1. The system

rann-agent is an asyncio program: an agent loop that thinks with a language model, calls
tools and verifies the outcome, and around it storage, orchestration of sub-agents,
execution backends, a web terminal, an HTTP API and many stores. Most parts are only wired
together by tests or by their callers, so they are modelled as components with an arbitrary
caller; the compositions the code makes itself are those of the runtime (lifecycle, budget,
verification), of the conversation loop (providers, registry of tools) and of the server
(routes, providers, the shared configuration).

| component | state it keeps | operations | what makes it correct |
|---|---|---|---|
| agent state machine (`core/state.py`) | state, history, a JSON file per run | `transition`, `load`, `clear` | only moves of `VALID_TRANSITIONS`; the file never shows what did not happen |
| lifecycle and events (`core/lifecycle.py`, `core/events.py`) | the machine, the event list, a checkpoint | `run`, `transition_to`, `checkpoint`, `attempt_recovery` | every run ends terminal; its last event names how; only a checkpoint that raises moves the machine without an event |
| runtime agent (`core/runtime.py`) | its lifecycle and budget, a turn counter, a mirrored state, memory and learning | `execute` | budgets bound the run; outcome, lifecycle and learning agree; it ends |
| budget, verification (`core/budget.py`, `core/verification.py`) | a tracker; none | `record_*`, `check_*`; `verify` | limits are checked before they are consumed; a failed required check fails the run |
| agent loop (`core/agent.py`, `core/llm_provider.py`) | the conversation, memory, the executor | `execute`, `stream` | an answer is the model's answer to everything before it; results of tools are not lost |
| event bus, evidence (`core/event_bus.py`, `core/evidence.py`) | subscriptions; records and their file | `publish`, `subscribe`; `record`, `validate`, `invalidate`, `load_all` | an event reaches every subscriber once; stale evidence does not come back |
| job queue (`storage/queue.py`) | a SQLite table shared by processes | `enqueue`, `dequeue`, `heartbeat`, `complete`, `fail`, `cancel`, `cleanup_stale` | one owner per job, finished is final, no job is lost |
| locks, pool, schema, recovery (`storage/`) | lock files, connections, tables, recorded calls | `acquire`, `hold`, `is_locked`; lending and `close_all`; the schema; recovery after a crash | mutual exclusion, no connection lost or lent twice, a run resumes only after calls that ended |
| cron scheduler (`automation/cron_scheduler.py`) | jobs, their status and counters | `add_job`, `pause_job`, `resume_job`, `delete_job`, `start`, `stop` | every run is counted once, due jobs run |
| execution backends (`execution/`) | job objects, `_processes`, workspaces, containers | `submit`, `get_result`, `cancel` | no process outlives its job, honest results |
| docker sandbox (`execution/docker_sandbox.py`) | a table of sandboxes beside the daemon's containers | `create`, `start`, `stop`, `destroy` | a running container belongs to an entry, unless a request about it failed |
| terminals (`tools/real_terminal.py`, `web/websocket_terminal.py`) | a PTY's stream; sessions with limits | `execute`, `read`; attach, detach, close, clean-up | exit codes are those of the command; limits hold |
| permissions (`core/tool_permission.py`) | an audit log, waiting approvals | `check_permission`, `execute_with_permission`, `record_*` | nothing runs that policy or operator forbids |
| governance (`orchestration/tool_policy.py`, `command_policy.py`, `model_router.py`, `core/approval.py`, `core/idempotency.py`) | call counts, approvals, operation keys | pure decisions and their records | a decision is not made on a stale record |
| rollback (`core/rollback_engine.py`) | the current procedure and its file | `record_*`, `execute_rollback`, `load_procedure` | files are restored, the report is right, no step is repeated |
| message bus (`orchestration/message_bus.py`) | a priority queue, subscriptions, waiting requests, dead letters | `publish`, `subscribe`, `request`, `respond`, `start`, `stop` | what is lost takes the loop with it or belongs to a request that has given up; requests end |
| agent registry (`orchestration/agent_registry.py`) | agents, the parent/child tree | `register`, `deregister`, `heartbeat`, the clean-up | the tree is consistent |
| task graph (`orchestration/task_graph.py`) | nodes with dependencies and dependents | `add_task`, `link`, `remove_task`, sort, batches, critical path | both directions agree, plans respect dependencies |
| shared context (`orchestration/shared_context.py`) | versioned keys, a file | `set`, `set_if_version`, `atomic_set`, `touch`, `delete` | a successful compare-and-set overwrites what its caller read |
| coordinator and crew (`orchestration/coordinator.py`, `multi_agent.py`) | running sub-agents, statuses | `execute_parallel`, `execute_graph`, `delegate`, `execute_task` | dependencies are respected, a result covers the tasks that were kept, who can run gets to run |
| sessions and routes (`api/`, `web/`, `auth/`, `gateway/`) | agent sessions and their sockets, active agents, accounts and rates, platforms | open, close, execute, stream, login, expire, connect, send | sockets are dropped and stay listed, limits hold, requests get the provider they name |
| projects, files, keys, tools (`api/files.py`, `tools/filesystem.py`, `api/keys.py`, `tools/tool_registry.py`, `tools/executor.py`) | files written through temporary ones or whole | write, move, delete, save, load, execute | the last whole content is in the file or its backup while engines take turns, counts and windows hold |
| caches (`cache/`, `utils/cache.py`) | entries with expiry, a Redis client | `get`, `set`, `invalidate` | bounded, fresh, one client |
| memory, skills, planning (`memory/`, `skills/`, `learning/`, `planning/`, `cognition/`) | items, tables and indexes, skill files, histories | CRUD, trimming, evaluation, judgement | counts add up, files follow memory, judgements follow their tables |
| the rest | helpers, heuristics, user interface | | see section 7 |

How they interact:

* `RuntimeAgent.execute` owns an `AgentLifecycle` and a `BudgetEngine`; the lifecycle owns an
  `AgentStateMachine` and an event trace. The agent mirrors the machine's state in `_state`.
* Workers share nothing but the SQLite rows of `storage/queue.py`; a statement is atomic, a
  method is not. The same holds of the accounts, the stores of `memory/` and the schema.
* The bus, the backends, the schedulers, sessions and the runtime are coroutines on one event
  loop: they interleave at `await` only. Their shared state is a job object, a dictionary of
  futures, a list of sockets, an audit log.
* Several instances may share a file: the shared context, the skill registry, the API keys,
  the evidence ledger. They read it whole and write it whole.
* The rollback engine shares the file system with everybody.

What is hard: results that come after a cancellation or a time-out; SELECT and UPDATE as two
transactions; a worker that is slow but not dead; files written in place or over a newer one;
budgets and limits that are checked once and consumed many times; a heap of incomparable
entries; a lock awaited by its holder; output whose end can only be guessed; recursion over
graphs anybody may edit. `hazards` in `PROJECT.json` lists each at its line, with the
properties that watch it and, where the code does go wrong, a note of what they excuse.


## 2. Modules

| module | models | state and actions |
|---|---|---|
| `AgentStateMachine` | `core/state.py` | `state`, `history`, `disk`; `transition` appends to the history and then writes the file, where the write may succeed, do nothing (errors are swallowed) or be torn by a crash |
| `AgentLifecycle` | `core/lifecycle.py`, `core/events.py` | extends the machine by `phase`, `events`, `checkpoint`; actions for the entry and the three exits of `run()`, `transition_to`, checkpoints that are recorded or raise on the budget's status, recovery, crash and restart |
| `RunChecks` | `core/budget.py`, `core/verification.py` | operators on the tracker record, the limits and the check results |
| `RuntimeAgent` | `core/runtime.py`, the retries of `core/llm_provider.py` | extends the two; `pc` names the await at which `execute` is suspended, one action for what happens when it returns, raises or is cancelled |
| `JobStore` | (abstract) | what the queue promises: a job is put, taken, put back or closed by whoever took it last |
| `DurableQueue` | `storage/queue.py` | one function of jobs per column; `Select` and `Claim` are the two halves of `dequeue`; a worker holds the `Job` it got and knows nothing else; implements `JobStore` |
| `CronScheduler` | `automation/cron_scheduler.py` | job objects (a deleted or replaced one lives on in its tasks), loops, tasks not yet begun and runs in flight |
| `ExecutionBackend` | `execution/__init__.py`, `execution/fake_container.py` | the job's fields, where its task stands, its process, its container, pending `docker kill`s, the one call of `cancel`, and the deadline of the tool that waits in `submit` (`Abandoned`) |
| `ToolPermission` | `core/tool_permission.py` | the audit log; one action up to the await of the executor, one for each way it ends |
| `RollbackEngine` | `core/rollback_engine.py` | a file system, the procedure in memory and on disk, the step being executed, which may fail part way (`Spoiled`) |
| `MessageBus` | `orchestration/message_bus.py` | the heap as an array of message numbers with `heapq`'s comparisons, the delivery loop, the state of each `request()`, which may time out or be cancelled |
| `AgentRegistry` | `orchestration/agent_registry.py` | the agents, their parents and lists of children, removals that hang, clean-ups scheduled and not yet run |
| `TaskGraph`, `TaskOrder` | `orchestration/task_graph.py` | the tasks, the two kinds of lists and the statuses; the algorithms as functions against reference definitions (acyclicity, longest chain); the depth-first search is the path of its open calls |
| `SharedContext` | `orchestration/shared_context.py` | the entries of each instance and of the file; a value is named by the write that made it |
| `Coordinator` | `orchestration/coordinator.py`, `multi_agent.py` | where each task's coroutine stands, the set it polls, the gather; the crew's statuses and calls |
| `Storage` | `storage/locks.py`, the pool, schema and recovery | lock holders and their blocks; connections in queue, lent, closed; statements of `initialize`; the calls of a run at a crash |
| `Filesystem` | `tools/filesystem.py`, `api/files.py` | a file, its backup and temporaries through each step of a write, each of which may raise; projects and their trees |
| `Credentials` | `auth/`, `api/keys.py` | accounts, sessions, windows of requests; the key file shared by managers |
| `AgentSessions`, `ApiServer` | `api/agent_sessions.py`; `api/server.py` | sessions, and sockets whose handler raises once it has listed them; routes, the shared configuration and active agents |
| `Terminals`, `DockerSandbox` | `tools/real_terminal.py`, `web/websocket_terminal.py`; `execution/docker_sandbox.py` | the PTY's stream as pieces of echoes, outputs and prompts; sessions with limits; the table beside the daemon, which may refuse a request, and the client, which may lose the answer |
| `MessagingGateway` | `gateway/messaging_gateway.py` | platforms, their handlers, calls between awaits |
| `AgentLoop` | `core/agent.py`, `core/llm_provider.py`, `tools/registry.py` | the conversation as who spoke, tool calls side by side or one by one, providers in turn |
| `EventsAndEvidence` | `core/event_bus.py`, `core/evidence.py` | the list a publication walks through while it changes; ledgers over one file |
| `Governance` | policies, router, approvals, idempotency | what is recorded and what callers know of it |
| `Caches`, `ToolCatalog` | `cache/`, `utils/cache.py`; `tools/tool_registry.py`, `tools/executor.py` | entries in order of use, the backend; tools with counts, the window of calls |
| `LocalMemory`, `MemoryStores` | `memory/` | items, skill files, profiles, a conversation to trim; rows, the search index, transactions left open |
| `SkillLibrary`, `Planning` | `skills/`, `learning/skill_curator.py`; `planning/`, `cognition/` | registries over a file, versions loaded, ledgers; histories of iterations, scores, strategies, two versions of a file |
| `MCRuntime`, `MCQueue`, `MCSafety`, `MCOrchestration`, `MCServices` | | instances for TLC; components that share no state are put into one run, a variable `part` choosing which one moves |
| `*Proofs` | | section 6 |

History variables (`claims`, `finisher`, `approved`, `failures`, `handled`, `done`, `base`,
`touched`, `linked`, `lost`, ...) record what properties talk about and no guard reads them.


## 3. Runs

Six runs must pass; six look for a disagreement between the code and a sentence of the
repository, and must find it.

| run | what is checked | what it shows |
|---|---|---|
| `core` | `HistoryIsLegal`, `DiskIsBehind`, `RunEndsHonestly`, `TraceAccounts`; `OverrunIsOneTurn`, `OutcomeAgrees`, `ExecuteReturns` | whatever the body of a run does with its lifecycle, wherever the process crashes and whichever writes fail: the history and the file are paths of the table, and a run left by return or exception ends as its last event says. A budget is overrun by what one turn (with its one retry) consumes and no more; returned result, lifecycle and learning agree; every call of `execute` ends |
| `queue` | `ImplementsJobStore`, `LatestClaimFinishes`, `RunsAddUp`, `WorkGetsDone` | with two workers racing for rows, clean-ups that take a job from a slow worker, and crashes, the table and its workers implement the store of `JobStore`: a late `complete` or `fail` changes nothing. Every job finishes. Two scheduler loops, a job replaced under its id and runs that overlap, fail or hang: the counters add up and a due job is run again |
| `execution` | `EverythingReleased`, `SuccessIsReal`, `ResultIsFinal`, `NothingHangs` | a cancel at any await, a failing spawn, decode or kill, a late `docker kill`, a tool whose deadline cancels the `submit` it waits in: processes and workspaces are released, COMPLETED means exit code 0 (not for the local backend), the task of every job ends unless it is taken away with its tool |
| `safety` | `OnlyPermittedRuns`, `PolicyDenialStays`; `DoneForGood`, `ReportIsRight` | the permission gate with two callers and an operator who changes their mind; the rollback with steps that fail part way, retries, crashes, reloads and foreign writes |
| `orchestration` | `NothingStray`, `NoSilentLoss`, `RequestsEnd`; `TreesAgree`; `EdgesAgree`, `PlansAreSound`; `UpdatesAreNotLost`; `DelegationIsSound`, `WaitersGetOn` | a message that is lost takes the delivery loop with it or belongs to a request that has given up (timed out, cancelled, raised), and requests end all the same; the tree of agents and the lists of the graph stay consistent; every plan over every graph of three tasks is right; a compare-and-set overwrites what its caller read, except across a deletion or expiry; tasks respect what they need, only those beyond `execute_parallel`'s limit are missing from a result, and what polls for ever can never run |
| `services` | `StorageIsSound`, `SessionsAreSound`, `ExecutionsAreSound`, `DecisionsAreSound`, `CachesAreSound`, `LearningIsSound` | 43 parts of the services around the runtime, one at a time: see below |
| `verification_failed` | `VerificationFailureFails` | a run whose verification failed ends COMPLETED |
| `queue_claim` | `ReturnedJobIsClaimed` | `dequeue` returns a job that another worker claimed |
| `cancelled_job` | `CancelledStays` | a job that `cancel()` confirmed is reported COMPLETED, FAILED or TIMEOUT later |
| `rollback_undo` | `UndoIsComplete` | of two snapshots of one file, the later one is what remains |
| `approved_call` | `ApprovalIsHonoured` | a tool above the threshold cannot be run, however often it is approved |
| `message_delivery` | `AtLeastOnce` | three queued messages of one priority lose one and kill the delivery task |

Each passing run also checks the type invariants of its modules (`TypeOK`, the conjunction
over the parts). `CHECK_DEADLOCK FALSE` is set everywhere: runs end, jobs finish and bounds
are used up, after which nothing happens.

The properties of `services` are conjunctions over `part`; each conjunct is stated, with its
exceptions, in its module:

* `StorageIsSound`: with blocks have their lock and circles of waiting are their users' doing
  (`LocksHaveBlocks`, `DeadlocksAreEarned`); connections are neither lost nor lent twice
  (`PoolIsWhole`); a schema built by several processes that may die is complete
  (`SchemaIsComplete`); a run resumes only where its last call ended (`NothingHalfDone`); the
  content a file last held in full is in it or its backup, whatever step raises, until a torn file is
  backed up, a write without a backup has to copy, or engines overlap (`LatestIsKept`, `TempsAreMoved`),
  projects keep every content not written over (`ContentsAreKept`); the tool catalog and the API
  keys are those of their files (`FileFollowsCatalog`, `KeysAreFound`; the keys while managers do not
  overlap and no crash tears their file).
* `SessionsAreSound`: an accepted socket is listed under its session for good and served by nobody
  (`SocketsAreDropped`), rates and session policy (`NoWindowOverflows`, `OneActiveSession`), `TerminalLimits`,
  `GatewayIsHonest`, and which provider serves a request (`RoutesAreServed`).
* `ExecutionsAreSound`: `ExitCodesAreReal`, `NoRunawayContainers`, `LoopEndsHonestly`,
  `RateOverrunByOverlap`, `EventsReachAll`, `EvidenceIsCurrent`.
* `DecisionsAreSound`: `LimitsOverrunByOverlap`, `RepeatsAreExcused`, `ApprovalsAgree`,
  `AllowedCommandsAreBelow`, `RoutedModelsFit`.
* `CachesAreSound`: `CacheIsBounded`, `HitsAreFresh`, `OneRedisClient`.
* `LearningIsSound`: memories (`LastTouchedIsKept`, `SkillFilesAreStored`, `ProfilesAddUp`,
  `TrimmedTalkFits`, `AccessesAreCounted`, `SessionsAreCounted`, `IndexFollowsTable`,
  `ConflictsAreJudged`), skills (`RegistryFileIsLatest`, `RunsWhatWasLoaded`, `LedgerIsWhole`,
  `UsageAddsUp`), planning and judgement (`StallsAreSeen`, `PlansAreNotReady`, `RubricsHold`,
  `StrategiesFit`, `SafeChangesAreSafe`).

### Findings

1. **A failed verification is a completed run** (`core/runtime.py:258`). `_set_state` only
   copies the lifecycle's state into the agent; the result leaves through the normal exit of
   `lifecycle.run()`, which emits RUN_COMPLETED.
2. **Two workers get one job** (`storage/queue.py:126`). The row count of the guarded UPDATE
   is not read. The damage is bounded: `LatestClaimFinishes` shows that only the worker whose
   UPDATE matched can finish the job; the other one works for nothing.
3. **A cancelled job changes its status** (`execution/fake_container.py:156`).
4. **Rollback steps run in recording order** (`core/rollback_engine.py:559`), so a file that
   was recorded twice keeps its intermediate content while the procedure says COMPLETED.
5. **An approval never helps** (`core/tool_permission.py:462`): each execution logs a new
   waiting call, and that one is the one looked at.
6. **Messages of equal priority** (`orchestration/message_bus.py:348`): heap entries are
   compared down to the `Message`, which has no order.

### Other observations

What the models had to follow the code in, and no run states as a finding:

* Core: `create_event` already emits, so lifecycle events that are also passed to `emit` appear
  twice. `check_warnings` reads a key that the time entry lacks, so from 80 % of the time budget
  on a turn raises `KeyError` (it ends the run as an error; the path is in `RuntimeAgent`), and so
  does `checkpoint`, after it has moved the machine to RECOVERING and before it records or emits
  anything (`CheckpointRaises`). A result with an error carries the agent's copy of the state, which
  is older than the lifecycle's FAILED (`RunFails`). The
  state CANCELLED is in the table but nothing moves there. `complete_with_retry` passes `tools=`,
  which only `CustomProvider` accepts; the self-heal branch of `Agent.execute` is unreachable.
  `EventBus.publish` walks the live list, so an unsubscription skips the next handler.
* Sharing: instances of `SharedContext` overwrite each other's file, and so do skill registries
  and key managers that had not loaded what the other saved. `publish` of two entries that
  compare equal raises although the message is queued; `deregister` of an agent with children
  waits for its own lock. Besides its answer only a time-out takes a request off `_pending`, a
  cancellation leaves its id behind; and a message that comes for a request that has given up is taken off the queue and thrown
  away. `execute_parallel` cuts its list at the limit, against its docstring ("one per task",
  line 53); `execute_graph` does not
  use the limit at all, and after a failure leaves its pollers behind. A cancelled call leaves its
  crew agent RUNNING.
* Storage: a copy that raises half way leaves its target torn, and the next operation of
  `FilesystemEngine` backs the torn file up over its last whole copy. The key of the API keys is
  written in place: torn by a crash, it keeps every later manager from opening (`OpenCipherFile`).
  `FileLock` ignores its timeout, and `is_locked` keeps the lock it took. The pool
  swallows what a body raises. Recovery looks at the last call only; its list of files to restore
  is always empty, and `Database` lacks the methods it would call.
* Sessions: `agent_websocket` iterates over the `WebSocket` itself, which raises `TypeError`: no
  message arrives, no agent run is ever created over it, and the closed socket stays listed. The
  endpoint of `websocket_terminal.py` calls `get` on a database row and closes before it starts a
  shell. With its authentication modules present, `api/server.py` cannot be imported (`AuthUser` is
  defined in the `except` branch only): `ApiServer` is the server without them. The default provider
  raises without its API key, hence `DefaultProvider` need not be usable; the route that closes a terminal calls
  methods its manager lacks. Requests that name a provider change the shared `Config` for all
  later ones. Streams keep their agent under the key None. `delete_project` leaves the files,
  `create_file` an empty file after a 413.
* Execution: a PTY command that times out is reported as a success; `execute`
  and `stream_execute` of the sandbox pass `exec_run` a `timeout` it does not take, so nothing is
  executed; a `containers.run` whose answer is lost leaves a container that no entry names, and a
  tool's deadline a container job RUNNING for good; a container that was stopped is not
  removed by `destroy` (the daemon refuses to kill it).
  The executor counts only successes against its windows.
* Tools and decisions: `bulk_register` raises `TypeError`, and `_load` does not read what `_save`
  wrote. `CommandPolicy` classifies privileged commands before production ones and ranks them
  the other way round. `approve` and `reject` change decided requests. `get_cache` reads its
  enabled flag once. `ModelRouter` looks a configured default model up that need not be known.
  `RedisCache.close` forgets its client only after `aclose` returned, and a Redis request that raises
  may have taken effect.
* Memory: the working memory ignores its TTL, and comparing naive and aware times raises;
  `SemanticMemoryStore.search` always raises; procedural averages are lost on reload;
  `UserModel.to_dict` aliases the profile; messages of sessions that do not exist are hidden from
  search, and a commit that was refused may be made by the next call; `trim_context` keeps the
  middle newest first; PREFER_NEWER prefers the memory with the older time: the one that was just compared.
  Contradiction is tested word by word: two denials with different words conflict, and a denial that
  comes first is not noticed.
* Skills and planning: `SkillRegistry` does not load in `__init__`, skill time-outs never apply,
  and `execute_skill` runs the module it loaded first. The planner's plans fail its own gate,
  recovery strategies are stubs, error counts are never reset. An output that misses the goal
  passes (7.2), and so does one with two risks (7.0). "parallel" in a goal overrides a low budget.
  In `semantic_diff` every class in both versions counts as modified, annotated functions always
  have a "changed signature", async and shadowed functions are not seen.


## 4. Bounds, and why they are enough

A bound is a CONSTANT whose comment says "bound", and a guard of the environment's actions,
never of the code's.

* `core`: histories up to 8 transitions over all processes of a run. Every move of the table is
  reached within 8 (only the simple path through all live states has 9); 8 also allow a recovery
  that starts over, and a crash with resumption, in one behaviour. One recovery per process, two
  strategies. Limits of 3 units (5 of time), usage 0..2 per call, two turn limits, two calls of
  `execute`, one fallback provider with two attempts each: each limit is hit first in some
  behaviour, exactly or by overrun. Time is counted in ticks. The theorems remove all of these.
* `queue`: two jobs, two workers, one retry, one lapse and one crash; three parties never share a
  row, since a row has one owner and one late former owner per lapse. Priorities are equal here:
  with one selected row at a time they only permute jobs. One job id of the scheduler with two
  objects (added again), two loops (stopped and started while the old loop sleeps), two runs each:
  two runs suffice for an overlap, two objects for a run that outlives its job.
* `execution`: two jobs per backend (they share `_processes` and nothing else), one cancel per
  job, two pending kills (time-out and cancel).
* `safety`: three log entries of three tools (one ordinary, one above the threshold, one on the
  denylist) and two callers, so that an approval, a denial and an error mark can meet one running
  call; a procedure of two steps, two writes, two executions, one crash: the second execution is
  the retry, the second write the conflicting one.
* `orchestration`: three subscriptions (two with the pattern `*`), one request, three messages and
  one stop. `MessageBus` follows `heapq` for at most three entries, where each sift makes one
  comparison; three entries suffice for a `get()` that compares two, and the theorems about the bus
  are for three, too (`QueueBound` is a definition). Three agents give a chain with
  a parent, a child and a grandchild, four registrations re-register one; three tasks give chains,
  forks, joins, 2- and 3-cycles and unknown dependencies. Two keys and three writes of the shared
  context: a read, a deletion and a write that reuses the version. Two crew agents, two tasks.
* `services`: two or three of each kind of actor, so that two overlap and a third observes; limits
  of one or two, so that they are reached and once overrun; one or two faults of each kind (crash,
  refused commit, failing save), so that a fault can follow a recovery. Three lock users close a
  circle of two with a bystander; `PoolSize` 2 with three users makes one wait; five iterations are
  exactly the window of the stall detector and seven cut the history (limit 5 here) twice; three
  messages of a conversation beside a system prompt and a tail of two need a trim. Two sockets may name
  either of two sessions; of the providers only `custom` is usable, the default is not.


## 5. Fairness

* `RuntimeAgent`: WF of the coroutine's own step. The event loop resumes a task whose await is
  done; the awaits are bounded because the provider and tool calls have time-outs and verification
  runs commands with one. Cancellation and the caller's next `execute` are not fair.
* `DurableQueue`: WF of each worker's work, of time passing for a claimed job whose heartbeats stop
  (`Lapse`) and of `cleanup_stale`. Crashes are not fair. Nothing in the repository calls
  `cleanup_stale`: `EveryJobFinishes` says what a deployment gains that calls it regularly, and
  without that a job whose worker died stays RUNNING. It also relies on `MaxRetries`: the code
  limits neither retries nor resets, and a job that always fails never finishes.
* `CronScheduler`: WF of the loops (they sleep 30 seconds and look) and of the beginning of a task
  that was created; callbacks need not return, and nobody needs to pause or resume.
* `ExecutionBackend`: WF of each job's task (its wait has a time-out, and the local backends reap
  what they killed) and of a waiting `cancel`. Nothing is assumed of processes, of the docker
  daemon or of `docker kill`: `NothingHangs` holds although they may never act. Nor is the
  deadline of a tool fair, so no job needs it in order to end. `proc.kill()` does not raise here: asyncio
  keeps the process of its transport until the pipes are closed.
* `MessageBus`: WF of the request's timer and of its resumption. Nothing is assumed of the delivery
  loop, which may be dead.
* `Coordinator`: WF of a coroutine whose dependencies are met, and of a sub-agent's end (its turns
  are bounded). Nothing makes a doomed task end: it polls, as `WaitersGetOn` says.
* The other modules have no liveness property and no fairness.

`MCRuntime`, `MCQueue` and `MCOrchestration` ask each fairness condition of its own part only.


## 6. Proofs

`tlapm` proves the following for all constants that satisfy the assumptions the modules name
(`QueueAssumption`, `PoolAssumption`, ...): for every bound, hence for every finite behaviour, and
for any set of jobs, workers, tools, callers, files, keys and tasks. The assumptions say that
bounds and limits are numbers, that placeholders ("none", 0) are not names, that the tasks of a
graph and the callers whose overlap is counted are finitely many, that tables, columns and statements are numbered as
the code runs them, that lock paths are numbered, that the agent's history has room for two records
(`RuntimeAssumption`), that an agent may take a turn and a call of a provider an attempt
(`LoopAssumption`), that one version of a file exists (`SafeFilesAssumption`), and that a project's
paths are closed under taking the parent (`FilesAssumption`). TLC evaluates all of them.

Every invariant of a passing run is proved, and so are the action properties and the refinement;
only liveness is left to TLC.

**`RuntimeProofs`**, the lifecycle: `TypeCorrect`, `HistoryAlwaysLegal`, `TerminalAlwaysLast`,
`DiskAlwaysBehind`, `RunsAreHonest`, `ResumesForgetOnly`, `TraceAlwaysAccounts`. `HistoryIsLegal`
says that consecutive records chain and follow the table; alone it is not inductive, because
nothing ties the current state to the last record. The invariant says that history and file are
legal paths to their states. Lemmas about paths (extending, cutting off at a prefix) carry the
arithmetic of sequences, and each action is first reduced to what it does to the history. That
runs end honestly needs, in addition, that every live state except QUEUED may move to FAILED and
that a started run has left QUEUED.

**`RuntimeProofs`**, the agent: `OverrunIsAlwaysOneTurn`, `OutcomeAlwaysAgrees`, `TypesHold`,
`TraceAccountsAlways`, `AgentsRunHonestly`. Overrun and outcome are not inductive: the overrun is
bounded because the check at the top of a turn left room, the outcome agrees because of where the
lifecycle is. `Control` says, for each await, the phase and state of the lifecycle and what is known
by then; `Counted`, what the check leaves for the turn that follows. `AgentsRunHonestly` shows that
`execute` is a body of `run()` like any other: each step of the agent is a step of the lifecycle, or
starts it afresh for the next run (`StartsAgain`), so that what is proved of the
machine holds of the agent's runs (`PartsInv`).

**`QueueProofs`**: `TypeCorrect`, `OnlyLatestClaimFinishes`, `OwnerAlwaysLatest`, `ImplementsStore`,
`RunsAlwaysAddUp`. The invariant `ClaimInv` adds that a pending row names nobody, and that between
SELECT and UPDATE a row never names the worker that selected it. The latter is what excludes a
claim number of 0 for an owner. `ImplementsStore` maps each step of the table to a step of
`JobStore` or to a stutter: a `complete` or `fail` whose guard matches is the latest taker's, and
one whose guard does not match changes no row. For the scheduler the counters are inductive
together with the types of its objects.

**`SafetyProofs`**: for the permission layer `TypeCorrect`, `GateHolds` (`OnlyPermittedRuns`),
`DenialsStay` (`PolicyDenialStays`). `OnlyPermittedRuns` is not inductive because an operator may
deny a call while its tool runs. `GateInv` says why that cannot touch it: a running call was never
a waiting one. That in turn is lemma `OnlyAllowedRuns`, which is finding 5 for all parameters: the
latest waiting call of a tool is the one just logged. It needs that the maximum the code takes
over the log exists, proved from the well-foundedness of strict inclusion (`MaxExists`).
For the rollback engine `DoneStaysDone` (`DoneForGood`) and `ReportAlwaysRight` (`ReportIsRight`).
`RollbackInv` holds of the procedure in memory and of the one on disk: a crash replaces the first
by the second, which may know less, so that a step runs again. A step that fails part
way spoils only what it works on, which is not yet done (`SpoiledOn`). A step that the saved procedure calls done must restore its file once more (`EffectRestores`), a step counts as done at most once in
each life of the process (`RanOnce`), and nothing is done or saved before the first execution,
which is why recording and earlier writes cannot hurt. The count is the cardinality of the done
steps, carried through each execution. `TypesHold` covers both components.

**`ExecutionBackendProofs`**: `AllReleased` (`EverythingReleased`), `SuccessAlwaysReal`
(`SuccessIsReal`), `ResultsAreFinal` (`ResultIsFinal`), `TypesHold`. They follow from one invariant
per job, `JobInv`, which ties the place of the task to what process, table entry and container can
be there: a container that has not ended has a CLI process that waits for it, so a late `docker kill`
cannot rewrite the exit code of a finished one, and a task reaps only what is dead. The actions on
one job leave the others alone (`OtherJobs`), so each action is examined for its own job only
(`OwnJob`). The types need a bound on the pending kills (`KillsInv`): each job asks for one when its
time is up and one when it is cancelled.

**`OrchestrationProofs`**, one component after the other:

* `TreesAlwaysAgree` (`TreesAgree`, the registry). The tree alone is not inductive: taking an agent
  off a list takes its first mention only, so `ListedOnce` says that no list that still counts has
  two, except for agents that registered twice.
* `EdgesAlwaysAgree` (`EdgesAgree`, the task graph). `EdgesInv` adds that lists name registered tasks
  only, also the lists of tasks that are not registered.
* `PlansAlwaysSound` (`PlansAreSound`, the task graph). Every plan is compared with `Rooted`: among
  any tasks there is one that depends on none of them, which by the longest chain in such a group is
  the same as having no cycle (`ValidIs`). The search of `validate()` keeps its path injective and
  what it has left `Rooted` (`SearchInv`), and each step is a call or a return, of which there are two
  per task (`Moves`). The sort's queue is exactly what waits for nothing unplaced (`Waits`, by
  cardinality of the dependencies left), so it can only run dry early in a graph with a cycle. Along
  the sorted tasks no chain is longer than the distance of its last task (`ChainsAreShort`) and each
  distance is that of some chain (`DistancesAreReached`). Batches grow by one task at least until
  they have all (`BatchesTakeAll`).
* `DelegationAlwaysSound` (`DelegationIsSound`, the coordinator and the crew). What a result lacks was
  cut off by the limit and never started (`CutOff`). A crew agent is freed
  by the call that took it, since a task that is called has an agent, for good (`CallsHaveAgents`).
* `NothingIsStray` (`NothingStray`) and `NothingLostSilently` (`NoSilentLoss`, the bus), for any traffic
  with at most three queued messages (`QueueBound`). `heapq`'s sift is followed through its
  swaps: every swap permutes the array (`Items`, `Once`), whatever the comparisons answer. `OnePlace` says that a message is in the queue,
  in delivery or dead, and once only; `PendingWaits`, which requests may leave their id behind, and
  `OwnAnswer` that a request's own message resolves it, so that handlers are only handed requests that
  have given up.
* `UpdatesAreNeverLost` (`UpdatesAreNotLost`) and `VersionsAlwaysOrder` (the shared context). The
  inductive part is `Ordered`: the entry a reader looked at is still the same write, or a later one
  in version and in value. It holds between deletions, expiries and reloads only, which `lost`
  records; this is what the exception in `UpdatesAreNotLost` is about.
* `TypesHold`, all of them together; stamps of the context are bounded because each write made one
  (`ContextBounded`).

**`ServicesProofs`**, **`StorageProofs`** and **`LearningProofs`** prove the invariants of `MCServices`. A step moves one
group of services and leaves the others alone (`OneGroupMoves`), so each service needs an invariant
that its own steps and stuttering keep; the last section of each module puts them together by `part`.

* `DecisionsHold` (`DecisionsAreSound`). Limits: calls that were begun are recorded or still with
  their caller, so what exceeds the limit is at most the number of other callers (`ToolsInv`, by
  cardinality). Duplicates: an operation that was done and has no excuse is recorded or under way
  (`OperationsKnown`). Routing: whatever `Decision` picks satisfies the request, or is the fallback
  when nothing does (`DecisionFits`).
* `CachesHold` (`CachesAreSound`). The store has the newest result of each key it has
  (`StoreIsNewest`), it stays bounded because an entry is evicted before another comes in, and of
  all who test the client only one can be in the middle of it while none was closed (`OneTester`).
* `SessionsHold` (`SessionsAreSound`). Sockets: a handler's stage says which lists name its
  socket (`SocketFits`). Rates: what was let through within the
  last window is still counted (`RatesInv`). Accounts: whoever is being registered has no session
  yet, unless its login overtook it (`AccountsInv`). Terminals: there are finitely many, so they can
  be counted (`TermsInv`). Gateway: the table has one entry per platform and per handler
  (`TableFits`), which is why a call that awaited finds its own. Routes: the shared configuration
  only ever holds the default or a provider somebody named (`ApiInv`).
* `ExecutionsHold` (`ExecutionsAreSound`). The PTY's stream holds exactly the pieces that the command
  in progress may still read, as long as nothing was read ahead (`OneAtATime` while `~mixed`).
  Containers are numbered as they are born, so a new one is nobody else's, and one that runs without
  an entry is in the history of failed requests (`SandboxInv`). A goal that
  was saved was answered (`LoopInv`). Tool calls that succeeded this minute and those in flight are
  together less than the limit plus the number of users (`ExecutorInv`). A handler that stays
  subscribed has been called exactly if the publication is past its place (`IsCalledInTurn`), however
  the list moves under it. Evidence is inductive as it stands.
* `StorageHold` (`StorageIsSound`). Locks: no path is in two blocks of one process (`LocksInv`);
  then in a circle of waiting each member waits for a path that the next one holds, and if all had
  taken theirs in order the greatest of them could not wait. `PoolIsWhole` counts: the connections of
  the queue and those lent are distinct, none of either is closed, and both together are the size of
  the pool unless a creation failed or `close_all` ran (`PoolInv`). Schema: what lies before the
  statement a process is at exists (`SchemaInv`). Files: every write has a content and so a temporary
  file of its own (`TempsInv`), and while nothing is exposed whoever is about to cut into the file
  has its last whole content in the backup (`TurnsTaken`, `Covered`, one clause for each stage). Projects: directories hold
  what is there, each content is in one file, what a server is about to write is its own, it has one
  file open at most wherever others moved it, and a rename that nobody disturbed still finds its
  destination free (`ProjectInv`); a move of a whole directory needs the algebra of path prefixes
  (`UnderOrder`, `ShiftedUnder`, `MovedIs`). Keys: while one manager at a time changes the file,
  every key in it is encrypted with the one cipher and is the last one saved (`KeysAreLast`), and in
  any case was saved under its name (`KeysWereSaved`).

* `LearningHold` (`LearningIsSound`), the seventeen parts of memory, skills, planning and judgement;
  the memories of one process or user are at the end of `StorageProofs`.
  Working memory: each key is held once, so what is left after taking one out and adding it again at
  the end is as long as before or one longer (`WorkingInv`). Skill files: a file is torn only while it
  is written, or for good when the write was cut off. Profiles: models that share a profile share
  what was heard, and the sum of a longer sequence is that of the shorter one and what was added
  (`SumsUp`). A trimmed conversation is the system prompt and all the messages from some place on; the
  loop that adds messages backwards is followed through a reversed part of the sequence. Search
  index: every view of the rows, the committed ones and the connection's, is indexed as one
  (`ChatsInv`). Conflicts: one on record is about the first earlier memory that the new one differs
  from by a negation word, or that is newer. Stalls: what is kept of a history is its end, the last five of it are the last
  five of all, and the counts are those of all of it (`ProgressInv`). Rubric: a score is the sum of
  four products whose weights add up to one, so an issue more never raises it; the hard part is
  arithmetic. Strategies: the scores are followed from the keywords through the context to the last
  adjustment, and the first of the highest is chosen. Changes: a name that neither file defines
  differently was defined the same last.
* `ServicesTypesHold` (`TypeOK`). What the invariants above leave open of the types are bounds:
  nests of locks, connections created, versions, contents, ciphers, attempts, frames, counts of
  calls (`LockBounds`, ..., `GovernanceBounds`). `BoundsInv` puts them together by `part`, and
  `ServicesInv` carries them along with the invariants they need.

Recursive functions over `0..n`, such as sums and the loops over a list, are reasoned about by least
counterexample (`UpTo`): the least number at which two of them differ, or at which the equation has no
solution yet, cannot exist. This needs no induction principle with an operator as a parameter.

The proofs changed the models in a few places, each time without changing what TLC explores.
A definition that relied on TLC taking the first of two overlapping arms of a CASE (`Provider`) now
has exclusive arms. Who waits for whom (`Blockers`) is the least closed set instead
of a recursion, the order of use in a cache is a number per entry instead of a sequence, and the
counts of a minute are a function of the minute. Sums are taken from the front (`Total`), and an item
is taken out of the working memory by its place (`Place`). The depth-first search of a task graph,
which called itself through a fold, is the path of its open calls, one call or return a step. Three assumptions were missing: with no
turn or no attempt allowed the agent's loop would count past its limit, without a first version a
file has nothing to begin with, and "none" must not name a skill or a user.

Only model-checked: liveness (`ExecuteReturns`, `WorkGetsDone`, `NothingHangs`, `RequestsEnd`,
`WaitersGetOn`), since the prover has neither ENABLED nor fairness.


## 7. What is left out

Inside the modelled components: the text of results, prompts, logs and events; listings, statistics
and search rankings; the cost budget; environment and flags of processes; rollback steps that
nothing records (database, git, environment); recipients of messages and the order of handlers; ids
that collide; password hashing, cookies and tokens. The note of each component in `PROJECT.json` says which of its
operations are not there; a component is called `modelled` only if none that changes state is
missing. External parts (providers, tools, operator, docker daemon, workers, file system, sockets,
Redis, browsers) are environments that may do anything their interface allows.

Components without a module: runtime helpers, browser automation, the remaining memory stores,
tools that wrap git, the web or the interpreter, intelligence and reasoning, security helpers, the
command line, plugins and interfaces, the frontend. They are heuristics over text, wrappers that hold no
state between calls, or user interface; the code states no property of their state that a model
checker could decide.


## 8. What could follow

1. An abstract run (opened once, closed with one outcome) that `AgentLifecycle` and `RuntimeAgent`
   implement, as `DurableQueue` implements `JobStore`; and an abstract connection pool and store of
   files, of which `PoolIsWhole` and `LatestIsKept` state the main part.
2. The HTTP routes of `api/` that only list and report, if they come to keep state.
