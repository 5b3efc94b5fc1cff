----------------------------- MODULE MCServices -----------------------------
(***************************************************************************)
(* The services around the runtime, each on its own: they share no state,  *)
(* so part says whose behaviour this is and the others stay as they began. *)
(***************************************************************************)
EXTENDS Storage, Filesystem, ToolCatalog, Credentials, AgentSessions, ApiServer,
        Terminals, MessagingGateway, DockerSandbox, AgentLoop, Governance, Caches,
        LocalMemory, MemoryStores, SkillLibrary, Planning, EventsAndEvidence

LoopProviders == <<"other", "custom", "custom">>
PathsOfProject == {<<"a">>, <<"b">>, <<"a", "b">>}
ClaimsCompared == {[subject |-> "s", negates |-> {}, sure |-> TRUE, prefix |-> "p"],
                   [subject |-> "s", negates |-> {"not"}, sure |-> TRUE, prefix |-> "q"],
                   [subject |-> "s", negates |-> {"never"}, sure |-> FALSE, prefix |-> "p"]}
OutcomesOfSteps == {[action |-> "edit", bad |-> TRUE, delta |-> -1],
                    [action |-> "edit", bad |-> FALSE, delta |-> 1],
                    [action |-> "run", bad |-> TRUE, delta |-> 0],
                    [action |-> "read", bad |-> FALSE, delta |-> 1]}
Weighted(c, e, st, sa) == [correctness |-> c, efficiency |-> e, style |-> st, safety |-> sa]
WeightingsUsed == {Weighted(40, 25, 15, 20), Weighted(10, 30, 20, 40),
                   Weighted(40, 0, 0, 60), Weighted(50, 50, 20, 0)}

Definitions(owners) == {[name |-> "f", owner |-> o, async |-> a, typed |-> t, body |-> b] :
                         o \in owners, a, t \in BOOLEAN, b \in {1, 2}}
FilesCompared ==
    {<<>>} \cup {<<d>> : d \in Definitions({"module", "C"})}
           \cup {<<d, e>> : d \in Definitions({"module"}), e \in Definitions({"module", "C"})}

VARIABLE part

storageParts == <<lockVars, poolVars, storageVars, fileVars, filesVars, catalogVars, keyVars>>
sessionParts == <<agentVars, authVars, termVars, gatewayVars, apiVars>>
executionParts == <<ptyVars, sandboxVars, loopVars, busVars, evidenceVars>>
decisionParts == <<governanceVars, routingVars, cacheVars>>
learningParts == <<memoryVars, trimVars, storeVars, skillLibraryVars, planningVars, judgementVars>>
allVars == <<storageParts, sessionParts, executionParts, decisionParts, learningParts>>

Parts == {"locks", "pool", "schema", "recovery", "files", "project", "catalog", "executor", "keys",
          "agents", "rates", "accounts", "terminals", "gateway", "api",
          "pty", "sandbox", "loop", "events", "evidence",
          "tools", "tracker", "approvals", "commands", "routing", "caches",
          "working", "skill", "user", "trim", "facts", "projects", "chats", "conflicts",
          "registry", "loader", "evaluator", "curator", "progress", "plan", "rating", "strategy", "diff"}

(* Where a module has several initial states, its own part alone takes them. *)
MCInit ==
    /\ part \in Parts
    /\ LocksInit /\ PoolInit /\ SafeFilesInit /\ FilesInit /\ CatalogInit /\ KeysInit
    /\ StorageInit /\ (part # "schema" => tables = {})
    /\ AgentSessionsInit /\ AuthInit /\ TerminalInit /\ GatewayInit /\ ApiInit
    /\ PtyInit /\ SandboxInit /\ EvidenceInit
    /\ BusInit /\ (part # "events" => handlers = <<>>)
    /\ LoopInit /\ (part # "loop" => ~parallel /\ ~remembers)
    /\ GovernanceInit /\ RoutingInit
    /\ CachesInit /\ (part # "caches" => backend = "memory")
    /\ MemoryInit /\ (part # "skill" => hasDir)
    /\ TrimInit /\ (part # "trim" => room = 3)
    /\ StoresInit /\ SkillLibraryInit /\ PlanningInit /\ JudgementInit

StorageStep ==
    \/ part = "locks" /\ LocksNext
       /\ UNCHANGED <<poolVars, storageVars, fileVars, filesVars, catalogVars, keyVars>>
    \/ part = "pool" /\ PoolNext
       /\ UNCHANGED <<lockVars, storageVars, fileVars, filesVars, catalogVars, keyVars>>
    \/ part = "schema" /\ SchemaNext
       /\ UNCHANGED <<lockVars, poolVars, fileVars, filesVars, catalogVars, keyVars>>
    \/ part = "recovery" /\ RecoveryNext
       /\ UNCHANGED <<lockVars, poolVars, fileVars, filesVars, catalogVars, keyVars>>
    \/ part = "files" /\ SafeFilesNext
       /\ UNCHANGED <<lockVars, poolVars, storageVars, filesVars, catalogVars, keyVars>>
    \/ part = "project" /\ FilesNext
       /\ UNCHANGED <<lockVars, poolVars, storageVars, fileVars, catalogVars, keyVars>>
    \/ part = "catalog" /\ RegistryStep
       /\ UNCHANGED <<lockVars, poolVars, storageVars, fileVars, filesVars, keyVars>>
    \/ part = "executor" /\ ExecutorStep
       /\ UNCHANGED <<lockVars, poolVars, storageVars, fileVars, filesVars, keyVars>>
    \/ part = "keys" /\ KeysNext
       /\ UNCHANGED <<lockVars, poolVars, storageVars, fileVars, filesVars, catalogVars>>

SessionStep ==
    \/ part = "agents" /\ AgentSessionsNext
       /\ UNCHANGED <<authVars, termVars, gatewayVars, apiVars>>
    \/ part = "rates" /\ RateNext
       /\ UNCHANGED <<agentVars, termVars, gatewayVars, apiVars>>
    \/ part = "accounts" /\ AccountsNext
       /\ UNCHANGED <<agentVars, termVars, gatewayVars, apiVars>>
    \/ part = "terminals" /\ TerminalNext
       /\ UNCHANGED <<agentVars, authVars, gatewayVars, apiVars>>
    \/ part = "gateway" /\ GatewayNext
       /\ UNCHANGED <<agentVars, authVars, termVars, apiVars>>
    \/ part = "api" /\ ApiNext
       /\ UNCHANGED <<agentVars, authVars, termVars, gatewayVars>>

ExecutionStep ==
    \/ part = "pty" /\ PtyNext
       /\ UNCHANGED <<sandboxVars, loopVars, busVars, evidenceVars>>
    \/ part = "sandbox" /\ SandboxNext
       /\ UNCHANGED <<ptyVars, loopVars, busVars, evidenceVars>>
    \/ part = "loop" /\ LoopNext
       /\ UNCHANGED <<ptyVars, sandboxVars, busVars, evidenceVars>>
    \/ part = "events" /\ BusNext
       /\ UNCHANGED <<ptyVars, sandboxVars, loopVars, evidenceVars>>
    \/ part = "evidence" /\ EvidenceNext
       /\ UNCHANGED <<ptyVars, sandboxVars, loopVars, busVars>>

DecisionStep ==
    \/ part = "tools" /\ ToolNext /\ UNCHANGED <<routingVars, cacheVars>>
    \/ part = "tracker" /\ TrackerNext /\ UNCHANGED <<routingVars, cacheVars>>
    \/ part = "approvals" /\ ApprovalNext /\ UNCHANGED <<routingVars, cacheVars>>
    \/ part = "commands" /\ CommandNext /\ UNCHANGED <<routingVars, cacheVars>>
    \/ part = "routing" /\ routed.decision = NoRoute   \* preferences, then one request
       /\ RoutingNext /\ UNCHANGED <<governanceVars, cacheVars>>
    \/ part = "caches" /\ CachesNext /\ UNCHANGED <<governanceVars, routingVars>>

(* The parts of these modules leave the rest of their module alone. *)
LearningStep ==
    \/ /\ \/ part = "working" /\ WorkingNext
          \/ part = "skill" /\ SkillNext
          \/ part = "user" /\ UserNext
       /\ UNCHANGED <<trimVars, storeVars, skillLibraryVars, planningVars, judgementVars>>
    \/ part = "trim" /\ TrimNext
       /\ UNCHANGED <<memoryVars, storeVars, skillLibraryVars, planningVars, judgementVars>>
    \/ /\ \/ part = "facts" /\ FactNext
          \/ part = "projects" /\ ProjectNext
          \/ part = "chats" /\ ChatNext
          \/ part = "conflicts" /\ ConflictNext
       /\ UNCHANGED <<memoryVars, trimVars, skillLibraryVars, planningVars, judgementVars>>
    \/ /\ \/ part = "registry" /\ RegistryNext
          \/ part = "loader" /\ LoaderNext
          \/ part = "evaluator" /\ EvaluatorNext
          \/ part = "curator" /\ CuratorNext
       /\ UNCHANGED <<memoryVars, trimVars, storeVars, planningVars, judgementVars>>
    \/ /\ \/ part = "progress" /\ ProgressNext
          \/ part = "plan" /\ PlanNext
          \/ part = "rating" /\ RatingNext
       /\ UNCHANGED <<memoryVars, trimVars, storeVars, skillLibraryVars, judgementVars>>
    \/ /\ \/ part = "strategy" /\ StrategyNext
          \/ part = "diff" /\ DiffNext
       /\ UNCHANGED <<memoryVars, trimVars, storeVars, skillLibraryVars, planningVars>>

MCNext ==
    /\ \/ StorageStep /\ UNCHANGED <<sessionParts, executionParts, decisionParts, learningParts>>
       \/ SessionStep /\ UNCHANGED <<storageParts, executionParts, decisionParts, learningParts>>
       \/ ExecutionStep /\ UNCHANGED <<storageParts, sessionParts, decisionParts, learningParts>>
       \/ DecisionStep /\ UNCHANGED <<storageParts, sessionParts, executionParts, learningParts>>
       \/ LearningStep /\ UNCHANGED <<storageParts, sessionParts, executionParts, decisionParts>>
    /\ UNCHANGED part

MCSpec == MCInit /\ [][MCNext]_<<part, allVars>>

-----------------------------------------------------------------------------
(* Properties: those of the modules.  Each is looked at in its own part,   *)
(* since its variables never change in another.                             *)

(* Types of all the services; with them the bounds of the pool, the windows,
   the working memory and the other containers (the constructors and limits of
   the mapped modules). *)
TypeOK ==
    /\ part = "locks" => LockTypeOK
    /\ part = "pool" => PoolTypeOK
    /\ part \in {"schema", "recovery"} => StorageTypeOK
    /\ part = "files" => SafeFilesTypeOK
    /\ part = "project" => FilesTypeOK
    /\ part \in {"catalog", "executor"} => CatalogTypeOK
    /\ part = "keys" => KeysTypeOK
    /\ part = "agents" => AgentTypeOK
    /\ part \in {"rates", "accounts"} => AuthTypeOK
    /\ part = "terminals" => TerminalTypeOK
    /\ part = "gateway" => GatewayTypeOK
    /\ part = "api" => ApiTypeOK
    /\ part = "pty" => PtyTypeOK
    /\ part = "sandbox" => SandboxTypeOK
    /\ part = "loop" => LoopTypeOK
    /\ part = "events" => BusTypeOK
    /\ part = "evidence" => EvidenceTypeOK
    /\ part \in {"tools", "tracker", "approvals", "commands"} => GovernanceTypeOK
    /\ part = "routing" => RoutingTypeOK
    /\ part = "caches" => CachesTypeOK
    /\ part \in {"working", "skill", "user"} => MemoryTypeOK
    /\ part = "trim" => TrimTypeOK
    /\ part \in {"facts", "projects", "chats", "conflicts"} => StoresTypeOK
    /\ part \in {"registry", "loader", "evaluator", "curator"} => SkillLibraryTypeOK
    /\ part \in {"progress", "plan", "rating"} => PlanningTypeOK
    /\ part \in {"strategy", "diff"} => JudgementTypeOK

(* What is stored and locked stays whole: whoever is in a with block has its
   lock, connections are neither lost nor lent twice, a schema that was made is
   complete, a run goes on only after calls that ended, and files, the tool
   catalog and the keys are as they were written (storage/, tools/filesystem.py,
   api/files.py, tools/tool_registry.py, api/keys.py). *)
StorageIsSound ==
    /\ part = "locks" => LocksHaveBlocks /\ DeadlocksAreEarned
    /\ part = "pool" => PoolIsWhole
    /\ part = "schema" => SchemaIsComplete
    /\ part = "recovery" => NothingHalfDone
    /\ part = "files" => LatestIsKept /\ TempsAreMoved
    /\ part = "project" => ContentsAreKept
    /\ part = "catalog" => FileFollowsCatalog
    /\ part = "keys" => KeysAreFound

(* Sessions of users, terminals and messaging platforms are what their tables
   say, no agent socket is left open, and routes answer with the model they were
   asked for, the default, or one that another request named (auth/,
   api/agent_sessions.py, web/websocket_terminal.py,
   gateway/messaging_gateway.py, api/server.py). *)
SessionsAreSound ==
    /\ part = "agents" => SocketsAreDropped
    /\ part = "rates" => NoWindowOverflows
    /\ part = "accounts" => OneActiveSession
    /\ part = "terminals" => TerminalLimits
    /\ part = "gateway" => GatewayIsHonest
    /\ part = "api" => RoutesAreServed

(* Results of commands, sandboxes, tools and goals are the results of what ran,
   nothing runs on unseen, and events and evidence reach who asks for them
   (tools/real_terminal.py, tools/executor.py, execution/docker_sandbox.py,
   core/agent.py, core/event_bus.py, core/evidence.py). *)
ExecutionsAreSound ==
    /\ part = "pty" => ExitCodesAreReal
    /\ part = "sandbox" => NoRunawayContainers
    /\ part = "loop" => LoopEndsHonestly
    /\ part = "executor" => RateOverrunByOverlap
    /\ part = "events" => EventsReachAll
    /\ part = "evidence" => EvidenceIsCurrent

(* Decisions hold: limits of calls, duplicates, approvals, the risk of commands
   and the choice of a model (orchestration/tool_policy.py, command_policy.py,
   model_router.py, core/approval.py, core/idempotency.py). *)
DecisionsAreSound ==
    /\ part = "tools" => LimitsOverrunByOverlap
    /\ part = "tracker" => RepeatsAreExcused
    /\ part = "approvals" => ApprovalsAgree
    /\ part = "commands" => AllowedCommandsAreBelow
    /\ part = "routing" => RoutedModelsFit

(* Caches stay within their bound, answer with what was stored last, and open
   one client (cache/, utils/cache.py). *)
CachesAreSound == part = "caches" => CacheIsBounded /\ HitsAreFresh /\ OneRedisClient

(* What is remembered, learned and planned is what happened: counts add up,
   indexes and files follow their tables, what was used last is kept, stalls and
   contradictions are noticed (memory/, skills/, cognition/). *)
LearningIsSound ==
    /\ part = "working" => LastTouchedIsKept
    /\ part = "skill" => SkillFilesAreStored
    /\ part = "user" => ProfilesAddUp
    /\ part = "trim" => TrimmedTalkFits
    /\ part = "facts" => AccessesAreCounted
    /\ part = "projects" => SessionsAreCounted
    /\ part = "chats" => IndexFollowsTable
    /\ part = "conflicts" => ConflictsAreJudged
    /\ part = "registry" => RegistryFileIsLatest
    /\ part = "loader" => RunsWhatWasLoaded
    /\ part = "evaluator" => LedgerIsWhole
    /\ part = "curator" => UsageAddsUp
    /\ part = "progress" => StallsAreSeen
    /\ part = "plan" => PlansAreNotReady
    /\ part = "rating" => RubricsHold
    /\ part = "strategy" => StrategiesFit
    /\ part = "diff" => SafeChangesAreSafe
=============================================================================
