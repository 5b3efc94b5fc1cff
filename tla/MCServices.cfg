CONSTANTS
    LockUsers = {u1, u2, u3}
    LockPaths = {1, 2}
    MaxNesting = 2
    PoolUsers = {u1, u2, u3}
    PoolSize = 2
    MaxConnections = 4
    Openers = {o1, o2}
    Tables = {1, 2, 3}
    SessionsTable = 2
    NewColumns = {1, 2}
    MaxCalls = 3
    MaxFailures = 2
    AgentSockets = {s1, s2}
    AgentSessionIds = {"i1", "i2"}
    Accounts = {a1}
    SessionIds = {s1, s2, s3}
    SessionTTL = 1
    RateWindow = 2
    RateLimit = 2
    MaxTime = 4
    MaxCommands = 2
    AllowedShells = {"bash", "zsh"}
    InstalledShells = {"bash"}
    DefaultShell = "bash"
    PtyEnabled = TRUE
    Projects = {p1, p2}
    MaxContainers = 2
    TermUsers = {u1, u2}
    TermProjects = {p1, p2}
    TermIds = {t1, t2, t3}
    UserLimit = 2
    ProjectLimit = 1
    DetachedTimeout = 1
    MaxIdle = 2
    Platforms = {"p1", "p2"}
    GatewayCallers = {c1, c2}
    MaxHandlers = 3
    MaxGatewayCalls = 2
    CacheKeys = {"k1", "k2", "k3"}
    CacheTTL = 1
    MaxEntries = 2
    CacheCallers = {c1, c2}
    MaxCacheTime = 2
    MaxStores = 3
    Governed = {g1, g2}
    Operations = {"o1", "o2"}
    Requests = {r1}
    MaxCallsPerRun = 2
    MaxActs = 4
    MaxRestarts = 2
    RouteUsers = {r1}
    TaskLengths = {4000}
    ContextLengths = {0, 100000, 300000}
    Budgets = {0, 100000, 1000000}
    LoopTurns = 2
    LoopAttempts = 2
    Providers <- LoopProviders
    MaxToolCalls = 2
    MaxGoals = 2
    Engines = {e1, e2}
    MaxVersions = 3
    MaxFileCrashes = 1
    ToolNames = {"t1", "t2"}
    ToolUsers = {u1, u2}
    PerMinute = 2
    MaxUses = 4
    MaxToolTime = 2
    MaxToolFaults = 1
    Subscribers = {"h1", "h2", "h3"}
    MaxNested = 2
    MaxChanges = 3
    Ledgers = {l1, l2}
    Evidence = {e1, e2}
    Managers = {m1, m2}
    KeyProviders = {"p1", "p2"}
    MaxKeys = 2
    FilePaths <- PathsOfProject
    Servers = {s1, s2}
    MaxContents = 2
    MemoryKeys = {"k1", "k2", "k3"}
    MaxItems = 2
    Skills = {"s1", "s2"}
    MaxSkillRuns = 2
    UserModels = {"m1", "m2"}
    MaxInteractions = 3
    TailCount = 2
    MaxTalk = 5
    MessageSizes = {1, 3}
    StoreUsers = {"u1", "u2"}
    FactIds = {"f1"}
    MaxFactOps = 6
    ChatSessions = {"s1", "s2"}
    MaxMessages = 3
    MaxBusy = 2
    Claims <- ClaimsCompared
    MaxClaims = 3
    Registries = {"r1", "r2"}
    SkillIds = {"s1", "s2"}
    MaxSkillEdits = 4
    MaxSources = 3
    MaxEvaluations = 3
    MaxUsages = 4
    Outcomes <- OutcomesOfSteps
    Weightings <- WeightingsUsed
    MaxHistory = 5
    MaxIterations = 7
    ApiClients = {"c1", "c2"}
    ModelProviders = {"anthropic", "custom", "bogus"}
    UsableProviders = {"custom"}
    DefaultProvider = "anthropic"
    MaxApiCalls = 3
    MaxTokens = 1
    KeywordCounts = {0, 1, 2, 4}
    SignCounts = {0, 2, 3}
    Threshold = 2
    Files <- FilesCompared
SPECIFICATION MCSpec
CHECK_DEADLOCK FALSE
INVARIANTS
    TypeOK
    StorageIsSound
    SessionsAreSound
    ExecutionsAreSound
    DecisionsAreSound
    CachesAreSound
    LearningIsSound
