\* A bus with one request among ordinary messages, three agents, three tasks,
\* two keys, every dependency relation between three tasks, two crew agents.
CONSTANTS
    Subs = {s1, s2, s3}
    Wild = {s2, s3}
    Requesters = {r1}
    NoRequest = NoRequest
    MaxMessages = 3
    MaxStops = 1
    Agents = {a1, a2, a3}
    None = None
    MaxJoins = 4
    MaxCleanups = 1
    Tasks = {"a", "b", "c"}
    MaxEdits = 5
    Duration <- MCDuration
    ContextKeys = {k1, k2}
    Contexts = {c1}
    MaxStamps = 3
    GraphTasks = {1, 2, 3}
    UnknownTask = 0
    MaxConcurrent = 2
    CrewAgents = {a1, a2}
    CrewTasks = {t1, t2}
    MaxCalls = 2
SPECIFICATION Spec
CHECK_DEADLOCK FALSE
INVARIANTS
    TypeOK
    NothingStray
    TreesAgree
    EdgesAgree
    PlansAreSound
    DelegationIsSound
PROPERTIES
    NoSilentLoss
    RequestsEnd
    UpdatesAreNotLost
    WaitersGetOn
