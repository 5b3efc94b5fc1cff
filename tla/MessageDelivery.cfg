CONSTANTS
    Subs = {s1}
    Wild = {}
    Requesters = {r1}
    NoRequest = NoRequest
    MaxMessages = 3
    MaxStops = 0
    Agents = {a1}
    None = None
    MaxJoins = 0
    MaxCleanups = 0
    Tasks = {"a"}
    MaxEdits = 0
    Duration <- MCDuration
    ContextKeys = {k1}
    Contexts = {c1}
    MaxStamps = 0
    GraphTasks = {1}
    UnknownTask = 0
    MaxConcurrent = 1
    CrewAgents = {a1}
    CrewTasks = {t1}
    MaxCalls = 0
SPECIFICATION Spec
CHECK_DEADLOCK FALSE
PROPERTY AtLeastOnce
