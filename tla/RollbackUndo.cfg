\* Every content can be read: the order of the steps alone is in question.
CONSTANTS
    Tools = {"read_file"}
    Denylist = {}
    Allowlist = {}
    RiskOf <- MCRiskOf
    Risks = {}
    Threshold = 2
    Callers = {c1}
    MaxCalls = 1
    Files = {f1}
    Dir = {}
    Versions = {1, 2}
    Unreadable = {}
    MaxSteps = 2
    MaxWrites = 2
    MaxRuns = 1
    MaxCrashes = 0
SPECIFICATION Spec
CHECK_DEADLOCK FALSE
INVARIANT UndoIsComplete
