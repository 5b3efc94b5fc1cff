\* Two callers of one shared tool; two files, one of them in the directory.
CONSTANTS
    Tools = {"read_file", "terminal", "patch"}
    Denylist = {"patch"}
    Allowlist = {}
    RiskOf <- MCRiskOf
    Risks = {0, 3}
    Threshold = 2
    Callers = {c1, c2}
    MaxCalls = 3
    Files = {f1, f2}
    Dir = {f2}
    Versions = {1, 2}
    Unreadable = {2}
    MaxSteps = 2
    MaxWrites = 2
    MaxRuns = 2
    MaxCrashes = 1
SPECIFICATION Spec
CHECK_DEADLOCK FALSE
INVARIANTS
    TypeOK
    OnlyPermittedRuns
    DoneForGood
PROPERTIES
    PolicyDenialStays
    ReportIsRight
