CONSTANTS
    Tools = {"terminal"}
    Denylist = {}
    Allowlist = {}
    RiskOf <- MCRiskOf
    Risks = {}
    Threshold = 2
    Callers = {c1}
    MaxCalls = 2
    Files = {f1}
    Dir = {}
    Versions = {1}
    Unreadable = {}
    MaxSteps = 0
    MaxWrites = 0
    MaxRuns = 0
    MaxCrashes = 0
SPECIFICATION Spec
CHECK_DEADLOCK FALSE
PROPERTY ApprovalIsHonoured
