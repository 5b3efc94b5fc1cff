\* Limits of two or three units: each is hit first in some behaviour.
CONSTANTS
    MaxHistory = 2
    MaxStrategies = 0
    MaxTokens = 3
    MaxTime = 5
    MaxToolCalls = 3
    MaxModelCalls = 3
    Usage = {0, 1, 2}
    MaxAttempts = 2
    Fallbacks = 1
    MaxCalls = 2
    MaxDelay = 2
    TurnLimits = {2, 4}
    Levels = {"none", "moderate"}
    MaxRuns = 2
SPECIFICATION MCSpec
CHECK_DEADLOCK FALSE
INVARIANT VerificationFailureFails
