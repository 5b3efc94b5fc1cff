CONSTANTS
    Jobs = {j1}
    Backends = {"fake"}
SPECIFICATION Spec
CHECK_DEADLOCK FALSE
INVARIANT CancelledStays
