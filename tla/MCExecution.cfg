\* Two jobs on each backend; one process may end in every way.
CONSTANTS
    Jobs = {j1, j2}
    Backends = {"local", "fake", "container"}
SPECIFICATION Spec
CHECK_DEADLOCK FALSE
INVARIANTS
    TypeOK
    EverythingReleased
    SuccessIsReal
PROPERTIES
    ResultIsFinal
    NothingHangs
