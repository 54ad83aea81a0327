SPECIFICATION Spec
CONSTANTS
    w1 = w1
    w2 = w2
    u1 = u1
    a1 = a1
    NULL = NULL
    Worker = {w1, w2}
    Url = {u1}
    GitHub = {u1}
    Account = {a1}
    MaxRepoId = 2
    MaxJobId = 2
    Retained = 1
    CatchLimit = 2
    ApiLimit = 2
    DbFaults = FALSE
    Requested = {"clone", "fetch", "health", "metadata"}
    BulkKind = {"fetch", "health"}
SYMMETRY WorkerSymmetry
CHECK_DEADLOCK FALSE
INVARIANTS
    Invariant
    RunningHasWorker
PROPERTIES
    ImplementsLifecycle
