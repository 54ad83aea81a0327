SPECIFICATION Spec
CONSTANTS
    w1 = w1
    w2 = w2
    u1 = u1
    NULL = NULL
    Worker = {w1, w2}
    Url = {u1}
    GitHub = {u1}
    Account = {}
    MaxRepoId = 1
    MaxJobId = 3
    Retained = 3
    CatchLimit = 2
    ApiLimit = 2
    DbFaults = FALSE
    Requested = {"clone", "fetch", "health", "metadata"}
    BulkKind = {"fetch", "health"}
SYMMETRY WorkerSymmetry
CHECK_DEADLOCK FALSE
INVARIANTS
    ClonedIsDescribed
