SPECIFICATION FairSpec
CONSTANTS
    w1 = w1
    w2 = w2
    u1 = u1
    NULL = NULL
    Worker = {w1, w2}
    Url = {u1}
    GitHub = {u1}
    Account = {}
    MaxRepoId = 1
    MaxJobId = 2
    Retained = 1
    CatchLimit = 1
    ApiLimit = 2
    DbFaults = FALSE
    Requested = {"fetch"}
    BulkKind = {}
CHECK_DEADLOCK FALSE
PROPERTIES
    QueueDrains
    ShutdownCompletes
