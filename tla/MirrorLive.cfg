SPECIFICATION FairSpec
CONSTANTS
    c1 = c1
    c2 = c2
    JobThread = JobThread
    NoOne = NoOne
    Client = {c1, c2}
    MaxJobId = 2
    Faults = FALSE
CHECK_DEADLOCK FALSE
INVARIANTS
    StagingIsOwned
PROPERTIES
    NobodyWaitsForEver
