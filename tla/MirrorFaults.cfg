SPECIFICATION Spec
CONSTANTS
    c1 = c1
    c2 = c2
    JobThread = JobThread
    NoOne = NoOne
    Client = {c1, c2}
    MaxJobId = 2
    Faults = TRUE
SYMMETRY ClientSymmetry
CHECK_DEADLOCK FALSE
INVARIANTS
    MirrorIsComplete
    SyncedIsPresent
    CacheHasMirror
PROPERTIES
    StableWhileRead
