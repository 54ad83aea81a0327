SPECIFICATION Spec
CONSTANTS
    c1 = c1
    JobThread = JobThread
    NoOne = NoOne
    Client = {c1}
    MaxJobId = 2
    Faults = FALSE
SYMMETRY ClientSymmetry
CHECK_DEADLOCK FALSE
INVARIANTS
    InterruptedIsNotFailed
