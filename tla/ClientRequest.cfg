SPECIFICATION FairSpec
CONSTANTS
    Head <- MCHead
    MaxHeader = 3
    MaxBody = 2
    Buffer = 2
    Wait = 2
    Deadline = 3
    SendLimit = {1, 3}
    MaxAnswer = 3
    Horizon = 6
CHECK_DEADLOCK FALSE
INVARIANTS
    HandlerSeesAll
    ActsAreAuthentic
    ThreadIsFreed
PROPERTIES
    ConnectionEnds
