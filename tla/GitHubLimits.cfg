SPECIFICATION FairSpec
CONSTANTS
    Releases = {a}
    Repositories = {x}
    NoOne = NoOne
    Job = {1, 2}
    Kind <- OneOfEach
    Item <- ItemsOfEach
    PageSize = 1
    MaxPages = 3
    ThrowLimit = 2
    ThrowDelay = 1
    RetryLimit = 2
    Base = 1
    Fallback = 1
    Margin = 1
    MinDelay = 1
    MaxDelay = 2
    Spread = 1
    MaxLimit = 2
    MaxLimits = 1
    MaxChanges = 1
    MaxStops = 1
CHECK_DEADLOCK FALSE
INVARIANTS
    LimitIsHonoured
    LimitIsNoFailure
    StatusIsTruthful
PROPERTIES
    JobsEnd
