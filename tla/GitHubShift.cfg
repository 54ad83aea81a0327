SPECIFICATION Spec
CONSTANTS
    Releases = {a}
    Repositories = {x, y}
    NoOne = NoOne
    Job = {1, 2}
    Kind <- OneOfEach
    Item <- ItemsOfEach
    PageSize = 1
    MaxPages = 3
    ThrowLimit = 1
    ThrowDelay = 0
    RetryLimit = 1
    Base = 0
    Fallback = 1
    Margin = 1
    MinDelay = 1
    MaxDelay = 2
    Spread = 1
    MaxLimit = 2
    MaxLimits = 0
    MaxChanges = 1
    MaxStops = 0
CHECK_DEADLOCK FALSE
PROPERTIES
    AccountListsAll
