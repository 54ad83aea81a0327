SPECIFICATION Spec
CONSTANTS
    Releases = {a, b, c}
    Repositories = {x, y, z}
    NoOne = NoOne
    Job = {1, 2}
    Kind <- OneOfEach
    Item <- ItemsOfEach
    PageSize = 1
    MaxPages = 3
    ThrowLimit = 1
    ThrowDelay = 0
    RetryLimit = 1
    Base = 0
    Fallback = 1
    Margin = 1
    MinDelay = 1
    MaxDelay = 2
    Spread = 1
    MaxLimit = 2
    MaxLimits = 0
    MaxChanges = 1
    MaxStops = 0
SYMMETRY Ids
CHECK_DEADLOCK FALSE
PROPERTIES
    ReleasesAreOneWalk
    AccountIsComplete
