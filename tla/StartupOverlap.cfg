SPECIFICATION Spec
CONSTANTS
    p1 = p1
    p2 = p2
    NoOne = NoOne
    HostName = {"github", "www.github", "forge"}
    Stem = {"plain", "spaced", "dot"}
    Process = {p1, p2}
    Worker = 2
    Latest = 3
    Known <- MCKnown
    Legacy <- MCLegacy
    MaxRows = 2
    MaxStarts = 2
CHECK_DEADLOCK FALSE
INVARIANTS
    OneInstance
