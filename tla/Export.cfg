SPECIFICATION FairSpec
CONSTANTS
    c1 = c1
    c2 = c2
    Call = {c1, c2}
    Exporter = {c1, c2}
    Timeout = 3
    Grace = 2
    KillAfter = 2
INVARIANTS
    NothingIsCutShort
    OneExport
    SentIsWhole
    FilesAreOwned
PROPERTIES
    SlotComesBack
