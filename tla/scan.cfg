SPECIFICATION Spec
CONSTANTS
    native = native
    snapped = snapped
    PathEntries = {1, 2}
    Programs <- MCPrograms
    SnapPrograms <- MCSnapPrograms
    Refs = {1}
    Other = 0
    MaxChanges = 1
    NoProgram = NoProgram
    Timeout = 1
    Grace = 1
    Limit = 1
INVARIANTS
    TypeOK
    NothingIsMissed
    NothingIsInvented
    NoProcessIsLost
PROPERTY
    ScanEnds
