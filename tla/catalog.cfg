SPECIFICATION Spec
CONSTANTS
    i1 = i1
    i2 = i2
    linked = linked
    plain = plain
    d1 = d1
    d2 = d2
    d3 = d3
    Instances <- MCInstances
    Paths <- MCPaths
    SymlinkedPaths <- MCSymlinked
    Dirs <- MCDirs
    Files = {1}
    MaxChanges = 3
    Granularity = 2
    SyncCallbacks = TRUE
    NoInstance = NoInstance
    NoPath = NoPath
    NoDir = NoDir
SYMMETRY MCSymmetry
INVARIANTS
    TypeOK
    CleanIsCurrent
    WatchesMatchSnapshot
PROPERTY
    ListsOnlyTheSession
