SPECIFICATION Spec
CONSTANTS
    i1 = i1
    i2 = i2
    linked = linked
    plain = plain
    d1 = d1
    d2 = d2
    d3 = d3
    Instances <- MCInstances
    Paths <- MCPaths
    SymlinkedPaths <- MCSymlinked
    Dirs <- MCDirs
    Files = {1}
    MaxChanges = 1
    Granularity = 2
    SyncCallbacks = FALSE
    NoInstance = NoInstance
    NoPath = NoPath
    NoDir = NoDir
INVARIANT
    EveryChangeInvalidates
