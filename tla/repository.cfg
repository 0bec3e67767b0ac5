SPECIFICATION Spec
CONSTANTS
    i1 = i1
    i2 = i2
    d1 = d1
    f1 = f1
    f2 = f2
    t1 = t1
    t2 = t2
    bad = bad
    Instances <- MCInstances
    Dirs <- MCDirs
    Entries = {1, 2}
    Files <- MCFiles
    Texts <- MCTexts
    Profiles <- MCProfiles
    MaxChanges = 3
    FineClock = TRUE
    LinksSettle = TRUE
    NoFile = NoFile
    NoDir = NoDir
    NoScope = NoScope
    NotCached = NotCached
    Failed = Failed
SYMMETRY MCSymmetry
INVARIANTS
    TypeOK
    CacheIsCurrent
    OneRowPerFile
    CacheIsBounded
    QuietLoadIsExact
PROPERTY
    KeepsPromise
