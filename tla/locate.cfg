SPECIFICATION Spec
CHECK_DEADLOCK FALSE
CONSTANTS
    Names <- MCNames
    Kinds <- MCKinds
    RootOf <- MCRootOf
    CandidatesOf <- MCCandidatesOf
    Customs <- MCCustoms
    Targets <- MCTargets
    Directories <- MCDirectories
    MaximumSymbolicLinks = 2
    MaxChanges = 1
    NoPath = NoPath
    Garbled = Garbled
    Unreadable = Unreadable
    Nowhere = Nowhere
INVARIANTS
    SandboxHolds
    AnswerIsJustified
PROPERTY
    SearchEnds
