SPECIFICATION Spec
CONSTANTS
    N = 4
    MaxIntrusions = 1
CHECK_DEADLOCK FALSE
INVARIANT
    InstallIsAtomic
