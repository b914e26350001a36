SPECIFICATION Spec
CONSTANTS
    NumExtra = 10
    PadBase = 8
    MaxCalls = 1
    Graphs <- NineShared
INVARIANTS
    TenSharedNodesWork
CHECK_DEADLOCK FALSE
