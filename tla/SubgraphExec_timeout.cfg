SPECIFICATION Spec
CONSTANTS
    NumExtra = 10
    PadBase = 8
    MaxCalls = 2
    Graphs <- ShortChain
INVARIANTS
    WaitIsForCurrentOp
CHECK_DEADLOCK FALSE
