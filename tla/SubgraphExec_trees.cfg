SPECIFICATION Spec
CONSTANTS
    NumExtra = 10
    PadBase = 8
    MaxCalls = 1
    Graphs <- SmallGraphs
INVARIANTS
    OutputsCorrect
    SharedOutputsSurvive
    RightExactlyIfWellRead
CHECK_DEADLOCK FALSE
