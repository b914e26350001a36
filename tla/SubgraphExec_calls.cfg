SPECIFICATION FairSpec
CONSTANTS
    NumExtra = 10
    PadBase = 8
    MaxCalls = 2
    Graphs <- PairGraphs
PROPERTIES
    OnlyRightTensorsDelivered
    NoWriteUnderIp
    NoRunAbandoned
    ImplementsService
    CallReturns
CHECK_DEADLOCK FALSE
