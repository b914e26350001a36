SPECIFICATION Spec
CONSTANTS
    Layers <- MCLayers
    MaxCalls = 2
INVARIANT FramedUnlessOddlyPadded
INVARIANT OutputsReachTensors
INVARIANT WeightsInOrder
INVARIANT DepthwiseReadsPastTheEnd
CHECK_DEADLOCK FALSE
