SPECIFICATION ExecuteSpec
CONSTANTS
    MaxFrames = 4
    FrameSize = 4
    NullValues = 2
    Align = 4
    InitCalls = 1
    InitStack = 40
    MaxLeft = 0
    Destroyed = {"empty"}
INVARIANTS BranchFollowsResult
