SPECIFICATION MCSpec
CONSTANTS
    o1 = o1
    o2 = o2
    x = x
    y = y
    Objs = {o1, o2}
    Prototype <- MCPrototype
    Nil = Nil
    Names = {x, y, NaN}
    NaN = NaN
    Handlers <- MCHandlers
    Limit = 4
    MaxDepth = 4
    MaxFrames = 3
    FrameSize = 4
    NullValues = 2
    Align = 16
    InitCalls = 2
    InitStack = 12
    MaxLeft = 2
    Destroyed = {"empty"}
    main = main
    middle = middle
    inner = inner
    f1 = f1
    f2 = f2
    s1 = s1
    s2 = s2
    v = v
    Null = Null
    Off = Off
INVARIANTS
    FramesExact AccessSound
PROPERTIES
    UnwindingEnds
