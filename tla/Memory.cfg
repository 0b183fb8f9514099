SPECIFICATION MCSpec
CONSTANTS
    Align = 2
    SmallHeader = 2
    PageHeader = 4
    BlockHeader = 4
    FreeHeader = 8
    MaxSmall = 16
    PageSize = 64
    PageIdMod = 65536
    KeptPages = 1
    Sizes = {16, 22, 28, 31, 32}
    MallocFails = FALSE
    MaxPages = 2
    MaxLarge = 1
    MaxHeld = 3
    MaxNextPage = 5
    Cells = {c1, c2, c3}
    Iters = {i, j}
    Vals = {v, w}
    Nil = Nil
    Keys = {0, 1, 3}
    NumKeys = {0, 1}
    Hash <- KeyHash
    InitHeads = 2
SYMMETRY Symmetry
INVARIANTS
    BlocksExact MemoryApart TableSound IteratorsAttached
PROPERTIES
    RefinesOrderedMap
