SPECIFICATION TableSpec
CONSTANTS
    Ids = {1, 3, 7, 11}
    Root = 1
    Fields = {"p"}
    Contents = {}
    Handles = {}
    Host = Host
    Nil = Nil
    MaxStack = 2
    InitHeads = 2
VIEW View
CHECK_DEADLOCK FALSE
INVARIANTS
    ChainsSound SweepLeavesOnlyMarked
