SPECIFICATION CollectSpec
CONSTANTS
    Ids = {1, 3, 7, 11, 15, 19}
    Root = 1
    First = 3
    Fields = {"p", "q"}
    Contents = {}
    Handles = {}
    Host = Host
    Nil = Nil
    MaxStack = 0
    InitHeads = 4
PROPERTIES
    GarbageIsFreed
