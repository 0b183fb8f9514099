SPECIFICATION Spec
CONSTANTS
    Ids = {root, a, b, c}
    Root = root
    Fields = {p}
    Contents = {s}
    Handles = {h}
    Host = Host
    Nil = Nil
    MaxStack = 2
SYMMETRY Symmetry
VIEW View
CHECK_DEADLOCK FALSE
INVARIANTS
    IndInv NoDangling ExactCounts InternedOnce ShutdownFreesAll
PROPERTIES
    NeverFreesReachable FullCollectionIsComplete
