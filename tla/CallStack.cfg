SPECIFICATION Spec
CONSTANTS
    main = main
    middle = middle
    inner = inner
    Decls = {main, middle, inner}
    Outer <- Nesting
    Upvalue = {main}
    Funcs = {f1, f2, f3}
    Scopes = {s1, s2, s3}
    Vals = {v, w}
    Null = Null
    Nil = Nil
    Rets = {2}
    InitCapacity = 8
    MaxCallStack = 3
CHECK_DEADLOCK FALSE
SYMMETRY Symmetry
INVARIANTS
    CountsExact ParentsAlive FramesCurrent
PROPERTIES
    VariableKept DeclReadable
