SPECIFICATION MCSpec
CONSTANTS
    Objs = {o1, o2}
    Vals = {f}
    MaxNested = 1
    InitSlots = 2
    Addrs = {1, 2, 5}
    Texts = {TRUE, FALSE}
    MaxValues = 4
    Off = Off
CHECK_DEADLOCK FALSE
SYMMETRY Symmetry
INVARIANTS
    CallbacksKept ObjectsOwned CalendarExact MomentAgrees
