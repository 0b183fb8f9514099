SPECIFICATION MCSpec
CONSTANTS
    Threads = {t1, t2}
    Clients = {c1, c2, c3, c4}
    Big = {c2, c4}
    Keep = {c3, c4}
    Unread = {c2, c4}
    Nil = Nil
    Workers = {w1}
    FileLen = 2
    SlowRestart = TRUE
    MaxClock = 5
    MaxVersion = 3
    MaxLen = 6
    Cutoff = 2
    Ranks = {1, 2, 3}
    Comparators = {"values", "user"}
CHECK_DEADLOCK FALSE
INVARIANTS
    RequestsExact CacheSound PartsSound
PROPERTIES
     Terminates TriggerSound
