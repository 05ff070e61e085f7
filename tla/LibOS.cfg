SPECIFICATION Spec
CONSTANTS
    NoTask = NoTask
    PageSize = 2
    MaxKeys = 2
    MaxFds = 2
    MaxSocks = 3
    Backlog = 1
    SendRoom = 3
    Backends = {"catnap", "catnip"}
    MaxQds = 3
    MaxOps = 3
    MaxSent = 2
    PushLen = 2
    Programs = {{"accept", "pop"}, {"accept", "push"}, {"connect", "pop"}, {"pushto"}}
    Careful = TRUE
INVARIANTS NamesHold StreamsIntact NoneAsleep
CHECK_DEADLOCK FALSE
