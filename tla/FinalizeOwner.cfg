CONSTANTS
    None = None
    Threads = {"t1"}
    Addresses = {"a1"}
    Limit = 2
    Counts <- SomeCounts
    Priorities = {1}
    LockThreads = {"t1", "t2", "t3"}
    Addrs = {"a1", "a2"}
    Keys = {"k1"}
    InitPrio <- ThreePrios
    BasePrios = {1, 3}
    Adjustable = {"t1", "t3"}
    Mortal = {"t1", "t2"}
    TermPrio = 0
    MaxTick = 15
    MaxNow = 10
SPECIFICATION LocksSpec
INVARIANT CancelFindsOwner
CHECK_DEADLOCK FALSE
