CONSTANTS
    None = None
    Sessions = {"s1", "s2", "s3"}
    MaxSessions = 2
    Clients = {"c1", "c2"}
    Servers = {"s1", "s2"}
    Requests = {"r1", "r2"}
    LoopThreads = {"t1", "t2"}
    LoopSessions = {"s1", "s2"}
    DeferThread = "t1"
    DeferSessions = {"s1"}
SPECIFICATION IpcSpec
INVARIANTS PortInvariant ManagerInvariant
PROPERTIES SessionSound CallsEnd
CHECK_DEADLOCK FALSE
