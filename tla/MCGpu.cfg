CONSTANTS
    AsyncCheck = FALSE
    Levels = {TRUE, FALSE}
    MaxFences = 3
    GpuClients = {"c1", "c2"}
    AwaitedValues = {1}
    AwaitedCounts = {1}
    AsyncCapacity = 1
    AsyncMaxFence = 3
    SyncCapacity = 3
    SyncMaxFence = 2
    Incs = {"i1", "i2"}
    Svc = "svc"
    NumSlots = 1
    FailLimit = 0
    MaxValue = 2
    Width = 16
SPECIFICATION GpuSpec
INVARIANTS GpuThreadInvariant FenceInvariant SyncpointInvariant
PROPERTY GpuCallsReturn
CHECK_DEADLOCK FALSE
