CONSTANTS
    t1 = t1
    t2 = t2
    t3 = t3
    None = None
    Host = Host
    Threads = {t1, t2, t3}
    SuspendTypes = {"Process"}
    Prio <- MCPrio
SPECIFICATION ThreadsSpec
INVARIANTS LockedByCurrentThread NoLostWaiter KernelWaitersNotSuspended
PROPERTIES ImplementsHandoffLock LockGranted SelectedRuns
