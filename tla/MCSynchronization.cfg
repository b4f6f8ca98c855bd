CONSTANTS
    None = None
    Threads = {"t1", "t2"}
    Events = {"e1", "e2"}
    WaitLists <- Arrays
SPECIFICATION SynchronizationSpec
INVARIANTS WaitInvariant LimitInvariant
PROPERTIES WaitOutcome ListsSound EveryWaitEnds
