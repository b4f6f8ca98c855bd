CONSTANTS
    None = None
    Host = Host
    s1 = s1
    s2 = s2
    t1 = t1
    t2 = t2
    t3 = t3
    NumCores = 2
    Threads = {s1, s2}
SYMMETRY ThreadSymmetry
SPECIFICATION ObjectsSpec
INVARIANTS QueueInvariant CoresUsed SwitchInvariant HandlesSound BlocksSound
PROPERTY RefinesPages
CHECK_DEADLOCK FALSE
