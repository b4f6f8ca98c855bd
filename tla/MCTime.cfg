CONSTANTS
    Tasks = {k1, k2, k3}
    None = None
    MaxTime = 3
SPECIFICATION TimeSpec
INVARIANTS NoLostTask NextIsEarliest SleepersSignaled
PROPERTIES TimingSound TimeoutsHappen
CHECK_DEADLOCK FALSE
