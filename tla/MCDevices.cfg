CONSTANTS
    Producers = {"p1", "p2"}
    Consumers = {"c1"}
    Values = {"a", "b"}
    None = None
    Capacity = 2
    IndexSize = 4
SPECIFICATION DevicesSpec
PROPERTIES DeviceMemorySound AudioSound QueueSound
CHECK_DEADLOCK FALSE
