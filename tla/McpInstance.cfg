CONSTANTS
    Sessions = {s1, s2}
    Calls = {a, b}
    Closers = {c1}
    MaxSessionCalls = 2
    MaxInstanceCalls = 3
SPECIFICATION Spec
INVARIANTS
    InstanceOK
    NothingOutlivesShutdown
PROPERTIES
    DrainsBeforeClose
    ShutdownEnds
CHECK_DEADLOCK FALSE
