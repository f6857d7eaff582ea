CONSTANTS
    Calls = {c1, c2}
    Ends = {"status"}
    ReapAt = 1
    SettleLimit = 2
    Nobody = Nobody
SPECIFICATION Spec
INVARIANTS
    RunningOK
PROPERTIES
    WaitsReturn
CHECK_DEADLOCK FALSE
