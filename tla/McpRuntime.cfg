CONSTANTS
    r1 = r1
    r2 = r2
    Requests <- TwoRequests
    Mixes <- CreateMeetsAnother
    MaxDaemons = 1
    MaxConnections = 2
    Nobody = Nobody
SPECIFICATION Spec
INVARIANTS
    RuntimeOK
    NobodyStranded
PROPERTIES
    NoSilentSwitch
    EveryoneReturns
CHECK_DEADLOCK FALSE
