CONSTANTS
    Callers = {c1}
    Lanes = {l1}
    Modes = {"exclusive", "lane"}
    MaxRequests = 2
    NoClient = NoClient
SPECIFICATION Spec
PROPERTIES
    EveryoneReturns
CHECK_DEADLOCK FALSE
