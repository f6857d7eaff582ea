CONSTANTS
    Callers = {c1, c2}
    Lanes = {l1, l2}
    Modes = {"exclusive", "lane"}
    MaxRequests = 2
    NoClient = NoClient
SPECIFICATION Spec
INVARIANTS
    PoolOK
    NoClientForgotten
PROPERTIES
    OutcomePromise
SYMMETRY PoolSymmetry
CHECK_DEADLOCK FALSE
