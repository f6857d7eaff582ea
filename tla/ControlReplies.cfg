CONSTANTS
    Callers = {c1, c2}
    MaxRequests = 2
    Kinds = {"command", "fence", "capture"}
    OutputLists <- Outputs
    FrameLists <- FenceLikeLists
    ForeignTags = {"B"}
    MaxForeign = 0
SPECIFICATION Spec
INVARIANTS
    RepliesOK
PROPERTIES
    OutcomePromise
SYMMETRY CallerSymmetry
CHECK_DEADLOCK FALSE
