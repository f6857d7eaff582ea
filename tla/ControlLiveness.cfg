CONSTANTS
    Callers = {c1}
    MaxRequests = 2
    Kinds = {"command", "capture"}
    OutputLists <- GuardLike
    FrameLists <- EndLikeList
    ForeignTags = {"B"}
    MaxForeign = 1
SPECIFICATION Spec
INVARIANTS
    RepliesOK
PROPERTIES
    NobodyIsHeldUp
    StreamEndIsSeen
CHECK_DEADLOCK FALSE
