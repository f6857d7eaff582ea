CONSTANTS
    p1 = p1
    p2 = p2
    c1 = c1
    c2 = c2
    c3 = c3
    Calls = {c1, c2, c3}
    Panes = {p1, p2}
    Groups <- Synchronized
    Mixes <- AllMixes
    MaxGenerations = 2
    Nobody = Nobody
SPECIFICATION Spec
INVARIANTS
    PaneOK
    PendingIsLine
PROPERTIES
    RunsOneAtATime
    EndedRunIsForgotten
CHECK_DEADLOCK FALSE
