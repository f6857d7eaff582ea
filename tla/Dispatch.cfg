CONSTANTS
    Callers = {c1, c2}
    Mixes <- Mixed
    Bounds = {TRUE, FALSE}
    Needs = {1, 2}
    Versions = {1, 2}
    Executable = 2
    Capture = "pipe"
    MaxDaemons = 2
SPECIFICATION Spec
INVARIANTS
    DispatchOK
    RunsWhereChecked
    ReportIsTrue
    StaleRecordIsHidden
SYMMETRY CallerSymmetry
CHECK_DEADLOCK FALSE
