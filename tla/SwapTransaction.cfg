CONSTANTS
    a = a
    b = b
    x = x
    y = y
    Layers = {a, b}
    Configs = {x, y}
    Places <- EitherPlace
    Processes <- Given
    MaxEvents = 4
SPECIFICATION Spec
INVARIANTS
    FilesOK
    SwapIsRecorded
    FailureIsUndone
    ConfigsAreTrue
CHECK_DEADLOCK FALSE
