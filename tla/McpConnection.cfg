CONSTANTS
    Senders = {s1}
    Reader = Reader
    Calls = {a}
    Closers = {c1}
    Kinds = {"changed"}
    MaxSessionCalls = 1
    MaxReads = 2
    MaxNotes = 1
    Nobody = Nobody
SPECIFICATION Spec
INVARIANTS
    ConnectionOK
    WritesOK
PROPERTIES
    PoliteClientAdmitted
    OverdueNoteRetires
    EveryoneReturns
CHECK_DEADLOCK FALSE
