CONSTANTS
    Readers = {r1, r2}
    HeaderSize = 2
    Limit = 7
    Lengths = {1, 3}
    After = 1
    MaxWire = 3
SPECIFICATION QueueSpec
INVARIANTS
    QueueOK
    DeliveredInOrder
PROPERTIES
    EndIsLast
    ReadsReturn
