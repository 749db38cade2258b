SPECIFICATION Spec
CONSTANTS
    Producers = {p1, p2}
    Capacity  = 3
    MaxAdds   = 2
    MaxPauses = 2
INVARIANTS
    PrintedInOrder
    FlushedWhenDown
PROPERTIES
    CallsReturn
CHECK_DEADLOCK FALSE
