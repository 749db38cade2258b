SPECIFICATION Spec
CONSTANTS
    Clients = {c1, c2}
    Tasks   = {a, b}
    Light   = {}
    Metrics = {}
    Slots   = {s1}
    NoSlot  = NoSlot
    NoTask  = NoTask
    Visitors = {}
    SleepEnabled = TRUE
SYMMETRY Symmetry
INVARIANTS
    OneOwner
    NoMissedWakeup
    NoneStranded
    NoTaskLost
    ServedInOrder
    NoWorkAsleep
CHECK_DEADLOCK FALSE
