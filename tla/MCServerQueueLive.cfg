SPECIFICATION MCSpec
CONSTANTS
    Clients = {c1, c2}
    Tasks   = {a, m}
    Light   = {m}
    Metrics = {m}
    Slots   = {s1}
    NoSlot  = NoSlot
    NoTask  = NoTask
    Visitors = {c2}
    SleepEnabled = TRUE
PROPERTIES
    QueuedIsServed
    LoopMovesOn
    GateOpensWhileUp
CHECK_DEADLOCK FALSE
