CONSTANTS
    c1 = c1
    Convs = {c1}
    r1 = r1
    r2 = r2
    Requests = {r1, r2}
    Conv <- MCOneConv
    Deletes = {d1}
    d1 = d1
    g1 = g1
    Readers = {g1}
    NoSession = NoSession
    Cap = 3
    ChunkSizes <- MCSizes
    MaxBytes <- MCBytes
    Offsets <- MCOffsets
SPECIFICATION FairSpec
INVARIANTS BufferIsTail ReplayIsExact OrphansAreFinalized SurvivesDisconnect
PROPERTIES ReadersEnd
CHECK_DEADLOCK FALSE
