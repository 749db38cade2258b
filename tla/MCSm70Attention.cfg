SPECIFICATION MaskSpec
CONSTANTS
    NumSeqs = 2
    NumCells = 6
    Unified = FALSE
    Window = 0
    NumUbatch = 4
    MaxTokens = 3
    MaxPos = 5
    MaxCopies = 1
    Middle = FALSE
    Deltas <- MCNone
    Divisors <- MCNone
    Coupled = FALSE
    NPad = 2
    MaskSlack = 0
    MinBatch = 2
    BlockM = 2
    BlockN = 2
    SplitMinKv = 4
INVARIANTS
    IndexMatches
    SlotsStayUsable
    KeysMatchPositions
PROPERTIES
    ExactWhenAligned
    SplitCovers
