SPECIFICATION MaskSpec
CONSTANTS
    NumSeqs = 2
    NumCells = 3
    Unified = TRUE
    Window = 2
    NumUbatch = 4
    MaxTokens = 2
    MaxPos = 3
    MaxCopies = 2
    Middle = FALSE
    Deltas <- MCNone
    Divisors <- MCNone
    Coupled = TRUE
    NPad = 1
    MaskSlack = 0
INVARIANTS
    PositionsContiguous
PROPERTIES
    AttendedStay
    MaskIsExact
