SPECIFICATION Spec
CONSTANTS
    a = a
    b = b
    NumSlots = 2
    Tasks <- MCTasks
    Sampled = {b}
    NCtx = 4
    NKeep = 1
    Margin = 3
    NBatch = 2
    NumCells = 4
    MaxDraft = 1
    MaxSaved = 1
    ClearIdle = FALSE
    MaxOut = 3
INVARIANTS
    PromptIsCached
    DecodeSeesPrompt
    GoesOnFromItsPrompt
CHECK_DEADLOCK FALSE
