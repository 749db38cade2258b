SPECIFICATION Spec
CONSTANTS
    single = single
    family = family
    pinned = pinned
    hollow = hollow
    save = save
    none = none
    Requests = {pinned, family, save}
    NumSlots = 2
    long = family
    NoSlot = none
    Kind <- MCKind
    Want <- MCWant
    Children <- MCChildren
    MaxTokens <- MCTokens
    EmptyPrompts <- MCEmpty
INVARIANTS
    InOnePlace
    AnswersReachReaders
    ChildHasParent
CHECK_DEADLOCK FALSE
