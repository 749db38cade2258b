SPECIFICATION Spec
CONSTANTS
    single = single
    family = family
    pinned = pinned
    hollow = hollow
    save = save
    none = none
    Requests = {family, hollow}
    NumSlots = 2
    long = family
    NoSlot = none
    Kind <- MCKind
    Want <- MCWant
    Children <- MCChildren
    MaxTokens <- MCTokens
    EmptyPrompts <- MCEmpty
PROPERTIES
    Answered
    ImplementsLife
CHECK_DEADLOCK FALSE
