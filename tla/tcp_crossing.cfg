SPECIFICATION Spec
CONSTANTS
    KeyLen = 1
    NameLen = 1
    MaxTyped = 2
    MaxMade = 2
CHECK_DEADLOCK FALSE
INVARIANT NothingGarbled
