SPECIFICATION FairSpec
CONSTANTS
    KeyLen = 2
    NameLen = 2
    MaxTyped = 3
    MaxMade = 3
CHECK_DEADLOCK FALSE
INVARIANT KeysApartByTheWire
INVARIANT GarbleIsTransient
INVARIANT ShellHasServer
PROPERTY KeyExchangeEnds
PROPERTY LeavingEndsShell
PROPERTY ShellExitEndsClient
