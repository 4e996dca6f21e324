SPECIFICATION FairSpec
CONSTANTS
    N_ATTEMPT = 3
    Hdr = 24
    a = a
    b = b
    c = c
    Clients <- ThreeClients
    FaultKinds <- AllFaults
    MaxFaults = 3
CHECK_DEADLOCK FALSE
INVARIANT SessionsMatch
INVARIANT EstablishedAgree
INVARIANT NoLeakedSocket
INVARIANT UnharmedIsServed
INVARIANT UnharmedFailsOnlyAfterExit
PROPERTY EveryClientIsServed
