SPECIFICATION Spec
CONSTANTS
    N_ATTEMPT = 3
    Hdr = 24
    a = a
    b = b
    c = c
    Clients <- TwoClients
    FaultKinds <- DuplicationOnly
    MaxFaults = 1
CHECK_DEADLOCK FALSE
INVARIANT OthersAreServed
