SPECIFICATION Spec
CONSTANTS
    N_ATTEMPT = 3
    Hdr = 2
    Lengths = {1, 2}
    Readers <- BothPeers
    Closers <- Nobody
    MaxSends <- SendsTwoAndOne
    FaultKinds <- NoFaults
    MaxFaults = 0
INVARIANT ExactlyOnceInOrder
CHECK_DEADLOCK FALSE
