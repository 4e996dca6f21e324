SPECIFICATION FairSpec
CONSTANTS
    N_ATTEMPT = 3
    Hdr = 1
    Lengths = {1}
    Readers <- BothPeers
    Closers <- OnlyServer
    MaxSends <- SendsTwoAndNone
    FaultKinds <- AllFaults
    MaxFaults = 1
INVARIANT TimeoutLeaksFromFailures
INVARIANT CopiesBounded
PROPERTY CallsReturn
CHECK_DEADLOCK FALSE
