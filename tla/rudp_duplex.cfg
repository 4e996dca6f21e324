SPECIFICATION Spec
CONSTANTS
    N_ATTEMPT = 3
    Hdr = 2
    Lengths = {0, 1}
    Readers <- BothPeers
    MaxSends <- SendsTwoAndOne
    Closers <- Nobody
    FaultKinds <- DuplexFaults
    MaxFaults = 1
INVARIANT AckIsCumulative
INVARIANT AckAheadByAtMostAHeader
PROPERTY DesyncIsPermanent
PROPERTY ImplementsChannel
CHECK_DEADLOCK FALSE
