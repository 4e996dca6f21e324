SPECIFICATION ReadingSpec
CONSTANTS
    N_ATTEMPT = 3
    Hdr = 2
    Lengths = {0, 1, 2}
    Readers <- OnlyServer
    MaxSends <- SendsOneWay
    Closers <- Nobody
    FaultKinds <- NoFaults
    MaxFaults = 0
INVARIANT NoFailure
INVARIANT ExactlyOnceInOrder
PROPERTY EverySendIsAcked
CHECK_DEADLOCK FALSE
