SPECIFICATION ReadingSpec
CONSTANTS
    N_ATTEMPT = 3
    Hdr = 2
    Lengths = {1, 2}
    Readers <- OnlyServer
    Closers <- Nobody
    MaxSends <- SendsOneWay
    FaultKinds <- LossFaults
    MaxFaults = 1
INVARIANT SurvivesLoss
CHECK_DEADLOCK FALSE
