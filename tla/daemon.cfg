SPECIFICATION FairSpec
CONSTANTS
    Services <- BroadcastAndTcp
    MaxStarts = 2
    MaxVisits = 2
INVARIANT ServicesHaveDaemon
INVARIANT PidFileNamesDaemon
PROPERTY KillWorks
PROPERTY PortsComeBack
CHECK_DEADLOCK FALSE
