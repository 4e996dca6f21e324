SPECIFICATION FairSpec
CONSTANTS
    N_ATTEMPT = 2
    Hdr = 2
    Payload = 3
    MaxTyped = 1
    MaxMade = 1
    MaxFaults = 1
INVARIANT TypeOK
INVARIANT GarbledHasCause
INVARIANT CrashHasCause
INVARIANT EarlyEndHasCause
PROPERTY ServerStopsWithShell
PROPERTY ShellExitEndsClient
PROPERTY LeavingEndsSession
PROPERTY ShutdownEnds
CHECK_DEADLOCK FALSE
