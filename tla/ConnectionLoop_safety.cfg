CONSTANTS
    Handles <- MCHandles
    NoSock = NoSock
    Configs <- AllConfigs
    Faults <- AllFaults
SPECIFICATION Spec
INVARIANT TypeOK
INVARIANT CallerSocketNotReused
INVARIANT NoOrphanListener
INVARIANT StatsTracksSession
CHECK_DEADLOCK FALSE
