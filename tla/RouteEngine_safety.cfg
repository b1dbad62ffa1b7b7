CONSTANTS
    MaxMsgs <- MCMaxMsgs
    Modes <- AllModes
SPECIFICATION Spec
INVARIANT TypeOK
PROPERTY ImplementsRelay
PROPERTY RouteEndsWhenPeersLeave
CHECK_DEADLOCK FALSE
