CONSTANTS
    MaxMsgs <- MCMaxMsgs
    MaxAttempts <- MCMaxAttempts
SPECIFICATION Spec
INVARIANT TypeOK
PROPERTY ImplementsRelay
PROPERTY SessionWindsDown
CHECK_DEADLOCK FALSE
