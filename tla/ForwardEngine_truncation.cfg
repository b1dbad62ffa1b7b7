CONSTANTS
    MaxMsgs <- MCMaxMsgs
    MaxAttempts <- MCMaxAttempts
SPECIFICATION Spec
PROPERTY NoTruncation
CHECK_DEADLOCK FALSE
