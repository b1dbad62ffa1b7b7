CONSTANTS
    Handles <- MCHandles
    NoSock = NoSock
    Configs <- AllConfigs
    Faults <- NoFaults
SPECIFICATION Spec
PROPERTY RetryPolicy
CHECK_DEADLOCK FALSE
