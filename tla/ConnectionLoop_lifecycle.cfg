CONSTANTS
    Handles <- MCHandles
    NoSock = NoSock
    Configs <- LifecycleConfigs
    Faults <- LifecycleFaults
SPECIFICATION Spec
INVARIANT SocketLifecycle
CHECK_DEADLOCK FALSE
