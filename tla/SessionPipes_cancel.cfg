CONSTANTS
    Handles <- MCHandles
    NoSock = NoSock
    Configs <- SessionConfigs
    Faults <- NoFaults
    PipeConfigs <- MCPipeConfigs
    MaxIter <- MCMaxIter
SPECIFICATION CSpec
PROPERTY CancelTerminates
CHECK_DEADLOCK FALSE
