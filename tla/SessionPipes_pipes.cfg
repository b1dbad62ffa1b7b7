CONSTANTS
    Handles <- MCHandles
    NoSock = NoSock
    Configs <- SessionConfigs
    Faults <- NoFaults
    PipeConfigs <- MCPipeConfigs
    MaxIter <- MCMaxIter
SPECIFICATION CSpec
INVARIANT MetricsThreadConfined
PROPERTY PipeReturnsWhenPeerLeaves
PROPERTY ReconnectsWhenPeerLeaves
CHECK_DEADLOCK FALSE
