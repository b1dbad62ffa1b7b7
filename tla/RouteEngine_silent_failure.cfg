CONSTANTS
    MaxMsgs <- MCMaxMsgs
    Modes <- AllModes
SPECIFICATION Spec
INVARIANT RouteFailsLoudly
CHECK_DEADLOCK FALSE
