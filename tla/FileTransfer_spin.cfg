CONSTANTS
    Seg <- MCSeg
    Files <- NameFillsSegment
    StatsOn <- NoStats
    MaxPeriods <- MCMaxPeriods
SPECIFICATION Spec
PROPERTY TransferReturns
CHECK_DEADLOCK FALSE
